--------------------------- MODULE TickStoreProofs ---------------------------
(***************************************************************************)
(* Proofs about TickStore, for any number of concurrent step requests, any *)
(* world, any bounds: the commit protocol of frame_transaction.py keeps    *)
(* one gapless chain of frames, each written once and whole, and reports   *)
(* only frames that are stored, whatever is retried, lost or given up.     *)
(*                                                                         *)
(* IndInv is the inductive invariant.  The properties of the documents     *)
(* alone are nearly inductive; what they need from the requests is that a  *)
(* frame under commit is numbered from the order index of the head it      *)
(* expects (FrameComputed), and that a resolution which has seen its frame *)
(* stored is right (the last but one conjunct of RequestInv).              *)
(*                                                                         *)
(* SeenInv says what an inspection may rely on: while the head has the     *)
(* revision it began with, what it has read is what is stored.             *)
(***************************************************************************)
EXTENDS TickStore, SequenceTheorems, TLAPS

\* Where a request holds the frame it is committing.
FramePoints == {"check", "transaction", "transient", "resolveFrame", "resolveHead"}

\* Every frame document carries the tick it is stored under and the hash of the
\* frame it was written from.
FramesTicked ==
    \A t \in 0..head.tick : /\ frames[t].identity.tick = t
                            /\ frames[t].identity.end = frames[t].end

\* What holds of the documents.
DocsInv == FrameChain /\ FramesTicked /\ FramesAtomic /\ OrderIndexes

\* What an inspection relies on, which also holds when events are added to the
\* newest frame: less than DocsInv, but inductive on its own.
InSync ==
    /\ head.hash = frames[head.tick].end
    /\ \A t \in 0..head.tick : frames[t].identity.tick = t
    /\ \A ev \in events : ev.tick \in 0..head.tick
    /\ OrderIndexes

\* A frame that was computed by run_tick: its events are the tick's, numbered
\* from the order index it expects of the head, and next is the number after.
FrameComputed(f) ==
    /\ f.tick \in 1..MaxTick
    /\ f.evts = TickEvents(f.tick, f.order)
    /\ f.next = f.order + Len(world[f.tick])

\* The request has been told of ticks before t only.
ReportedBefore(r, t) == \A i \in 1..Len(r.reported) : r.reported[i].tick < t

\* What holds of a request, wherever it is suspended.
RequestInv(r) ==
    /\ r.pc # "idle" => r.left \in Nat \ {0} /\ r.result = "none"
    /\ r.pc = "compute" => ReportedBefore(r, r.run.tick + 1)
    /\ r.pc \in FramePoints =>
         FrameComputed(r.frame) /\ ReportedBefore(r, r.frame.tick)
    /\ r.pc = "resolveHead" /\ r.stored =>
         r.frame.tick \in DOMAIN frames /\ frames[r.frame.tick] = DocOf(r.frame)
    /\ r.pc # "idle" => Durable(r.reported)

\* What holds of the requests needs nothing of the documents but their types.
RequestsInv == TypeOK /\ \A s \in Steppers : RequestInv(req[s])

\* The inductive invariant.
IndInv == RequestsInv /\ DocsInv /\ ReportedFramesDurable

----------------------------------------------------------------------------
\* What the operators of TickStore return.

\* A hash of a tick and a view.
LEMMA HashOfType ==
    ASSUME NEW t \in Nat, NEW view \in View
    PROVE  HashOf(t, view) \in Hash
BY DEF HashOf, Hash

\* Applying events to a view gives a view.
LEMMA ApplyType ==
    ASSUME NEW view \in View, NEW evts \in SUBSET Event
    PROVE  Apply(view, evts) \in View
BY DEF Apply, View

\* The genesis documents and the idle request have their types.
LEMMA GenesisType ==
    /\ GenesisEvent \in Event
    /\ GenesisView \in View
    /\ GenesisHash \in Hash
    /\ GenesisHead \in RunHead
    /\ GenesisFrame \in Frame
    /\ NoRequest \in Request
<1>1. GenesisEvent \in Event
  BY DEF GenesisEvent, Event
<1>2. GenesisView \in View
  BY <1>1 DEF GenesisView, Replay, Apply, View
<1>3. GenesisHash \in Hash
  BY <1>2 DEF GenesisHash, HashOf, Hash
<1>4. GenesisHead \in RunHead
  BY <1>3 DEF GenesisHead, RunHead, Statuses
<1>5. GenesisFrame \in Frame
  BY <1>1, <1>2, <1>3 DEF GenesisFrame, Frame
<1>6. NoRequest \in Request
  BY <1>2, <1>4, <1>5 DEF NoRequest, Request, Points, Results
<1>. QED  BY <1>1, <1>2, <1>3, <1>4, <1>5, <1>6

\* The events of a tick are finitely many and well formed.
LEMMA TickEventsType ==
    ASSUME NEW w \in Worlds, world = w, NEW t \in 1..MaxTick, NEW o \in Nat
    PROVE  /\ Len(world[t]) \in Nat
           /\ TickEvents(t, o) \in SUBSET Event
<1>1. world[t] \in Seq(SUBSET Entities)
  BY StoreAssumption DEF WorldAssumption
<1>2. Len(world[t]) \in Nat /\ \A i \in 1..Len(world[t]) : world[t][i] \in SUBSET Entities
  BY <1>1
<1>. QED  BY <1>2, StoreAssumption DEF TickEvents, Event, BoundsAssumption

\* build_precomputed_frame gives a frame that FrameComputed describes.
LEMMA FrameFromType ==
    ASSUME NEW w \in Worlds, world = w, NEW view \in View,
           NEW run \in RunHead, run.tick < MaxTick
    PROVE  FrameFrom(run, view) \in Frame /\ FrameComputed(FrameFrom(run, view))
<1>. DEFINE t == run.tick + 1
<1>1. t \in 1..MaxTick /\ run.order \in Nat /\ run.rev \in Nat /\ run.hash \in Hash
  BY StoreAssumption DEF RunHead, BoundsAssumption
<1>2. Len(world[t]) \in Nat /\ TickEvents(t, run.order) \in SUBSET Event
  BY <1>1, TickEventsType
<1>3. Apply(view, TickEvents(t, run.order)) \in View
  BY <1>2, ApplyType
<1>4. HashOf(t, Apply(view, TickEvents(t, run.order))) \in Hash
  BY <1>1, <1>3, HashOfType, StoreAssumption DEF BoundsAssumption
<1>. QED  BY <1>1, <1>2, <1>3, <1>4, StoreAssumption DEF FrameFrom, Frame, FrameComputed, BoundsAssumption

----------------------------------------------------------------------------
\* What a step may do to the documents: nothing, set the status, or commit.
DocsGrow ==
    /\ world' = world
    /\ head' \in RunHead /\ head'.tick >= head.tick
    /\ frames' \in [0..head'.tick -> FrameDoc]
    /\ \A t \in 0..head.tick : frames'[t] = frames[t]

\* What is stored stays stored.
LEMMA GrowKeepsDurable ==
    ASSUME TypeOK, DocsGrow, NEW rep, Durable(rep)
    PROVE  Durable(rep)'
<1>1. head.tick \in Nat /\ head'.tick \in Nat /\ head'.tick >= head.tick
  BY DEF TypeOK, DocsGrow, RunHead
<1>2. \A t \in 1..head.tick : frames'[t] = frames[t]
  BY <1>1 DEF DocsGrow
<1>. QED  BY <1>1, <1>2 DEF Durable

\* Growth of the documents invalidates nothing a request knows.
LEMMA GrowKeepsRequest ==
    ASSUME TypeOK, DocsGrow, NEW r \in Request, RequestInv(r)
    PROVE  RequestInv(r)'
<1>1. r.pc # "idle" => Durable(r.reported)'
  BY GrowKeepsDurable DEF RequestInv
<1>2. FrameComputed(r.frame)' <=> FrameComputed(r.frame)
  BY DEF FrameComputed, DocsGrow, TickEvents
<1>3. ReportedBefore(r, r.frame.tick)' <=> ReportedBefore(r, r.frame.tick)
  BY DEF ReportedBefore
<1>4. ReportedBefore(r, r.run.tick + 1)' <=> ReportedBefore(r, r.run.tick + 1)
  BY DEF ReportedBefore
<1>5. ASSUME r.pc = "resolveHead", r.stored
      PROVE  r.frame.tick \in DOMAIN frames' /\ frames'[r.frame.tick] = DocOf(r.frame)
  BY <1>5 DEF RequestInv, TypeOK, DocsGrow, RunHead, Request
<1>. QED  BY <1>1, <1>2, <1>3, <1>4, <1>5 DEF RequestInv, DocOf

\* What a step makes of one request, and leaves of the others.
RequestStep(s) ==
    \E r \in Request : /\ req' = [req EXCEPT ![s] = r]
                       /\ RequestInv(r)' /\ Durable(r.reported)'

\* A request that moves on keeps RequestInv if what it holds then satisfies it.
LEMMA GotoStep ==
    ASSUME TypeOK, DocsGrow, NEW s \in Steppers, NEW r \in Request, NEW pc \in Points,
           Goto(s, r, pc), RequestInv([r EXCEPT !.pc = pc]), pc # "idle"
    PROVE  RequestStep(s)
<1>1. [r EXCEPT !.pc = pc] \in Request /\ [r EXCEPT !.pc = pc].pc # "idle"
  BY DEF Request
<1>2. PICK c \in Request : c = [r EXCEPT !.pc = pc]
  BY <1>1
<1>3. RequestInv(c) /\ Durable(c.reported)
  BY <1>1, <1>2 DEF RequestInv
<1>. QED  BY <1>2, <1>3, GrowKeepsRequest, GrowKeepsDurable DEF Goto, RequestStep

\* An answered request keeps its reports and nothing else.
LEMMA ReplyStep ==
    ASSUME TypeOK, DocsGrow, NEW s \in Steppers, NEW r \in Request, NEW result \in Results,
           Reply(s, r, result), Durable(r.reported)
    PROVE  RequestStep(s)
<1>. DEFINE answered == [NoRequest EXCEPT !.frame = r.frame, !.reported = r.reported,
                                          !.result = result]
<1>1. answered \in Request
  BY GenesisType DEF Request
<1>2. /\ answered.pc = "idle"
      /\ answered.reported = r.reported
  BY DEF NoRequest
<1>3. RequestInv(answered) /\ Durable(answered.reported)
  BY <1>2 DEF RequestInv, FramePoints
<1>. HIDE DEF answered
<1>4. RequestInv(answered)' /\ Durable(answered.reported)'
  BY <1>1, <1>3, GrowKeepsRequest, GrowKeepsDurable
<1>. QED  BY <1>1, <1>4 DEF Reply, RequestStep, answered

\* A frame is committed.
WriteStep ==
    /\ world' = world
    /\ \E f \in Frame : FrameComputed(f) /\ WriteFrame(f)

\* Leaving the documents alone is growth.
LEMMA SameDocsGrow ==
    ASSUME TypeOK, UNCHANGED <<world, docs>>
    PROVE  DocsGrow
BY DEF TypeOK, docs, DocsGrow, RunHead

----------------------------------------------------------------------------
\* The documents' types.
DocsType ==
    /\ world \in Worlds
    /\ head \in RunHead
    /\ frames \in [0..head.tick -> FrameDoc]
    /\ events \in SUBSET Event
    /\ entities \in View

\* The transaction of _write_frame_body adds a frame and moves the head to it.
LEMMA WriteFrameGrows ==
    ASSUME DocsType, UNCHANGED world, NEW f \in Frame, WriteFrame(f)
    PROVE  /\ DocsType'
           /\ DocsGrow
           /\ f.tick = head.tick + 1 /\ f.start = head.hash /\ f.order = head.order
           /\ head'.tick = f.tick /\ head'.hash = f.end /\ head'.order = f.next
           /\ frames'[f.tick] = DocOf(f)
           /\ \A t \in 0..head.tick : frames'[t] = frames[t]
           /\ events' = events \cup f.evts
<1>1. /\ f.tick \in Nat /\ f.order \in Nat /\ f.next \in Nat
      /\ f.start \in Hash /\ f.end \in Hash
      /\ f.evts \in SUBSET Event /\ f.view \in View
  BY DEF Frame
<1>2. /\ head.tick \in Nat /\ head.order \in Nat /\ head.rev \in Nat
      /\ head \in RunHead
      /\ frames \in [0..head.tick -> FrameDoc]
  BY DEF DocsType, RunHead
<1>3. f.tick = head.tick + 1 /\ f.start = head.hash /\ f.order = head.order
  BY <1>1, <1>2 DEF WriteFrame, HeadMatches
<1>4. /\ head' \in RunHead
      /\ head'.tick = f.tick /\ head'.hash = f.end /\ head'.order = f.next
  <2>1. head' = [head EXCEPT !.tick = f.tick, !.hash = f.end, !.order = f.next,
                             !.rev = @ + 1, !.status = "running"]
    BY DEF WriteFrame
  <2>2. head' = [tick |-> f.tick, hash |-> f.end, order |-> f.next,
                 rev |-> head.rev + 1, maint |-> head.maint, quar |-> head.quar,
                 op |-> head.op, status |-> "running"]
    BY <1>2, <2>1 DEF RunHead
  <2>3. head.maint \in BOOLEAN /\ head.quar \in BOOLEAN /\ head.op \in Nat \cup {None}
    BY <1>2 DEF RunHead
  <2>. QED  BY <1>1, <1>2, <2>2, <2>3 DEF RunHead, Statuses
<1>5. DocOf(f) \in FrameDoc
  BY <1>1 DEF DocOf, FrameDoc
<1>6. frames' = [t \in 0..f.tick |-> IF t = f.tick THEN DocOf(f) ELSE frames[t]]
  <2>1. DOMAIN frames \cup {f.tick} = 0..f.tick
    BY <1>1, <1>2, <1>3
  <2>. QED  BY <2>1 DEF WriteFrame
<1>7. /\ frames' \in [0..head'.tick -> FrameDoc]
      /\ \A t \in 0..head.tick : frames'[t] = frames[t]
      /\ frames'[f.tick] = DocOf(f)
  BY <1>1, <1>2, <1>3, <1>4, <1>5, <1>6
<1>8. DocsGrow
  BY <1>1, <1>2, <1>3, <1>4, <1>7 DEF DocsGrow
<1>9. events' = events \cup f.evts
  BY DEF WriteFrame
<1>10. DocsType'
  <2>1. entities' \in View
    BY <1>1 DEF DocsType, WriteFrame, View
  <2>. QED  BY <1>1, <1>4, <1>7, <1>9, <2>1 DEF DocsType
<1>. QED  BY <1>3, <1>4, <1>7, <1>8, <1>9, <1>10

\* A frame numbered from the head's order index keeps the documents in sync.
LEMMA WriteFrameInSync ==
    ASSUME DocsType, InSync, UNCHANGED world,
           NEW f \in Frame, FrameComputed(f), WriteFrame(f)
    PROVE  InSync'
<1>1. /\ f.tick \in Nat /\ f.order \in Nat /\ f.next \in Nat
      /\ f.evts \in SUBSET Event
  BY DEF Frame
<1>2. head.tick \in Nat /\ head.order \in Nat
  BY DEF DocsType, RunHead
<1>3. /\ f.tick = head.tick + 1 /\ f.order = head.order
      /\ head'.tick = f.tick /\ head'.hash = f.end /\ head'.order = f.next
      /\ frames'[f.tick] = DocOf(f)
      /\ \A t \in 0..head.tick : frames'[t] = frames[t]
      /\ events' = events \cup f.evts
  BY WriteFrameGrows
<1>4. \A ev \in f.evts : ev.tick = f.tick
  BY DEF FrameComputed, TickEvents
<1>5. /\ head'.hash = frames'[head'.tick].end
      /\ \A t \in 0..head'.tick : frames'[t].identity.tick = t
      /\ \A ev \in events' : ev.tick \in 0..head'.tick
  BY <1>1, <1>2, <1>3, <1>4 DEF InSync, DocOf
<1>6. OrderIndexes'
  <2>. DEFINE n == Len(world[f.tick])
              ev(i) == [tick |-> f.tick, order |-> f.order + i - 1,
                        touched |-> world[f.tick][i]]
  <2>1. n \in Nat /\ f.next = f.order + n /\ f.evts = {ev(i) : i \in 1..n}
    BY TickEventsType, <1>1 DEF FrameComputed, DocsType, TickEvents
  <2>2. {e.order : e \in f.evts} = f.order..(f.next - 1)
    <3>1. ASSUME NEW k \in f.order..(f.next - 1)
          PROVE  k \in {e.order : e \in f.evts}
      <4>1. k - f.order + 1 \in 1..n /\ ev(k - f.order + 1).order = k
        BY <1>1, <2>1
      <4>. QED  BY <2>1, <4>1
    <3>2. ASSUME NEW e \in f.evts
          PROVE  e.order \in f.order..(f.next - 1)
      BY <1>1, <2>1
    <3>. QED  BY <3>1, <3>2
  <2>3. {e.order : e \in events} = 0..(head.order - 1)
    BY DEF InSync, OrderIndexes
  <2>4. {e.order : e \in events'} = 0..(head'.order - 1)
    <3>1. {e.order : e \in events'} = {e.order : e \in events} \cup {e.order : e \in f.evts}
      BY <1>3
    <3>2. 0..(head.order - 1) \cup f.order..(f.next - 1) = 0..(f.next - 1)
      BY <1>1, <1>2, <1>3, <2>1
    <3>. QED  BY <1>3, <2>2, <2>3, <3>1, <3>2
  <2>5. ASSUME NEW a \in events, NEW b \in f.evts
        PROVE  a.order < b.order /\ a.tick <= b.tick
    <3>1. a.order \in 0..(head.order - 1) /\ b.order \in f.order..(f.next - 1)
      BY <2>2, <2>3
    <3>2. a.tick \in 0..head.tick
      BY DEF InSync
    <3>. QED  BY <1>1, <1>2, <1>3, <1>4, <3>1, <3>2
  <2>6. ASSUME NEW a \in f.evts, NEW b \in f.evts
        PROVE  /\ a.order = b.order => a = b
               /\ a.tick <= b.tick
    <3>1. PICK i \in 1..n : a = ev(i)
      BY <2>1
    <3>2. PICK j \in 1..n : b = ev(j)
      BY <2>1
    <3>3. a.order = b.order => i = j
      BY <1>1, <2>1, <3>1, <3>2
    <3>. QED  BY <1>1, <3>1, <3>2, <3>3
  <2>7. \A a, b \in events : /\ a.order = b.order => a = b
                             /\ a.order < b.order => a.tick <= b.tick
    BY DEF InSync, OrderIndexes
  <2>8. \A a \in events : a.order \in Nat
    BY DEF DocsType, Event
  <2>9. \A a \in f.evts : a.order \in Nat
    BY <1>1 DEF Event
  <2>10. ASSUME NEW a \in events', NEW b \in events'
         PROVE  /\ a.order = b.order => a = b
                /\ a.order < b.order => a.tick <= b.tick
    <3>1. CASE a \in events /\ b \in events
      BY <2>7, <3>1
    <3>2. CASE a \in events /\ b \in f.evts
      BY <2>5, <2>8, <2>9, <3>2
    <3>3. CASE a \in f.evts /\ b \in events
      BY <2>5, <2>8, <2>9, <3>3
    <3>4. CASE a \in f.evts /\ b \in f.evts
      BY <2>6, <3>4
    <3>. QED  BY <1>3, <3>1, <3>2, <3>3, <3>4
  <2>. QED  BY <2>4, <2>10 DEF OrderIndexes
<1>. QED  BY <1>5, <1>6 DEF InSync

\* What holds of the documents keeps them in sync.
LEMMA DocsInvInSync ==
    ASSUME DocsType, DocsInv
    PROVE  InSync
<1>1. head.tick \in Nat
  BY DEF DocsType, RunHead
<1>. QED  BY <1>1 DEF DocsInv, FrameChain, FramesTicked, FramesAtomic, InSync

\* And preserves all that holds of the documents.
LEMMA WriteFrameDocs ==
    ASSUME DocsType, DocsInv, UNCHANGED world,
           NEW f \in Frame, FrameComputed(f), WriteFrame(f)
    PROVE  DocsInv'
<1>1. /\ f.tick \in Nat /\ f.order \in Nat /\ f.next \in Nat
      /\ f.evts \in SUBSET Event
  BY DEF Frame
<1>2. head.tick \in Nat /\ head.order \in Nat
  BY DEF DocsType, RunHead
<1>3. /\ f.tick = head.tick + 1 /\ f.start = head.hash /\ f.order = head.order
      /\ head'.tick = f.tick /\ head'.hash = f.end /\ head'.order = f.next
      /\ frames'[f.tick] = DocOf(f)
      /\ \A t \in 0..head.tick : frames'[t] = frames[t]
      /\ events' = events \cup f.evts
  BY WriteFrameGrows
<1>4. \A ev \in f.evts : ev.tick = f.tick
  BY DEF FrameComputed, TickEvents
<1>5. FrameChain'
  BY <1>1, <1>2, <1>3 DEF DocsInv, FrameChain, DocOf
<1>6. FramesTicked'
  BY <1>1, <1>2, <1>3 DEF DocsInv, FramesTicked, DocOf
<1>7. FramesAtomic'
  <2>1. \A ev \in events : ev.tick \in 0..head.tick
    BY DEF DocsInv, FramesAtomic
  <2>2. ASSUME NEW t \in 0..head.tick
        PROVE  {ev \in events' : ev.tick = t} = frames'[t].identity.evts
    <3>1. {ev \in events' : ev.tick = t} = {ev \in events : ev.tick = t}
      BY <1>2, <1>3, <1>4
    <3>. QED  BY <1>3, <3>1 DEF DocsInv, FramesAtomic
  <2>3. {ev \in events' : ev.tick = f.tick} = f.evts
    BY <1>2, <1>3, <1>4, <2>1
  <2>4. \A ev \in events' : ev.tick \in 0..f.tick
    BY <1>1, <1>2, <1>3, <1>4, <2>1
  <2>. QED  BY <1>1, <1>2, <1>3, <2>2, <2>3, <2>4 DEF FramesAtomic, DocOf
<1>8. OrderIndexes'
  BY DocsInvInSync, WriteFrameInSync DEF InSync
<1>. QED  BY <1>5, <1>6, <1>7, <1>8 DEF DocsInv

----------------------------------------------------------------------------
\* A request that is told of a frame is told of one the store holds.
LEMMA SucceedStep ==
    ASSUME TypeOK, DocsGrow, NEW s \in Steppers, RequestInv(req[s]),
           req[s].pc \in FramePoints,
           req[s].frame.tick \in 1..head'.tick,
           frames'[req[s].frame.tick] = DocOf(req[s].frame),
           Succeed(s)
    PROVE  RequestStep(s)
<1>. DEFINE f == req[s].frame
            rep == req[s].reported
<1>1. /\ req[s] \in Request /\ f \in Frame /\ f.tick \in Nat /\ f.end \in Hash
      /\ rep \in Seq([tick : Nat, end : Hash])
      /\ ReportOf(f) \in [tick : Nat, end : Hash]
  BY DEF TypeOK, Request, Frame, ReportOf
<1>2. /\ req[s].left \in Nat \ {0} /\ req[s].result = "none"
      /\ \A i \in 1..Len(rep) : rep[i].tick < f.tick
      /\ Durable(rep)
  BY DEF RequestInv, FramePoints, ReportedBefore
<1>3. PICK r \in Request : r = [req[s] EXCEPT !.reported = Append(@, ReportOf(req[s].frame)),
                                              !.left = @ - 1]
  <2>1. Append(rep, ReportOf(f)) \in Seq([tick : Nat, end : Hash])
    BY <1>1, AppendProperties
  <2>2. req[s].left - 1 \in Nat
    BY <1>2
  <2>3. [req[s] EXCEPT !.reported = Append(@, ReportOf(req[s].frame)), !.left = @ - 1] \in Request
    BY <1>1, <2>1, <2>2 DEF Request
  <2>. QED  BY <2>3
<1>4. /\ r.reported = Append(rep, ReportOf(f)) /\ r.left = req[s].left - 1
      /\ r.result = "none" /\ r.left \in Nat
  <2>1. r.reported = Append(rep, ReportOf(f)) /\ r.left = req[s].left - 1 /\ r.result = req[s].result
    BY <1>1, <1>3 DEF Request
  <2>. QED  BY <1>2, <2>1
<1>5. Durable(r.reported)'
  <2>1. /\ Len(r.reported) = Len(rep) + 1 /\ Len(rep) \in Nat
        /\ r.reported[Len(rep) + 1] = ReportOf(f)
        /\ \A i \in 1..Len(rep) : r.reported[i] = rep[i]
    BY <1>1, <1>4, AppendProperties
  <2>2. head.tick \in Nat /\ head'.tick \in Nat /\ head'.tick >= head.tick
    BY DEF TypeOK, DocsGrow, RunHead
  <2>3. \A t \in 1..head.tick : frames'[t] = frames[t]
    BY <2>2 DEF DocsGrow
  <2>4. ASSUME NEW i \in 1..Len(rep)
        PROVE  /\ r.reported[i].tick \in 1..head'.tick
               /\ frames'[r.reported[i].tick].end = r.reported[i].end
               /\ i > 1 => r.reported[i - 1].tick < r.reported[i].tick
    <3>1. /\ rep[i].tick \in 1..head.tick
          /\ frames[rep[i].tick].end = rep[i].end
          /\ i > 1 => rep[i - 1].tick < rep[i].tick
      BY <1>2 DEF Durable
    <3>2. i > 1 => r.reported[i - 1] = rep[i - 1]
      BY <2>1
    <3>3. rep[i].tick \in 1..head'.tick
      BY <2>2, <3>1
    <3>4. frames'[rep[i].tick].end = rep[i].end
      BY <2>3, <3>1
    <3>. QED  BY <2>1, <3>1, <3>2, <3>3, <3>4
  <2>5. /\ r.reported[Len(rep) + 1].tick = f.tick
        /\ r.reported[Len(rep) + 1].end = f.end
        /\ frames'[f.tick].end = f.end
    BY <2>1 DEF ReportOf, DocOf
  <2>6. Len(rep) + 1 > 1 => r.reported[Len(rep)].tick < f.tick
    BY <1>2, <2>1
  <2>7. ASSUME NEW i \in 1..Len(r.reported)
        PROVE  /\ r.reported[i].tick \in 1..head'.tick
               /\ frames'[r.reported[i].tick].end = r.reported[i].end
               /\ i > 1 => r.reported[i - 1].tick < r.reported[i].tick
    <3>1. CASE i \in 1..Len(rep)
      BY <2>4, <3>1
    <3>2. CASE i = Len(rep) + 1
      BY <2>1, <2>5, <2>6, <3>2
    <3>. QED  BY <2>1, <3>1, <3>2
  <2>. QED  BY <2>7 DEF Durable
<1>6. CASE r.left = 0
  <2>1. Reply(s, r, "OK")
    BY <1>3, <1>6 DEF Succeed
  <2>2. PICK a \in Request : a = [NoRequest EXCEPT !.frame = r.frame,
                                    !.reported = r.reported, !.result = "OK"]
    BY GenesisType DEF Request, Results
  <2>3. a.pc = "idle" /\ a.reported = r.reported
    BY <2>2 DEF NoRequest
  <2>4. RequestInv(a)' /\ Durable(a.reported)'
    BY <1>5, <2>3 DEF RequestInv, FramePoints, Durable
  <2>. QED  BY <2>1, <2>2, <2>4 DEF Reply, RequestStep
<1>7. CASE r.left # 0
  <2>1. Goto(s, r, "reload")
    BY <1>3, <1>7 DEF Succeed
  <2>2. PICK a \in Request : a = [r EXCEPT !.pc = "reload"]
    BY DEF Request, Points
  <2>3. /\ a.pc = "reload" /\ a.left \in Nat \ {0} /\ a.result = "none"
        /\ a.reported = r.reported
    BY <1>4, <1>7, <2>2 DEF Request
  <2>4. RequestInv(a)' /\ Durable(a.reported)'
    BY <1>5, <2>3 DEF RequestInv, FramePoints, Durable
  <2>. QED  BY <2>1, <2>2, <2>4 DEF Goto, RequestStep
<1>. QED  BY <1>6, <1>7

----------------------------------------------------------------------------
\* One lemma for each way a request goes on while the documents stay.

\* get_run and the flags.
LEMMA BeginStepRequest ==
    ASSUME TypeOK, NEW s \in Steppers, BeginStep(s)
    PROVE  RequestStep(s)
<1>1. PICK n \in 1..MaxRequest :
        LET r == [NoRequest EXCEPT !.left = n, !.run = head]
        IN  IF Blocked(head) THEN Reply(s, r, BlockedAs(head)) ELSE Goto(s, r, "inspectHead")
  BY DEF BeginStep
<1>. DEFINE r == [NoRequest EXCEPT !.left = n, !.run = head]
<1>2. /\ r \in Request /\ r.left = n /\ n \in Nat \ {0}
      /\ r.reported = <<>> /\ r.result = "none"
  <2>1. n \in Nat \ {0}
    BY StoreAssumption DEF BoundsAssumption
  <2>. QED  BY <2>1, GenesisType DEF TypeOK, Request, NoRequest
<1>3. DocsGrow
  BY SameDocsGrow DEF BeginStep
<1>4. Durable(r.reported)
  BY <1>2 DEF Durable
<1>5. CASE Blocked(head)
  <2>1. Reply(s, r, BlockedAs(head)) /\ BlockedAs(head) \in Results
    BY <1>1, <1>5 DEF BlockedAs, Results
  <2>. QED  BY <1>2, <1>3, <1>4, <2>1, ReplyStep
<1>6. CASE ~Blocked(head)
  <2>1. Goto(s, r, "inspectHead")
    BY <1>1, <1>6
  <2>2. [r EXCEPT !.pc = "inspectHead"].pc = "inspectHead"
    BY <1>2 DEF Request
  <2>3. RequestInv([r EXCEPT !.pc = "inspectHead"])
    BY <1>2, <1>4, <2>2 DEF RequestInv, FramePoints, Request
  <2>. QED  BY <1>2, <1>3, <2>1, <2>3, GotoStep DEF Points
<1>. QED  BY <1>5, <1>6

\* The inspection's reads and load_entities.
LEMMA InspectStep ==
    ASSUME TypeOK, NEW s \in Steppers, RequestInv(req[s]),
           \/ InspectHead(s) \/ InspectFrame(s) \/ InspectEvents(s)
           \/ InspectEntities(s) \/ LoadEntities(s)
    PROVE  RequestStep(s)
<1>1. DocsGrow
  BY SameDocsGrow DEF InspectHead, InspectFrame, InspectEvents, InspectEntities, LoadEntities
<1>2. /\ req[s] \in Request /\ req[s].pc # "idle"
      /\ Durable(req[s].reported)
      /\ req[s].left \in Nat \ {0} /\ req[s].result = "none"
  BY DEF TypeOK, RequestInv, At, InspectHead, InspectFrame, InspectEvents,
         InspectEntities, LoadEntities
<1>3. ASSUME NEW r \in Request, NEW pc \in Points, Goto(s, r, pc),
             pc \notin FramePoints \cup {"compute", "idle"},
             r.left = req[s].left, r.result = "none", r.reported = req[s].reported
      PROVE  RequestStep(s)
  <2>1. RequestInv([r EXCEPT !.pc = pc])
    BY <1>2, <1>3 DEF RequestInv, FramePoints, Request
  <2>. QED  BY <1>1, <1>3, <2>1, GotoStep
<1>4. ASSUME NEW result \in Results, Reply(s, req[s], result)
      PROVE  RequestStep(s)
  BY <1>1, <1>2, <1>4, ReplyStep
<1>5. CASE InspectHead(s)
  <2>1. CASE Blocked(head)
    BY <1>4, <1>5, <2>1 DEF InspectHead, BlockedAs, Results
  <2>2. CASE ~Blocked(head)
    <3>. DEFINE r == [req[s] EXCEPT !.run = head]
    <3>1. /\ r \in Request
          /\ r.left = req[s].left /\ r.result = "none" /\ r.reported = req[s].reported
      BY <1>2 DEF TypeOK, Request
    <3>2. Goto(s, r, "inspectFrame")
      BY <1>5, <2>2 DEF InspectHead
    <3>. QED  BY <1>3, <3>1, <3>2 DEF Points, FramePoints
  <2>. QED  BY <2>1, <2>2
<1>6. CASE InspectFrame(s)
  <2>1. PICK ok \in BOOLEAN : Goto(s, [req[s] EXCEPT !.ok = ok], "inspectEvents")
    BY <1>6 DEF InspectFrame
  <2>. DEFINE r == [req[s] EXCEPT !.ok = ok]
  <2>2. /\ r \in Request
        /\ r.left = req[s].left /\ r.result = "none" /\ r.reported = req[s].reported
    BY <1>2 DEF Request
  <2>. QED  BY <1>3, <2>1, <2>2 DEF Points, FramePoints
<1>7. CASE InspectEvents(s)
  <2>1. PICK ok \in BOOLEAN : Goto(s, [req[s] EXCEPT !.ok = ok], "inspectEntities")
    BY <1>7 DEF InspectEvents
  <2>. DEFINE r == [req[s] EXCEPT !.ok = ok]
  <2>2. /\ r \in Request
        /\ r.left = req[s].left /\ r.result = "none" /\ r.reported = req[s].reported
    BY <1>2 DEF Request
  <2>. QED  BY <1>3, <2>1, <2>2 DEF Points, FramePoints
<1>8. CASE InspectEntities(s)
  <2>1. \/ Goto(s, req[s], "load")
        \/ Reply(s, req[s], "RUN_INTEGRITY_MISMATCH")
    BY <1>8 DEF InspectEntities
  <2>. QED  BY <1>2, <1>3, <1>4, <2>1 DEF Points, FramePoints, Results
<1>9. CASE LoadEntities(s)
  <2>. DEFINE r == [req[s] EXCEPT !.view = entities]
  <2>1. /\ r \in Request
        /\ r.left = req[s].left /\ r.result = "none" /\ r.reported = req[s].reported
    BY <1>2 DEF TypeOK, Request
  <2>2. Goto(s, r, "reload")
    BY <1>9 DEF LoadEntities
  <2>. QED  BY <1>3, <2>1, <2>2 DEF Points, FramePoints
<1>. QED  BY <1>5, <1>6, <1>7, <1>8, <1>9

\* The head is read again, a frame is computed from it, or it is too large.
LEMMA ComputeStep ==
    ASSUME TypeOK, NEW s \in Steppers, RequestInv(req[s]),
           ReloadHead(s) \/ ComputeFrame(s) \/ ExceedCapacity(s)
    PROVE  RequestStep(s)
<1>1. DocsGrow
  BY SameDocsGrow DEF ReloadHead, ComputeFrame, ExceedCapacity
<1>2. /\ req[s] \in Request /\ req[s].pc \in {"reload", "compute"}
      /\ Durable(req[s].reported)
      /\ req[s].left \in Nat \ {0} /\ req[s].result = "none"
  BY DEF TypeOK, RequestInv, At, ReloadHead, ComputeFrame, ExceedCapacity
<1>3. CASE ReloadHead(s)
  <2>1. CASE Blocked(head)
    <3>1. Reply(s, req[s], BlockedAs(head)) /\ BlockedAs(head) \in Results
      BY <1>3, <2>1 DEF ReloadHead, BlockedAs, Results
    <3>. QED  BY <1>1, <1>2, <3>1, ReplyStep
  <2>2. CASE ~Blocked(head)
    <3>. DEFINE r == [req[s] EXCEPT !.run = head]
    <3>1. /\ r \in Request /\ r.run = head
          /\ r.left = req[s].left /\ r.result = "none" /\ r.reported = req[s].reported
      BY <1>2 DEF TypeOK, Request
    <3>2. ReportedBefore(r, head.tick + 1)
      BY <1>2, <3>1 DEF ReportedBefore, Durable, TypeOK, RunHead
    <3>3. RequestInv([r EXCEPT !.pc = "compute"])
      <4>1. ReportedBefore([r EXCEPT !.pc = "compute"], head.tick + 1)
        BY <3>1, <3>2 DEF ReportedBefore, Request
      <4>. QED  BY <1>2, <3>1, <4>1 DEF RequestInv, FramePoints, Request
    <3>4. Goto(s, r, "compute")
      BY <1>3, <2>2 DEF ReloadHead
    <3>. QED  BY <1>1, <3>1, <3>3, <3>4, GotoStep DEF Points
  <2>. QED  BY <2>1, <2>2
<1>4. CASE ComputeFrame(s)
  <2>. DEFINE f == FrameFrom(req[s].run, req[s].view)
              r == [req[s] EXCEPT !.frame = f, !.view = f.view, !.attempt = 0]
  <2>1. f \in Frame /\ FrameComputed(f) /\ f.tick = req[s].run.tick + 1
    BY <1>2, <1>4, FrameFromType DEF TypeOK, Request, ComputeFrame, FrameFrom
  <2>2. f.view \in View
    BY <2>1 DEF Frame
  <2>3. /\ r \in Request /\ r.frame = f
        /\ r.left = req[s].left /\ r.result = "none" /\ r.reported = req[s].reported
    BY <1>2, <2>1, <2>2 DEF Request
  <2>4. PICK c \in Request : c = [r EXCEPT !.pc = "check"]
    BY <2>3 DEF Request, Points
  <2>5. /\ c.pc = "check" /\ c.frame = f /\ c.reported = req[s].reported
        /\ c.left = req[s].left /\ c.result = "none"
    BY <2>3, <2>4 DEF Request
  <2>6. ReportedBefore(c, f.tick)
    BY <1>4, <2>1, <2>5 DEF RequestInv, ReportedBefore, ComputeFrame, At
  <2>7. RequestInv(c)
    BY <1>2, <2>1, <2>5, <2>6 DEF RequestInv, FramePoints
  <2>8. Goto(s, r, "check")
    BY <1>4 DEF ComputeFrame
  <2>. QED  BY <1>1, <2>3, <2>4, <2>7, <2>8, GotoStep DEF Points
<1>5. CASE ExceedCapacity(s)
  BY <1>1, <1>2, <1>5, ReplyStep DEF ExceedCapacity, Results
<1>. QED  BY <1>3, <1>4, <1>5

\* While a frame is being committed the request only changes its place, what it
\* has seen stored, why it asks and how often it has tried.
LEMMA FramePointStep ==
    ASSUME TypeOK, DocsGrow, NEW s \in Steppers, RequestInv(req[s]),
           req[s].pc \in FramePoints,
           NEW r \in Request, NEW pc \in FramePoints, Goto(s, r, pc),
           r.left = req[s].left, r.result = req[s].result,
           r.reported = req[s].reported, r.frame = req[s].frame,
           pc = "resolveHead" /\ r.stored =>
               r.frame.tick \in DOMAIN frames /\ frames[r.frame.tick] = DocOf(r.frame)
    PROVE  RequestStep(s)
<1>1. pc \in Points
  BY DEF FramePoints, Points
<1>2. PICK c \in Request : c = [r EXCEPT !.pc = pc]
  BY <1>1 DEF Request
<1>3. /\ c.pc = pc /\ c.frame = req[s].frame /\ c.reported = req[s].reported
      /\ c.left = req[s].left /\ c.result = req[s].result /\ c.stored = r.stored
  BY <1>2 DEF Request
<1>4. ReportedBefore(c, c.frame.tick)
  BY <1>3 DEF RequestInv, ReportedBefore
<1>5. /\ req[s].left \in Nat \ {0} /\ req[s].result = "none"
      /\ FrameComputed(req[s].frame) /\ Durable(req[s].reported)
  BY DEF RequestInv, FramePoints
<1>6. RequestInv(c)
  BY <1>3, <1>4, <1>5 DEF RequestInv, FramePoints
<1>. QED  BY <1>1, <1>2, <1>6, GotoStep DEF FramePoints

\* Asking resolve_commit_status.
LEMMA ResolveStep ==
    ASSUME TypeOK, DocsGrow, NEW s \in Steppers, RequestInv(req[s]),
           req[s].pc \in FramePoints,
           NEW why \in {"stale", "unknown", "transient"}, Resolve(s, why)
    PROVE  RequestStep(s)
<1>. DEFINE r == [req[s] EXCEPT !.why = why]
<1>1. /\ r \in Request
      /\ r.left = req[s].left /\ r.result = req[s].result
      /\ r.reported = req[s].reported /\ r.frame = req[s].frame
  BY DEF TypeOK, Request
<1>2. Goto(s, r, "resolveFrame")
  BY DEF Resolve
<1>. QED  BY <1>1, <1>2, FramePointStep DEF FramePoints

\* An answer without a new report.
LEMMA RefuseStep ==
    ASSUME TypeOK, DocsGrow, NEW s \in Steppers, RequestInv(req[s]), ~At(s, "idle"),
           NEW result \in Results, Reply(s, req[s], result)
    PROVE  RequestStep(s)
BY ReplyStep DEF RequestInv, TypeOK, At

\* The next attempt, or none.
LEMMA RetryStep ==
    ASSUME TypeOK, DocsGrow, NEW s \in Steppers, RequestInv(req[s]),
           req[s].pc \in FramePoints, RetryOrGiveUp(s)
    PROVE  RequestStep(s)
<1>1. req[s] \in Request
  BY DEF TypeOK
<1>2. CASE Goto(s, req[s], "check")
  BY <1>1, <1>2, FramePointStep DEF FramePoints
<1>3. CASE Reply(s, req[s], "DB_TX_FAILURE")
  BY <1>3, RefuseStep DEF Results, At, FramePoints
<1>. QED  BY <1>2, <1>3 DEF RetryOrGiveUp

\* The documents stay while the commit is checked, retried or resolved.
LEMMA ResolutionStep ==
    ASSUME TypeOK, NEW s \in Steppers, RequestInv(req[s]),
           \/ CheckHead(s) \/ LoseRace(s) \/ Abort(s) \/ CheckTransient(s)
           \/ ResolveFrame(s) \/ ResolveHead(s)
    PROVE  RequestStep(s)
<1>1. DocsGrow
  BY SameDocsGrow DEF CheckHead, LoseRace, Abort, CheckTransient, ResolveFrame, ResolveHead
<1>2. /\ req[s] \in Request /\ req[s].pc \in FramePoints
      /\ req[s].frame \in Frame
  BY DEF TypeOK, Request, FramePoints, At, CheckHead, LoseRace, Abort, CheckTransient,
         ResolveFrame, ResolveHead
<1>3. CASE CheckHead(s)
  <2>. DEFINE r == [req[s] EXCEPT !.attempt = @ + 1]
  <2>1. /\ r \in Request
        /\ r.left = req[s].left /\ r.result = req[s].result
        /\ r.reported = req[s].reported /\ r.frame = req[s].frame
    BY <1>2 DEF Request
  <2>2. Goto(s, r, "transaction") \/ Resolve(s, "stale")
    BY <1>3 DEF CheckHead
  <2>. QED  BY <1>1, <1>2, <2>1, <2>2, FramePointStep, ResolveStep DEF FramePoints
<1>4. CASE LoseRace(s)
  BY <1>1, <1>4, RefuseStep DEF LoseRace, Results, At
<1>5. CASE Abort(s)
  BY <1>1, <1>2, <1>5, FramePointStep, ResolveStep, RefuseStep DEF Abort, FramePoints, Results, At
<1>6. CASE CheckTransient(s)
  BY <1>1, <1>2, <1>6, RetryStep, ResolveStep DEF CheckTransient
<1>7. ASSUME Unresolved(s)
      PROVE  RequestStep(s)
  BY <1>1, <1>2, <1>7, RefuseStep DEF Unresolved, Results, At, FramePoints
<1>8. CASE ResolveFrame(s)
  <2>. DEFINE f == req[s].frame
              r(b) == [req[s] EXCEPT !.stored = b]
  <2>1. ASSUME NEW b \in BOOLEAN
        PROVE  /\ r(b) \in Request /\ r(b).stored = b
               /\ r(b).left = req[s].left /\ r(b).result = req[s].result
               /\ r(b).reported = req[s].reported /\ r(b).frame = req[s].frame
    BY <1>2 DEF Request
  <2>2. \/ Goto(s, r(FALSE), "resolveHead")
        \/ Goto(s, r(TRUE), "resolveHead") /\ f.tick \in DOMAIN frames /\ frames[f.tick] = DocOf(f)
        \/ Unresolved(s)
    BY <1>8 DEF ResolveFrame
  <2>3. CASE Goto(s, r(FALSE), "resolveHead")
    BY <1>1, <1>2, <2>1, <2>3, FramePointStep DEF FramePoints
  <2>4. CASE Goto(s, r(TRUE), "resolveHead") /\ f.tick \in DOMAIN frames /\ frames[f.tick] = DocOf(f)
    BY <1>1, <1>2, <2>1, <2>4, FramePointStep DEF FramePoints
  <2>. QED  BY <1>7, <2>2, <2>3, <2>4
<1>9. CASE ResolveHead(s)
  <2>1. \/ req[s].stored /\ Succeed(s)
        \/ RetryOrGiveUp(s)
        \/ Unresolved(s)
    BY <1>9 DEF ResolveHead
  <2>2. CASE req[s].stored /\ Succeed(s)
    <3>. DEFINE f == req[s].frame
    <3>1. f.tick \in DOMAIN frames /\ frames[f.tick] = DocOf(f) /\ f.tick \in 1..MaxTick
      BY <1>9, <2>2 DEF RequestInv, ResolveHead, At, FramePoints, FrameComputed
    <3>2. f.tick \in 1..head'.tick /\ frames'[f.tick] = frames[f.tick]
      BY <1>1, <3>1, StoreAssumption DEF DocsGrow, TypeOK, RunHead, BoundsAssumption
    <3>. QED  BY <1>1, <1>2, <2>2, <3>1, <3>2, SucceedStep
  <2>. QED  BY <1>1, <1>2, <1>7, <2>1, <2>2, RetryStep
<1>. QED  BY <1>3, <1>4, <1>5, <1>6, <1>8, <1>9

\* A request that dies.
LEMMA CrashStep ==
    ASSUME TypeOK, NEW s \in Steppers, Crash(s)
    PROVE  RequestStep(s)
<1>. DEFINE r == [NoRequest EXCEPT !.result = "CRASHED"]
<1>1. r \in Request /\ r.pc = "idle" /\ r.reported = <<>>
  BY GenesisType DEF Request, Results, NoRequest
<1>2. RequestInv(r)' /\ Durable(r.reported)'
  BY <1>1 DEF RequestInv, FramePoints, Durable
<1>3. req' = [req EXCEPT ![s] = r]
  BY DEF Crash
<1>. QED  BY <1>1, <1>2, <1>3 DEF RequestStep

\* A durable commit: the documents move on, the request may or may not know.
LEMMA CommitStep ==
    ASSUME TypeOK, NEW s \in Steppers, RequestInv(req[s]),
           Commit(s) \/ CommitUnacknowledged(s)
    PROVE  RequestStep(s) /\ WriteStep
<1>. DEFINE f == req[s].frame
<1>1. /\ req[s] \in Request /\ req[s].pc = "transaction" /\ req[s].pc \in FramePoints
      /\ f \in Frame /\ WriteFrame(f) /\ world' = world
  BY DEF TypeOK, Request, FramePoints, At, Commit, CommitUnacknowledged
<1>2. FrameComputed(f)
  BY <1>1 DEF RequestInv
<1>3. WriteStep
  BY <1>1, <1>2 DEF WriteStep
<1>4. DocsGrow /\ head'.tick = f.tick /\ frames'[f.tick] = DocOf(f)
  BY <1>1, WriteFrameGrows DEF TypeOK, DocsType
<1>5. f.tick \in 1..head'.tick
  BY <1>2, <1>4, StoreAssumption DEF FrameComputed, BoundsAssumption
<1>6. CASE Succeed(s)
  BY <1>1, <1>3, <1>4, <1>5, <1>6, SucceedStep
<1>7. CASE Resolve(s, "unknown")
  BY <1>1, <1>3, <1>4, <1>7, ResolveStep
<1>8. CASE Goto(s, req[s], "transient")
  BY <1>1, <1>3, <1>4, <1>8, FramePointStep DEF FramePoints
<1>. QED  BY <1>6, <1>7, <1>8 DEF Commit, CommitUnacknowledged

----------------------------------------------------------------------------
\* The inductive invariant holds at first and every step preserves it.

\* The genesis documents satisfy the invariant.
LEMMA InitIndInv == Init => IndInv
<1>. SUFFICES ASSUME Init
              PROVE  IndInv
  OBVIOUS
<1>1. frames = [t \in 0..0 |-> DocOf(GenesisFrame)]
  BY DEF Init
<1>2. DocOf(GenesisFrame) \in FrameDoc
  BY GenesisType DEF DocOf, FrameDoc, Frame
<1>3. head.tick = 0 /\ head.order = 1 /\ head.hash = GenesisHash
  BY DEF Init, GenesisHead
<1>4. TypeOK
  BY <1>1, <1>2, <1>3, GenesisType DEF Init, TypeOK
<1>5. /\ frames[0] = DocOf(GenesisFrame) /\ frames[0].end = GenesisHash
      /\ frames[0].identity = GenesisFrame
  BY <1>1 DEF DocOf, GenesisFrame
<1>6. /\ GenesisFrame.tick = 0 /\ GenesisFrame.end = GenesisHash
      /\ GenesisFrame.next = 1 /\ GenesisFrame.evts = {GenesisEvent}
  BY DEF GenesisFrame
<1>7. GenesisEvent.tick = 0 /\ GenesisEvent.order = 0
  BY DEF GenesisEvent
<1>8. FrameChain
  BY <1>3, <1>5, <1>6 DEF FrameChain
<1>9. FramesTicked
  BY <1>3, <1>5, <1>6 DEF FramesTicked
<1>10. FramesAtomic
  BY <1>3, <1>5, <1>6, <1>7 DEF FramesAtomic, Init
<1>11. OrderIndexes
  BY <1>3, <1>7 DEF OrderIndexes, Init
<1>12. NoRequest.pc = "idle" /\ NoRequest.reported = <<>>
  BY DEF NoRequest
<1>13. RequestInv(NoRequest) /\ Durable(NoRequest.reported)
  BY <1>12 DEF RequestInv, FramePoints, Durable
<1>14. ReportedFramesDurable /\ RequestsInv
  BY <1>4, <1>13 DEF ReportedFramesDurable, RequestsInv, Init
<1>. QED  BY <1>8, <1>9, <1>10, <1>11, <1>14 DEF IndInv, DocsInv

\* A step that leaves the documents alone or grows them, and moves one request.
LEMMA OneRequestMoves ==
    ASSUME RequestsInv, DocsGrow, DocsType', NEW s \in Steppers, RequestStep(s)
    PROVE  RequestsInv' /\ (ReportedFramesDurable => ReportedFramesDurable')
<1>1. PICK r \in Request : /\ req' = [req EXCEPT ![s] = r]
                           /\ RequestInv(r)' /\ Durable(r.reported)'
  BY DEF RequestStep
<1>2. req \in [Steppers -> Request] /\ TypeOK
  BY DEF RequestsInv, TypeOK
<1>3. req' \in [Steppers -> Request]
  BY <1>1, <1>2
<1>4. ASSUME NEW u \in Steppers
      PROVE  /\ RequestInv(req[u])'
             /\ Durable(req[u].reported) => Durable(req[u].reported)'
  <2>1. CASE u = s
    <3>1. req'[u] = r
      BY <1>1, <1>2, <2>1
    <3>. QED  BY <1>1, <3>1 DEF RequestInv, Durable
  <2>2. CASE u # s
    <3>1. PICK q \in Request : q = req[u]
      BY <1>2
    <3>2. req'[u] = q
      BY <1>1, <1>2, <2>2, <3>1
    <3>3. RequestInv(q)
      BY <3>1 DEF RequestsInv
    <3>4. RequestInv(q)'
      BY <1>2, <3>3, GrowKeepsRequest
    <3>5. PICK rep : rep = q.reported
      OBVIOUS
    <3>6. Durable(rep) => Durable(rep)'
      BY <1>2, GrowKeepsDurable
    <3>. QED  BY <3>1, <3>2, <3>4, <3>5, <3>6 DEF RequestInv, Durable
  <2>. QED  BY <2>1, <2>2
<1>5. RequestsInv'
  BY <1>3, <1>4 DEF RequestsInv, TypeOK, DocsType
<1>6. ReportedFramesDurable => ReportedFramesDurable'
  BY <1>4 DEF ReportedFramesDurable
<1>. QED  BY <1>5, <1>6

\* What a step of a request does: it moves that request and leaves the documents
\* alone, or it commits.
LEMMA RequestMoves ==
    ASSUME RequestsInv, NEW s \in Steppers, BeginStep(s) \/ Continue(s) \/ Crash(s)
    PROVE  RequestStep(s) /\ (UNCHANGED <<world, docs>> \/ WriteStep)
<1>. USE DEF RequestsInv
<1>1. CASE BeginStep(s)
  BY <1>1, BeginStepRequest DEF BeginStep
<1>2. CASE \/ InspectHead(s) \/ InspectFrame(s) \/ InspectEvents(s)
           \/ InspectEntities(s) \/ LoadEntities(s)
  <2>1. UNCHANGED <<world, docs>>
    BY <1>2 DEF InspectHead, InspectFrame, InspectEvents, InspectEntities, LoadEntities
  <2>. QED  BY <1>2, <2>1, InspectStep
<1>3. CASE ReloadHead(s) \/ ComputeFrame(s) \/ ExceedCapacity(s)
  <2>1. UNCHANGED <<world, docs>>
    BY <1>3 DEF ReloadHead, ComputeFrame, ExceedCapacity
  <2>. QED  BY <1>3, <2>1, ComputeStep
<1>4. CASE \/ CheckHead(s) \/ LoseRace(s) \/ Abort(s) \/ CheckTransient(s)
           \/ ResolveFrame(s) \/ ResolveHead(s)
  <2>1. UNCHANGED <<world, docs>>
    BY <1>4 DEF CheckHead, LoseRace, Abort, CheckTransient, ResolveFrame, ResolveHead
  <2>. QED  BY <1>4, <2>1, ResolutionStep
<1>5. CASE Commit(s) \/ CommitUnacknowledged(s)
  BY <1>5, CommitStep
<1>6. CASE Crash(s)
  BY <1>6, CrashStep DEF Crash
<1>. QED  BY <1>1, <1>2, <1>3, <1>4, <1>5, <1>6 DEF Continue

\* The documents' types, and that they only grow, need nothing else.
LEMMA DocsMove ==
    ASSUME TypeOK, UNCHANGED <<world, docs>> \/ WriteStep
    PROVE  DocsGrow /\ DocsType'
<1>1. DocsType
  BY DEF TypeOK, DocsType
<1>2. CASE UNCHANGED <<world, docs>>
  BY <1>1, <1>2, SameDocsGrow DEF DocsType, docs
<1>3. CASE WriteStep
  BY <1>1, <1>3, WriteFrameGrows DEF WriteStep
<1>. QED  BY <1>2, <1>3

\* A status, a lease or a projection may change while everything else stays: none
\* of the invariants says anything of them.
SameHistory ==
    /\ head' \in RunHead /\ head'.tick = head.tick /\ head'.hash = head.hash
    /\ head'.order = head.order /\ entities' \in View
    /\ UNCHANGED <<world, frames, events>>

LEMMA SameHistoryKeeps ==
    ASSUME TypeOK, SameHistory
    PROVE  /\ RequestsInv /\ UNCHANGED req => RequestsInv'
           /\ ReportedFramesDurable /\ UNCHANGED req => ReportedFramesDurable'
           /\ DocsInv => DocsInv'
           /\ InSync => InSync'
<1>. USE DEF SameHistory
<1>1. RequestsInv /\ UNCHANGED req => RequestsInv'
  <2>. SUFFICES ASSUME RequestsInv, UNCHANGED req
                PROVE  RequestsInv'
    OBVIOUS
  <2>1. TypeOK'
    BY DEF TypeOK
  <2>2. DocsGrow
    BY DEF DocsGrow, TypeOK, RunHead
  <2>3. ASSUME NEW s \in Steppers
        PROVE  RequestInv(req[s])'
    <3>1. PICK r \in Request : r = req[s]
      BY DEF TypeOK
    <3>2. RequestInv(r)'
      BY <2>2, <3>1, GrowKeepsRequest DEF RequestsInv
    <3>3. req'[s] = r
      BY <3>1
    <3>. QED  BY <3>2, <3>3 DEF RequestInv
  <2>. QED  BY <2>1, <2>3 DEF RequestsInv
<1>2. ReportedFramesDurable /\ UNCHANGED req => ReportedFramesDurable'
  BY DEF ReportedFramesDurable, Durable
<1>3. DocsInv => DocsInv'
  BY DEF DocsInv, FrameChain, FramesTicked, FramesAtomic, OrderIndexes
<1>4. InSync => InSync'
  BY DEF InSync, OrderIndexes
<1>. QED  BY <1>1, <1>2, <1>3, <1>4

\* api_pause_run, and a step that changes nothing.
LEMMA PauseOrStutter ==
    ASSUME TypeOK, Pause \/ UNCHANGED vars
    PROVE  SameHistory /\ UNCHANGED req
<1>1. head \in RunHead
  BY DEF TypeOK
<1>2. CASE Pause
  BY <1>1, <1>2 DEF Pause, SameHistory, RunHead, Statuses, TypeOK
<1>3. CASE UNCHANGED vars
  BY <1>1, <1>3 DEF vars, docs, SameHistory, TypeOK
<1>. QED  BY <1>2, <1>3

\* What holds of the requests is kept on any documents.
LEMMA NextRequestsInv == RequestsInv /\ [Next]_vars => RequestsInv'
<1>. SUFFICES ASSUME RequestsInv, [Next]_vars
              PROVE  RequestsInv'
  OBVIOUS
<1>1. TypeOK
  BY DEF RequestsInv
<1>2. ASSUME NEW s \in Steppers, BeginStep(s) \/ Continue(s) \/ Crash(s)
      PROVE  RequestsInv'
  BY <1>1, <1>2, RequestMoves, DocsMove, OneRequestMoves
<1>3. CASE Pause \/ UNCHANGED vars
  BY <1>1, <1>3, PauseOrStutter, SameHistoryKeeps
<1>. QED  BY <1>2, <1>3 DEF Next

\* Documents in sync stay in sync.
LEMMA NextInSync == RequestsInv /\ InSync /\ [Next]_vars => InSync'
<1>. SUFFICES ASSUME RequestsInv, InSync, [Next]_vars
              PROVE  InSync'
  OBVIOUS
<1>1. TypeOK /\ DocsType
  BY DEF RequestsInv, TypeOK, DocsType
<1>2. ASSUME NEW s \in Steppers, BeginStep(s) \/ Continue(s) \/ Crash(s)
      PROVE  InSync'
  <2>1. CASE UNCHANGED <<world, docs>>
    BY <2>1 DEF docs, InSync, OrderIndexes
  <2>2. CASE WriteStep
    BY <1>1, <2>2, WriteFrameInSync DEF WriteStep
  <2>. QED  BY <1>2, <2>1, <2>2, RequestMoves
<1>3. CASE Pause \/ UNCHANGED vars
  BY <1>1, <1>3, PauseOrStutter, SameHistoryKeeps
<1>. QED  BY <1>2, <1>3 DEF Next

\* Every step preserves the invariant.
LEMMA NextIndInv == IndInv /\ [Next]_vars => IndInv'
<1>. SUFFICES ASSUME IndInv, [Next]_vars
              PROVE  IndInv'
  OBVIOUS
<1>1. RequestsInv /\ TypeOK /\ DocsType /\ DocsInv /\ ReportedFramesDurable
  BY DEF IndInv, RequestsInv, TypeOK, DocsType
<1>2. ASSUME NEW s \in Steppers, BeginStep(s) \/ Continue(s) \/ Crash(s)
      PROVE  IndInv'
  <2>1. RequestsInv' /\ ReportedFramesDurable'
    BY <1>1, <1>2, RequestMoves, DocsMove, OneRequestMoves
  <2>2. CASE UNCHANGED <<world, docs>>
    BY <1>1, <2>1, <2>2
       DEF IndInv, docs, DocsInv, FrameChain, FramesTicked, FramesAtomic, OrderIndexes
  <2>3. CASE WriteStep
    BY <1>1, <2>1, <2>3, WriteFrameDocs DEF IndInv, WriteStep
  <2>. QED  BY <1>1, <1>2, <2>2, <2>3, RequestMoves
<1>3. CASE Pause \/ UNCHANGED vars
  BY <1>1, <1>3, PauseOrStutter, SameHistoryKeeps DEF IndInv
<1>. QED  BY <1>2, <1>3 DEF Next

\* The inductive invariant holds throughout, whatever the step requests do.
THEOREM Invariance == Spec => []IndInv
BY InitIndInv, NextIndInv, PTL DEF Spec

----------------------------------------------------------------------------
\* What the inductive invariant says of the properties the runs check.

\* Documents and requests always have the shape the code gives them.
THEOREM TypeCorrect == Spec => []TypeOK
<1>1. IndInv => TypeOK
  BY DEF IndInv, RequestsInv
<1>. QED  BY <1>1, Invariance, PTL

\* commit_frame_atomically keeps one chain of frames: every frame starts from the
\* hash and the order index its predecessor ended in, and the head is at its end.
THEOREM ChainCorrect == Spec => []FrameChain
<1>1. IndInv => FrameChain
  BY DEF IndInv, RequestsInv, DocsInv
<1>. QED  BY <1>1, Invariance, PTL

\* _write_frame_body writes a frame's events all or not at all, and only once,
\* although a frame may be attempted again after an unknown commit.
THEOREM AtomicityCorrect == Spec => []FramesAtomic
<1>1. IndInv => FramesAtomic
  BY DEF IndInv, RequestsInv, DocsInv
<1>. QED  BY <1>1, Invariance, PTL

\* order_index numbers the accepted events without gap, duplicate or inversion.
THEOREM OrderCorrect == Spec => []OrderIndexes
<1>1. IndInv => OrderIndexes
  BY DEF IndInv, RequestsInv, DocsInv
<1>. QED  BY <1>1, Invariance, PTL

\* step_run reports a frame only if it is stored, whether commit_frame_atomically
\* said "committed", "committed_resolved" or "already_committed".
THEOREM ReportsCorrect == Spec => []ReportedFramesDurable
<1>1. IndInv => ReportedFramesDurable
  BY DEF IndInv
<1>. QED  BY <1>1, Invariance, PTL

\* The inserts of _write_frame_body never meet a duplicate key when the head is
\* where the frame expects it: the DuplicateKeyError branch is dead.
THEOREM DuplicateKeyUnreachable == Spec => []NoDuplicateKey
<1>1. IndInv => NoDuplicateKey
  <2>. SUFFICES ASSUME IndInv, NEW s \in Steppers, At(s, "transaction"),
                       HeadMatches(head, req[s].frame)
                PROVE  /\ req[s].frame.tick \notin DOMAIN frames
                       /\ \A ev \in events : ev.order < req[s].frame.order
    BY DEF NoDuplicateKey
  <2>. DEFINE f == req[s].frame
  <2>1. /\ f.tick = head.tick + 1 /\ f.order = head.order
        /\ head.tick \in Nat /\ head.order \in Nat /\ DOMAIN frames = 0..head.tick
    BY DEF HeadMatches, IndInv, RequestsInv, TypeOK, RunHead, Request, Frame
  <2>2. ASSUME NEW ev \in events
        PROVE  ev.order < head.order
    <3>1. ev.order \in {e.order : e \in events}
      OBVIOUS
    <3>2. ev.order \in 0..(head.order - 1)
      BY <3>1 DEF IndInv, RequestsInv, DocsInv, OrderIndexes
    <3>. QED  BY <2>1, <3>2
  <2>. QED  BY <2>1, <2>2
<1>. QED  BY <1>1, Invariance, PTL

----------------------------------------------------------------------------
\* Which steps move the documents.
LEMMA DocsSteps ==
    ASSUME [Next]_vars
    PROVE  \/ UNCHANGED docs
           \/ Pause
           \/ \E s \in Steppers : At(s, "transaction") /\ WriteFrame(req[s].frame)
<1>1. CASE UNCHANGED vars
  BY <1>1 DEF vars
<1>2. ASSUME NEW s \in Steppers, BeginStep(s) \/ Crash(s)
      PROVE  UNCHANGED docs
  BY <1>2 DEF BeginStep, Crash
<1>3. ASSUME NEW s \in Steppers, Continue(s)
      PROVE  UNCHANGED docs \/ (At(s, "transaction") /\ WriteFrame(req[s].frame))
  BY <1>3 DEF Continue, InspectHead, InspectFrame, InspectEvents, InspectEntities,
     LoadEntities, ReloadHead, ComputeFrame, ExceedCapacity, CheckHead, LoseRace,
     Commit, CommitUnacknowledged, Abort, CheckTransient, ResolveFrame, ResolveHead
<1>. QED  BY <1>1, <1>2, <1>3 DEF Next

\* No step of a request moves the head of the run back, skips a tick, reuses a
\* head_revision or rewrites a stored frame or event.
THEOREM HeadOnlyAdvances == Spec => HeadAdvances
<1>. DEFINE Advance ==
              /\ head'.tick # head.tick =>
                   /\ head'.tick = head.tick + 1
                   /\ head'.rev = head.rev + 1
                   /\ frames'[head'.tick].start = head.hash
              /\ head'.rev = head.rev => head' = [head EXCEPT !.status = head'.status]
              /\ head'.rev >= head.rev
              /\ \A t \in DOMAIN frames : t \in DOMAIN frames' /\ frames'[t] = frames[t]
              /\ events \subseteq events'
<1>1. IndInv /\ [Next]_vars => [Advance]_docs
  <2>. SUFFICES ASSUME IndInv, [Next]_vars, ~UNCHANGED docs
                PROVE  Advance
    OBVIOUS
  <2>1. /\ head \in RunHead /\ frames \in [0..head.tick -> FrameDoc]
        /\ head.tick \in Nat /\ head.rev \in Nat
    BY DEF IndInv, RequestsInv, TypeOK, RunHead
  <2>2. CASE Pause
    <3>1. /\ head' = [head EXCEPT !.status = "paused"]
          /\ frames' = frames /\ events' = events
      BY <2>2 DEF Pause
    <3>2. /\ head'.tick = head.tick /\ head'.rev = head.rev
          /\ head' = [head EXCEPT !.status = head'.status]
      BY <2>1, <3>1 DEF RunHead
    <3>. QED  BY <2>1, <3>1, <3>2
  <2>3. ASSUME NEW s \in Steppers, WriteFrame(req[s].frame), At(s, "transaction")
        PROVE  Advance
    <3>. DEFINE f == req[s].frame
    <3>1. f \in Frame /\ f.tick \in Nat
      BY DEF IndInv, RequestsInv, TypeOK, Request, Frame
    <3>2. f.tick = head.tick + 1 /\ f.start = head.hash
      BY <2>1, <2>3, <3>1 DEF WriteFrame, HeadMatches
    <3>3. head' = [head EXCEPT !.tick = f.tick, !.hash = f.end, !.order = f.next,
                               !.rev = @ + 1, !.status = "running"]
      BY <2>3 DEF WriteFrame
    <3>4. head'.tick = f.tick /\ head'.rev = head.rev + 1
      BY <2>1, <3>3 DEF RunHead
    <3>5. /\ frames'[f.tick] = DocOf(f)
          /\ \A t \in DOMAIN frames : t \in DOMAIN frames' /\ frames'[t] = frames[t]
      BY <2>1, <2>3, <3>1, <3>2 DEF WriteFrame
    <3>6. events \subseteq events'
      BY <2>3 DEF WriteFrame
    <3>. QED  BY <2>1, <3>2, <3>4, <3>5, <3>6 DEF DocOf
  <2>. QED  BY <2>2, <2>3, DocsSteps
<1>. QED  BY <1>1, Invariance, PTL DEF Spec, HeadAdvances

\* "commit failed and frame confirmed absent" is only answered when it is.
THEOREM AbsenceConfirmed == Spec => ConfirmedAbsent
<1>. DEFINE Told(s) == At(s, "resolveHead") /\ req'[s].result = "DB_TX_FAILURE"
            Missing(s) == \A t \in DOMAIN frames : frames[t].identity # req[s].frame
<1>1. ASSUME IndInv, [Next]_vars, NEW s \in Steppers, Told(s)
      PROVE  Missing(s)
  <2>1. /\ req[s] \in Request /\ req \in [Steppers -> Request]
        /\ req[s].pc = "resolveHead" /\ req[s].result = "none"
    BY <1>1 DEF IndInv, RequestsInv, TypeOK, RequestInv, At
  <2>2. req'[s].result = "DB_TX_FAILURE" /\ req'[s] # req[s]
    BY <1>1, <2>1
  <2>3. ResolveHead(s)
    <3>1. ASSUME NEW u \in Steppers, BeginStep(u) \/ Continue(u) \/ Crash(u)
          PROVE  u = s
      <4>1. \E r : req' = [req EXCEPT ![u] = r]
        BY <3>1 DEF BeginStep, Continue, Crash, InspectHead, InspectFrame, InspectEvents,
           InspectEntities, LoadEntities, ReloadHead, ComputeFrame, ExceedCapacity,
           CheckHead, LoseRace, Commit, CommitUnacknowledged, Abort, CheckTransient,
           ResolveFrame, ResolveHead, Goto, Reply, Resolve, Succeed, RetryOrGiveUp, Unresolved
      <4>. QED  BY <2>1, <2>2, <4>1
    <3>2. ~UNCHANGED vars /\ ~Pause
      BY <2>2 DEF vars, Pause
    <3>3. ~BeginStep(s)
      BY <2>1 DEF BeginStep, At
    <3>4. ~Crash(s)
      <4>1. SUFFICES ASSUME Crash(s)
                     PROVE  FALSE
        OBVIOUS
      <4>2. req'[s] = [NoRequest EXCEPT !.result = "CRASHED"]
        BY <2>1, <4>1 DEF Crash
      <4>. QED  BY <2>2, <4>2, GenesisType DEF Request
    <3>5. Continue(s)
      BY <1>1, <3>1, <3>2, <3>3, <3>4 DEF Next
    <3>. QED  BY <2>1, <3>5 DEF Continue, At, InspectHead, InspectFrame, InspectEvents,
           InspectEntities, LoadEntities, ReloadHead, ComputeFrame, ExceedCapacity,
           CheckHead, LoseRace, Commit, CommitUnacknowledged, Abort, CheckTransient,
           ResolveFrame
  <2>4. ASSUME NEW r \in Request, NEW result \in Results, Reply(s, r, result)
        PROVE  result = "DB_TX_FAILURE"
    <3>1. req'[s] = [NoRequest EXCEPT !.frame = r.frame, !.reported = r.reported,
                                      !.result = result]
      BY <2>1, <2>4 DEF Reply
    <3>. QED  BY <2>2, <3>1, GenesisType DEF Request
  <2>5. ASSUME NEW r \in Request, NEW pc \in Points, Goto(s, r, pc)
        PROVE  r.result = "DB_TX_FAILURE"
    <3>1. req'[s] = [r EXCEPT !.pc = pc]
      BY <2>1, <2>5 DEF Goto
    <3>. QED  BY <2>2, <3>1 DEF Request
  <2>6. ~Succeed(s)
    <3>. SUFFICES ASSUME Succeed(s)
                  PROVE  FALSE
      OBVIOUS
    <3>1. PICK r : r = [req[s] EXCEPT !.reported = Append(@, ReportOf(req[s].frame)),
                                      !.left = @ - 1]
      OBVIOUS
    <3>2. r \in Request /\ r.result = "none"
      <4>1. ReportOf(req[s].frame) \in [tick : Nat, end : Hash]
        BY <2>1 DEF ReportOf, Request, Frame
      <4>2. Append(req[s].reported, ReportOf(req[s].frame)) \in Seq([tick : Nat, end : Hash])
        BY <2>1, <4>1, AppendProperties DEF Request
      <4>3. req[s].left - 1 \in Nat
        BY <1>1, <2>1 DEF IndInv, RequestsInv, RequestInv
      <4>. QED  BY <2>1, <3>1, <4>2, <4>3 DEF Request
    <3>3. Reply(s, r, "OK") \/ Goto(s, r, "reload")
      BY <3>1 DEF Succeed
    <3>. QED  BY <2>4, <2>5, <3>2, <3>3 DEF Results, Points
  <2>7. ~Unresolved(s)
    BY <2>1, <2>4 DEF Unresolved, Results
  <2>8. Absent(head, req[s].frame)
    BY <2>3, <2>6, <2>7 DEF ResolveHead
  <2>9. req[s].frame.tick = head.tick + 1
    BY <1>1, <2>1, <2>8 DEF Absent, IndInv, RequestsInv, TypeOK, RunHead, Request, Frame
  <2>10. \A t \in DOMAIN frames : t \in 0..head.tick /\ frames[t].identity.tick = t
    BY <1>1 DEF IndInv, RequestsInv, TypeOK, DocsInv, FramesTicked
  <2>. QED  BY <1>1, <2>9, <2>10 DEF IndInv, RequestsInv, TypeOK, RunHead
<1>2. IndInv /\ [Next]_vars => [\A s \in Steppers : Told(s) => Missing(s)]_vars
  BY <1>1
<1>. QED  BY <1>2, Invariance, PTL DEF Spec, ConfirmedAbsent

----------------------------------------------------------------------------
\* The refinement: every step of the store is a step of the log or a stutter.

\* Moving on changes nothing of what was reported.
LEMMA GotoReport ==
    ASSUME TypeOK, NEW s \in Steppers, NEW r \in Request, NEW pc \in Points, Goto(s, r, pc)
    PROVE  req' = [req EXCEPT ![s] = req'[s]] /\ req'[s].reported = r.reported
<1>1. req'[s] = [r EXCEPT !.pc = pc] /\ req' = [req EXCEPT ![s] = req'[s]]
  BY DEF Goto, TypeOK
<1>. QED  BY <1>1 DEF Request

\* Nor does an answer.
LEMMA ReplyReport ==
    ASSUME TypeOK, NEW s \in Steppers, NEW r \in Request, NEW result \in Results,
           Reply(s, r, result)
    PROVE  req' = [req EXCEPT ![s] = req'[s]] /\ req'[s].reported = r.reported
<1>1. /\ req'[s] = [NoRequest EXCEPT !.frame = r.frame, !.reported = r.reported,
                                     !.result = result]
      /\ req' = [req EXCEPT ![s] = req'[s]]
  BY DEF Reply, TypeOK
<1>. QED  BY <1>1, GenesisType DEF Request

\* A frame that is durable is reported.
LEMMA SucceedReport ==
    ASSUME TypeOK, NEW s \in Steppers, RequestInv(req[s]), req[s].pc # "idle", Succeed(s)
    PROVE  /\ req' = [req EXCEPT ![s] = req'[s]]
           /\ req'[s].reported = Append(req[s].reported, ReportOf(req[s].frame))
<1>1. PICK r : r = [req[s] EXCEPT !.reported = Append(@, ReportOf(req[s].frame)),
                                  !.left = @ - 1]
  OBVIOUS
<1>2. r \in Request /\ r.reported = Append(req[s].reported, ReportOf(req[s].frame))
  <2>1. ReportOf(req[s].frame) \in [tick : Nat, end : Hash]
    BY DEF TypeOK, ReportOf, Request, Frame
  <2>2. Append(req[s].reported, ReportOf(req[s].frame)) \in Seq([tick : Nat, end : Hash])
    BY <2>1, AppendProperties DEF TypeOK, Request
  <2>3. req[s].left - 1 \in Nat
    BY DEF RequestInv
  <2>. QED  BY <1>1, <2>2, <2>3 DEF TypeOK, Request
<1>3. Reply(s, r, "OK") \/ Goto(s, r, "reload")
  BY <1>1 DEF Succeed
<1>. QED  BY <1>2, <1>3, GotoReport, ReplyReport DEF Results, Points

\* A request that reports nothing new is a stutter of the log, or a Forget.
LEMMA ForgetOrStutter ==
    ASSUME TypeOK, NEW s \in Steppers, req' = [req EXCEPT ![s] = req'[s]],
           req'[s].reported \in {<<>>, req[s].reported}, UNCHANGED LogChain
    PROVE  [Log!LogNext]_(Log!logVars)
<1>1. LogTold' = [LogTold EXCEPT ![s] = req'[s].reported]
  BY DEF LogTold, TypeOK
<1>2. CASE req'[s].reported = <<>>
  <2>1. Log!Forget(s)
    BY <1>1, <1>2 DEF Log!Forget
  <2>. QED  BY <2>1 DEF Log!LogNext
<1>3. CASE req'[s].reported = req[s].reported
  <2>1. LogTold' = LogTold
    BY <1>1, <1>3 DEF LogTold
  <2>. QED  BY <2>1 DEF Log!logVars
<1>. QED  BY <1>2, <1>3

\* The chain as a sequence.
ChainIsSeq ==
    /\ LogChain \in Seq(Log!Frame)
    /\ Len(LogChain) = head.tick + 1
    /\ head.tick \in Nat
    /\ \A t \in 0..head.tick :
         LogChain[t + 1] = [start |-> frames[t].start, end |-> frames[t].end]

\* The frames, in the order of their ticks, form the log's sequence.
LEMMA LogChainIsSeq == DocsType => ChainIsSeq
<1>. SUFFICES ASSUME DocsType
              PROVE  ChainIsSeq
  OBVIOUS
<1>1. head.tick \in Nat /\ frames \in [0..head.tick -> FrameDoc]
  BY DEF DocsType, RunHead
<1>2. ASSUME NEW i \in 1..(head.tick + 1)
      PROVE  [start |-> frames[i - 1].start, end |-> frames[i - 1].end] \in Log!Frame
  <2>1. frames[i - 1] \in FrameDoc
    BY <1>1
  <2>. QED  BY <2>1 DEF FrameDoc, Log!Frame
<1>3. LogChain \in [1..(head.tick + 1) -> Log!Frame]
  BY <1>2 DEF LogChain
<1>4. LogChain \in Seq(Log!Frame) /\ Len(LogChain) = head.tick + 1
  BY <1>1, <1>3, SeqDef, LenProperties
<1>. QED  BY <1>1, <1>4 DEF LogChain, ChainIsSeq

\* Reporting a frame that was found stored is the log's Tell.
LEMMA TellStep ==
    ASSUME TypeOK, NEW s \in Steppers, RequestInv(req[s]), req[s].pc \in FramePoints,
           NEW f \in Frame, f = req[s].frame,
           f.tick \in DOMAIN frames, frames[f.tick] = DocOf(f),
           Succeed(s), UNCHANGED LogChain
    PROVE  Log!LogNext
<1>1. /\ LogChain \in Seq(Log!Frame) /\ Len(LogChain) = head.tick + 1
      /\ head.tick \in Nat
      /\ \A t \in 0..head.tick :
           LogChain[t + 1] = [start |-> frames[t].start, end |-> frames[t].end]
  BY LogChainIsSeq DEF TypeOK, DocsType, ChainIsSeq
<1>2. f.tick \in 1..head.tick
  BY <1>1, StoreAssumption DEF TypeOK, RequestInv, FrameComputed, BoundsAssumption
<1>3. req' = [req EXCEPT ![s] = req'[s]] /\ req'[s].reported = Append(req[s].reported, ReportOf(f))
  BY SucceedReport DEF FramePoints
<1>4. LogTold[s] = req[s].reported /\ LogTold' = [LogTold EXCEPT ![s] = Append(@, ReportOf(f))]
  BY <1>3 DEF LogTold, TypeOK
<1>5. ReportOf(f) = Log!ReportOf(f.tick)
  <2>1. LogChain[f.tick + 1] = [start |-> frames[f.tick].start, end |-> frames[f.tick].end]
    BY <1>1, <1>2
  <2>. QED  BY <2>1 DEF ReportOf, Log!ReportOf, DocOf
<1>6. Log!LaterThanTold(s, f.tick)
  BY <1>4 DEF Log!LaterThanTold, RequestInv, ReportedBefore
<1>7. Log!Tell(s, f.tick)
  BY <1>1, <1>2, <1>4, <1>5, <1>6 DEF Log!Tell
<1>8. f.tick \in 1..Len(LogChain)
  BY <1>1, <1>2
<1>. QED  BY <1>7, <1>8 DEF Log!LogNext

\* Writing a frame appends it to the log.
LEMMA AppendedStep ==
    ASSUME DocsType, DocsType', DocsInv, DocsGrow, NEW f \in Frame,
           HeadMatches(head, f), head'.tick = f.tick, frames'[f.tick] = DocOf(f)
    PROVE  /\ Log!Appended
           /\ Len(LogChain) = f.tick
           /\ LogChain'[f.tick + 1].end = f.end
<1>1. /\ LogChain \in Seq(Log!Frame) /\ Len(LogChain) = head.tick + 1
      /\ head.tick \in Nat
      /\ \A t \in 0..head.tick :
           LogChain[t + 1] = [start |-> frames[t].start, end |-> frames[t].end]
  BY LogChainIsSeq DEF ChainIsSeq
<1>2. /\ LogChain' \in Seq(Log!Frame) /\ Len(LogChain') = head'.tick + 1
      /\ \A t \in 0..head'.tick :
           LogChain'[t + 1] = [start |-> frames'[t].start, end |-> frames'[t].end]
  <2>1. ChainIsSeq'
    BY LogChainIsSeq, PTL
  <2>. QED  BY <2>1 DEF ChainIsSeq
<1>3. f.tick = head.tick + 1 /\ f.start = head.hash
  BY <1>1 DEF HeadMatches, Frame
<1>4. LogChain'[f.tick + 1] = [start |-> f.start, end |-> f.end]
  BY <1>1, <1>2, <1>3 DEF DocOf
<1>5. LogChain[head.tick + 1].end = head.hash
  <2>1. LogChain[head.tick + 1] = [start |-> frames[head.tick].start,
                                   end |-> frames[head.tick].end]
    BY <1>1
  <2>. QED  BY <2>1 DEF DocsInv, FrameChain
<1>6. LogChain'[f.tick + 1] \in Log!Frame
  BY <1>1, <1>2, <1>3, ElementOfSeq
<1>7. LogChain' = Append(LogChain, LogChain'[f.tick + 1])
  <2>. DEFINE longer == Append(LogChain, LogChain'[f.tick + 1])
  <2>1. /\ longer \in Seq(Log!Frame) /\ Len(longer) = Len(LogChain) + 1
        /\ \A i \in 1..Len(LogChain) : longer[i] = LogChain[i]
        /\ longer[Len(LogChain) + 1] = LogChain'[f.tick + 1]
    BY <1>1, <1>6, AppendProperties
  <2>2. ASSUME NEW i \in 1..Len(LogChain')
        PROVE  LogChain'[i] = longer[i]
    <3>1. CASE i = f.tick + 1
      BY <1>1, <1>3, <2>1, <3>1
    <3>2. CASE i # f.tick + 1
      <4>1. i - 1 \in 0..head.tick /\ i \in 1..Len(LogChain) /\ i - 1 \in 0..head'.tick
        BY <1>1, <1>2, <1>3, <3>2
      <4>2. frames'[i - 1] = frames[i - 1]
        BY <4>1 DEF DocsGrow
      <4>3. LogChain'[(i - 1) + 1] = LogChain[(i - 1) + 1]
        BY <1>1, <1>2, <4>1, <4>2
      <4>4. (i - 1) + 1 = i
        BY <4>1
      <4>. QED  BY <2>1, <4>1, <4>3, <4>4
    <3>. QED  BY <3>1, <3>2
  <2>3. Len(LogChain') = Len(longer)
    BY <1>1, <1>2, <1>3, <2>1
  <2>. QED  BY <1>2, <2>1, <2>2, <2>3, SeqEqual
<1>. QED  BY <1>1, <1>2, <1>3, <1>4, <1>5, <1>6, <1>7 DEF Log!Appended

\* A durable commit appends to the log; if it is acknowledged, it also tells.
LEMMA CommitRefines ==
    ASSUME IndInv, NEW s \in Steppers, Commit(s) \/ CommitUnacknowledged(s)
    PROVE  Log!LogNext
<1>. DEFINE n == Len(LogChain)
<1>1. PICK f \in Frame : f = req[s].frame
  BY DEF IndInv, RequestsInv, TypeOK, Request
<1>2. /\ req[s] \in Request /\ req[s].pc = "transaction"
      /\ WriteFrame(f) /\ world' = world
  BY <1>1 DEF IndInv, RequestsInv, TypeOK, At, Commit, CommitUnacknowledged
<1>3. FrameComputed(f) /\ ReportedBefore(req[s], f.tick)
  BY <1>1, <1>2 DEF IndInv, RequestsInv, RequestInv, FramePoints
<1>4. DocsType /\ DocsInv
  BY DEF IndInv, RequestsInv, TypeOK, DocsType
<1>5. /\ DocsType' /\ DocsGrow
      /\ head'.tick = f.tick /\ frames'[f.tick] = DocOf(f)
  BY <1>2, <1>4, WriteFrameGrows
<1>6. HeadMatches(head, f)
  BY <1>2 DEF WriteFrame
<1>7. Log!Appended /\ n = f.tick /\ LogChain'[f.tick + 1].end = f.end
  BY <1>4, <1>5, <1>6, AppendedStep
<1>8. CASE Succeed(s)
  <2>1. /\ req' = [req EXCEPT ![s] = req'[s]]
        /\ req'[s].reported = Append(req[s].reported, ReportOf(f))
    BY <1>1, <1>2, <1>8, SucceedReport DEF IndInv, RequestsInv
  <2>2. LogTold[s] = req[s].reported /\ LogTold' = [LogTold EXCEPT ![s] = Append(@, ReportOf(f))]
    BY <2>1 DEF LogTold, IndInv, RequestsInv, TypeOK
  <2>3. ReportOf(f) = [tick |-> n, end |-> LogChain'[n + 1].end]
    BY <1>7 DEF ReportOf
  <2>4. Log!LaterThanTold(s, n)
    BY <1>3, <1>7, <2>2 DEF Log!LaterThanTold, ReportedBefore
  <2>5. Log!ExtendAndTell(s)
    BY <1>7, <2>2, <2>3, <2>4 DEF Log!ExtendAndTell
  <2>. QED  BY <2>5 DEF Log!LogNext
<1>9. ASSUME NEW r \in Request, NEW pc \in Points, Goto(s, r, pc), r.reported = req[s].reported
      PROVE  Log!LogNext
  <2>1. req' = [req EXCEPT ![s] = req'[s]] /\ req'[s].reported = req[s].reported
    BY <1>9, GotoReport DEF IndInv, RequestsInv
  <2>2. LogTold' = LogTold
    BY <2>1 DEF LogTold, IndInv, RequestsInv, TypeOK
  <2>. QED  BY <1>7, <2>2 DEF Log!LogNext, Log!Extend
<1>10. CASE Resolve(s, "unknown")
  <2>1. [req[s] EXCEPT !.why = "unknown"] \in Request
    BY <1>2 DEF Request
  <2>2. [req[s] EXCEPT !.why = "unknown"].reported = req[s].reported
    BY <1>2 DEF Request
  <2>. QED  BY <1>9, <1>10, <2>1, <2>2 DEF Resolve, Points
<1>11. CASE Goto(s, req[s], "transient")
  BY <1>2, <1>9, <1>11 DEF Points
<1>. QED  BY <1>8, <1>10, <1>11 DEF Commit, CommitUnacknowledged

\* Every other step of a request leaves the log, tells a client of a frame that
\* was found committed, or forgets what the client was told.
LEMMA QuietRefines ==
    ASSUME IndInv, NEW s \in Steppers, UNCHANGED <<world, docs>>,
           BeginStep(s) \/ Continue(s) \/ Crash(s)
    PROVE  [Log!LogNext]_(Log!logVars)
<1>1. /\ TypeOK /\ req[s] \in Request /\ RequestInv(req[s])
      /\ UNCHANGED LogChain
  BY DEF IndInv, RequestsInv, TypeOK, LogChain, docs
<1>2. ASSUME NEW r \in Request, NEW pc \in Points, Goto(s, r, pc),
             r.reported \in {<<>>, req[s].reported}
      PROVE  [Log!LogNext]_(Log!logVars)
  BY <1>1, <1>2, GotoReport, ForgetOrStutter
<1>3. ASSUME NEW r \in Request, NEW result \in Results, Reply(s, r, result),
             r.reported \in {<<>>, req[s].reported}
      PROVE  [Log!LogNext]_(Log!logVars)
  BY <1>1, <1>3, ReplyReport, ForgetOrStutter
<1>4. ASSUME RetryOrGiveUp(s) \/ Unresolved(s)
      PROVE  [Log!LogNext]_(Log!logVars)
  BY <1>1, <1>2, <1>3, <1>4 DEF RetryOrGiveUp, Unresolved, Points, Results
<1>5. ASSUME NEW why \in {"stale", "unknown", "transient"}, Resolve(s, why)
      PROVE  [Log!LogNext]_(Log!logVars)
  <2>. DEFINE r == [req[s] EXCEPT !.why = why]
  <2>1. r \in Request /\ r.reported = req[s].reported
    BY <1>1 DEF Request
  <2>. QED  BY <1>2, <1>5, <2>1 DEF Resolve, Points
<1>6. CASE BeginStep(s)
  <2>1. PICK n \in 1..MaxRequest :
          LET r == [NoRequest EXCEPT !.left = n, !.run = head]
          IN  \/ Reply(s, r, BlockedAs(head))
              \/ Goto(s, r, "inspectHead")
    BY <1>6 DEF BeginStep
  <2>. DEFINE r == [NoRequest EXCEPT !.left = n, !.run = head]
  <2>2. r \in Request /\ r.reported = <<>>
    <3>1. n \in Nat
      BY StoreAssumption DEF BoundsAssumption
    <3>. QED  BY <1>1, <3>1, GenesisType DEF TypeOK, Request, NoRequest
  <2>. QED  BY <1>2, <1>3, <2>1, <2>2 DEF BlockedAs, Results, Points
<1>7. CASE Crash(s)
  <2>1. req' = [req EXCEPT ![s] = [NoRequest EXCEPT !.result = "CRASHED"]]
    BY <1>7 DEF Crash
  <2>2. req'[s] = [NoRequest EXCEPT !.result = "CRASHED"] /\ req' = [req EXCEPT ![s] = req'[s]]
    BY <1>1, <2>1 DEF TypeOK
  <2>3. req'[s].reported = <<>>
    BY <2>2 DEF NoRequest
  <2>. QED  BY <1>1, <2>2, <2>3, ForgetOrStutter
<1>8. CASE InspectHead(s) \/ ReloadHead(s)
  <2>. DEFINE r == [req[s] EXCEPT !.run = head]
  <2>1. r \in Request /\ r.reported = req[s].reported
    BY <1>1 DEF TypeOK, Request
  <2>2. \/ Reply(s, req[s], BlockedAs(head))
        \/ Goto(s, r, "inspectFrame") \/ Goto(s, r, "compute")
    BY <1>8 DEF InspectHead, ReloadHead
  <2>. QED  BY <1>1, <1>2, <1>3, <2>1, <2>2 DEF BlockedAs, Results, Points
<1>9. CASE InspectFrame(s) \/ InspectEvents(s)
  <2>. DEFINE r(ok) == [req[s] EXCEPT !.ok = ok]
  <2>1. PICK ok \in BOOLEAN : \/ Goto(s, r(ok), "inspectEvents")
                              \/ Goto(s, r(ok), "inspectEntities")
    BY <1>9 DEF InspectFrame, InspectEvents
  <2>2. r(ok) \in Request /\ r(ok).reported = req[s].reported
    BY <1>1 DEF Request
  <2>. QED  BY <1>2, <2>1, <2>2 DEF Points
<1>10. CASE InspectEntities(s)
  BY <1>1, <1>2, <1>3, <1>10 DEF InspectEntities, Results, Points
<1>11. CASE LoadEntities(s)
  <2>. DEFINE r == [req[s] EXCEPT !.view = entities]
  <2>1. r \in Request /\ r.reported = req[s].reported
    BY <1>1 DEF TypeOK, Request
  <2>. QED  BY <1>2, <1>11, <2>1 DEF LoadEntities, Points
<1>12. CASE ComputeFrame(s)
  <2>. DEFINE f == FrameFrom(req[s].run, req[s].view)
              r == [req[s] EXCEPT !.frame = f, !.view = f.view, !.attempt = 0]
  <2>1. f \in Frame /\ f.view \in View
    BY <1>1, <1>12, FrameFromType DEF TypeOK, Request, ComputeFrame, Frame
  <2>2. r \in Request /\ r.reported = req[s].reported
    BY <1>1, <2>1 DEF Request
  <2>. QED  BY <1>2, <1>12, <2>2 DEF ComputeFrame, Points
<1>13. CASE ExceedCapacity(s) \/ LoseRace(s)
  BY <1>1, <1>3, <1>13 DEF ExceedCapacity, LoseRace, Results
<1>14. CASE CheckHead(s)
  <2>. DEFINE r == [req[s] EXCEPT !.attempt = @ + 1]
  <2>1. r \in Request /\ r.reported = req[s].reported
    BY <1>1 DEF Request
  <2>. QED  BY <1>2, <1>5, <1>14, <2>1 DEF CheckHead, Points
<1>15. CASE Abort(s)
  BY <1>1, <1>2, <1>3, <1>5, <1>15 DEF Abort, Points, Results
<1>16. CASE CheckTransient(s)
  BY <1>4, <1>5, <1>16 DEF CheckTransient
<1>17. CASE ResolveFrame(s)
  <2>. DEFINE r(b) == [req[s] EXCEPT !.stored = b]
  <2>1. \A b \in BOOLEAN : r(b) \in Request /\ r(b).reported = req[s].reported
    BY <1>1 DEF Request
  <2>2. \/ Goto(s, r(FALSE), "resolveHead")
        \/ Goto(s, r(TRUE), "resolveHead")
        \/ Unresolved(s)
    BY <1>17 DEF ResolveFrame
  <2>. QED  BY <1>2, <1>4, <2>1, <2>2 DEF Points
<1>18. CASE ResolveHead(s)
  <2>1. CASE req[s].stored /\ Succeed(s)
    <3>1. PICK f \in Frame : f = req[s].frame
      BY <1>1 DEF Request
    <3>2. f.tick \in DOMAIN frames /\ frames[f.tick] = DocOf(f)
      BY <1>1, <1>18, <2>1, <3>1 DEF RequestInv, ResolveHead, At
    <3>. QED  BY <1>1, <1>18, <2>1, <3>1, <3>2, TellStep DEF ResolveHead, At, FramePoints
  <2>. QED  BY <1>4, <1>18, <2>1 DEF ResolveHead
<1>19. CASE Commit(s) \/ CommitUnacknowledged(s)
  BY <1>19, CommitRefines
<1>. QED  BY <1>6, <1>7, <1>8, <1>9, <1>10, <1>11, <1>12, <1>13, <1>14, <1>15, <1>16,
             <1>17, <1>18, <1>19 DEF Continue

\* The genesis frame is the log's first.
LEMMA InitRefines == Init => Log!LogInit
<1>. SUFFICES ASSUME Init
              PROVE  Log!LogInit
  OBVIOUS
<1>1. head.tick = 0 /\ frames = [t \in {0} |-> DocOf(GenesisFrame)]
  BY DEF Init, GenesisHead
<1>2. LogChain = [i \in 1..1 |-> [start |-> GenesisHash, end |-> GenesisHash]]
  BY <1>1 DEF LogChain, DocOf, GenesisFrame
<1>3. LogChain = <<Log!Genesis>>
  BY <1>2 DEF Log!Genesis
<1>4. LogTold = [c \in Steppers |-> <<>>]
  BY DEF LogTold, Init, NoRequest
<1>. QED  BY <1>3, <1>4 DEF Log!LogInit

\* Every step of the store is a step of the log or a stutter.
LEMMA NextRefines == IndInv /\ [Next]_vars => [Log!LogNext]_(Log!logVars)
<1>. SUFFICES ASSUME IndInv, [Next]_vars
              PROVE  [Log!LogNext]_(Log!logVars)
  OBVIOUS
<1>1. ASSUME NEW s \in Steppers, BeginStep(s) \/ Continue(s) \/ Crash(s)
      PROVE  [Log!LogNext]_(Log!logVars)
  <2>1. UNCHANGED <<world, docs>> \/ Commit(s) \/ CommitUnacknowledged(s)
    BY <1>1 DEF BeginStep, Crash, Continue, InspectHead, InspectFrame, InspectEvents,
       InspectEntities, LoadEntities, ReloadHead, ComputeFrame, ExceedCapacity, CheckHead,
       LoseRace, Abort, CheckTransient, ResolveFrame, ResolveHead
  <2>. QED  BY <1>1, <2>1, CommitRefines, QuietRefines
<1>2. CASE Pause
  <2>1. head' = [head EXCEPT !.status = "paused"] /\ UNCHANGED <<frames, req>>
    BY <1>2 DEF Pause
  <2>2. head'.tick = head.tick
    BY <2>1 DEF IndInv, RequestsInv, TypeOK, RunHead
  <2>3. LogChain' = LogChain /\ LogTold' = LogTold
    BY <2>1, <2>2 DEF LogChain, LogTold
  <2>. QED  BY <2>3 DEF Log!logVars
<1>3. CASE UNCHANGED vars
  BY <1>3 DEF vars, docs, LogChain, LogTold, Log!logVars
<1>. QED  BY <1>1, <1>2, <1>3 DEF Next

\* The transactional tick store implements the append-only log of TickLog: the
\* commit protocol, its retries and its resolutions show clients one growing
\* chain, and tell them only what is in it, later frames after earlier ones.
THEOREM RefinesLog == Spec => ImplementsLog
BY InitRefines, NextRefines, Invariance, PTL DEF Spec, ImplementsLog

(***************************************************************************)
(* How long a request takes.                                               *)
(***************************************************************************)

\* How far a request is from the end of the tick it is working on, at most: an attempt
\* already counted costs eight awaits less; a resolution that was asked because of a stale
\* head or a transient error is the last of its tick.
Distance(r) ==
    LET again == 8 * (MaxAttempts - r.attempt)
        first == 8 * MaxAttempts
    IN  CASE r.pc = "inspectHead" -> first + 13
          [] r.pc = "inspectFrame" -> first + 12
          [] r.pc = "inspectEvents" -> first + 11
          [] r.pc = "inspectEntities" -> first + 10
          [] r.pc = "load" -> first + 9
          [] r.pc = "reload" -> first + 8
          [] r.pc = "compute" -> first + 7
          [] r.pc = "transaction" -> again + 7
          [] r.pc = "transient" -> again + 6
          [] r.pc = "resolveFrame" -> IF r.why = "unknown" THEN again + 6 ELSE 3
          [] r.pc = "resolveHead" -> IF r.why = "unknown" THEN again + 5 ELSE 2
          [] r.pc = "check" -> again + 4
          [] OTHER -> 0

\* The attempts made of a frame.
WithinAttempts(r) ==
    /\ r.attempt <= MaxAttempts
    /\ r.pc = "check" => r.attempt < MaxAttempts

Counted == \A s \in Steppers : WithinAttempts(req[s])

\* The request is answered, or has a tick less to do, or is nearer to the end of this one.
Nearer(s) ==
    \/ req'[s].pc = "idle"
    \/ req'[s].left < req[s].left
    \/ req'[s].left = req[s].left /\ Distance(req'[s]) < Distance(req[s])

Hurries(s) ==
    /\ Distance(req[s]) \in Nat
    /\ Continue(s) => Nearer(s)
    /\ ~At(s, "idle") /\ req'[s] # req[s] => Continue(s) \/ Crash(s)

\* What the two ways to end a step leave of a request, and of the others.
LEMMA GotoFields ==
    ASSUME TypeOK, NEW s \in Steppers, NEW r, NEW pc, Goto(s, r, pc),
           r = [k \in DOMAIN req[s] |-> r[k]]
    PROVE  /\ req'[s].pc = pc /\ req'[s].left = r.left /\ req'[s].attempt = r.attempt
           /\ req'[s].why = r.why
           /\ \A t \in Steppers : t # s => req'[t] = req[t]
BY DEF TypeOK, Request, Goto

LEMMA ReplyFields ==
    ASSUME TypeOK, NEW s \in Steppers, NEW r, NEW result, Reply(s, r, result)
    PROVE  /\ req'[s].pc = "idle" /\ req'[s].attempt = 0
           /\ \A t \in Steppers : t # s => req'[t] = req[t]
BY DEF TypeOK, Reply, NoRequest

\* What a step makes of the one request it belongs to.
Moved(s) ==
    /\ WithinAttempts(req'[s])
    /\ \A t \in Steppers : t # s => req'[t] = req[t]

\* A request that is answered.
LEMMA Answers ==
    ASSUME TypeOK, NEW s \in Steppers, NEW r, NEW result, Reply(s, r, result)
    PROVE  Moved(s) /\ Nearer(s)
BY ReplyFields, StoreAssumption DEF BoundsAssumption, Moved, Nearer, WithinAttempts

\* A request that goes on within its tick.
LEMMA GoesOn ==
    ASSUME TypeOK, Counted, NEW s \in Steppers, NEW r, NEW pc \in Points, Goto(s, r, pc),
           r = [k \in DOMAIN req[s] |-> r[k]], r.left = req[s].left,
           WithinAttempts([pc |-> pc, attempt |-> r.attempt]),
           Distance([pc |-> pc, attempt |-> r.attempt, why |-> r.why]) < Distance(req[s])
    PROVE  Moved(s) /\ Nearer(s)
BY GotoFields DEF Moved, Nearer, WithinAttempts, Distance

\* The distance is a natural number, so it cannot shrink for ever.
LEMMA DistanceType ==
    ASSUME TypeOK, Counted, NEW s \in Steppers
    PROVE  Distance(req[s]) \in Nat
<1>1. req[s].pc \in Points /\ req[s].attempt \in Nat /\ MaxAttempts \in Nat
      /\ req[s].attempt <= MaxAttempts
  BY StoreAssumption DEF BoundsAssumption, TypeOK, Request, Counted, WithinAttempts
<1>. QED  BY <1>1 DEF Distance, Points

LEMMA InspectHurries ==
    ASSUME TypeOK, Counted, NEW s \in Steppers,
           \/ InspectHead(s) \/ InspectFrame(s) \/ InspectEvents(s) \/ InspectEntities(s)
           \/ LoadEntities(s) \/ ReloadHead(s) \/ ComputeFrame(s) \/ ExceedCapacity(s)
    PROVE  Moved(s) /\ Nearer(s)
<1>. DEFINE q == req[s]
<1>1. /\ q \in Request /\ q.attempt \in Nat /\ q.attempt <= MaxAttempts
      /\ MaxAttempts \in Nat \ {0}
  BY StoreAssumption DEF BoundsAssumption, TypeOK, Request, Counted, WithinAttempts
<1>2. \/ \E result : Reply(s, q, result)
      \/ \E r, pc : /\ Goto(s, r, pc) /\ pc \in Points /\ r = [k \in DOMAIN q |-> r[k]]
                    /\ r.left = q.left /\ WithinAttempts([pc |-> pc, attempt |-> r.attempt])
                    /\ Distance([pc |-> pc, attempt |-> r.attempt, why |-> r.why])
                         < Distance(q)
  <2>1. CASE InspectHead(s)
    BY <1>1, <2>1 DEF InspectHead, At, Request, Distance, WithinAttempts, Points
  <2>2. CASE InspectFrame(s)
    BY <1>1, <2>2 DEF InspectFrame, At, Request, Distance, WithinAttempts, Points
  <2>3. CASE InspectEvents(s)
    BY <1>1, <2>3 DEF InspectEvents, At, Request, Distance, WithinAttempts, Points
  <2>4. CASE InspectEntities(s)
    BY <1>1, <2>4 DEF InspectEntities, At, Request, Distance, WithinAttempts, Points
  <2>5. CASE LoadEntities(s)
    BY <1>1, <2>5 DEF LoadEntities, At, Request, Distance, WithinAttempts, Points
  <2>6. CASE ReloadHead(s)
    BY <1>1, <2>6 DEF ReloadHead, At, Request, Distance, WithinAttempts, Points
  <2>7. CASE ComputeFrame(s)
    <3>. DEFINE f == FrameFrom(q.run, q.view)
                r == [q EXCEPT !.frame = f, !.view = f.view, !.attempt = 0]
    <3>1. q.pc = "compute" /\ Goto(s, r, "check")
      BY <2>7 DEF ComputeFrame, At
    <3>. HIDE DEF f
    <3>2. r = [k \in DOMAIN q |-> r[k]] /\ r.left = q.left /\ r.attempt = 0
      BY <1>1 DEF Request
    <3>3. /\ WithinAttempts([pc |-> "check", attempt |-> r.attempt])
          /\ Distance([pc |-> "check", attempt |-> r.attempt, why |-> r.why]) < Distance(q)
      BY <1>1, <3>1, <3>2 DEF Distance, WithinAttempts
    <3>. QED  BY <3>1, <3>2, <3>3 DEF Points
  <2>8. CASE ExceedCapacity(s)
    BY <2>8 DEF ExceedCapacity
  <2>. QED  BY <2>1, <2>2, <2>3, <2>4, <2>5, <2>6, <2>7, <2>8
<1>. QED  BY <1>2, Answers, GoesOn

\* A frame that is durable leaves a tick less to do.
LEMMA SucceedHurries ==
    ASSUME TypeOK, Counted, NEW s \in Steppers, Succeed(s), req[s].left \in Nat,
           ~At(s, "check")
    PROVE  Moved(s) /\ Nearer(s)
<1>. DEFINE q == req[s]
            r == [q EXCEPT !.reported = Append(@, ReportOf(q.frame)), !.left = @ - 1]
<1>1. q \in Request /\ q.attempt <= MaxAttempts
  BY DEF TypeOK, Counted, WithinAttempts
<1>2. CASE r.left = 0
  BY <1>2, Answers DEF Succeed
<1>3. CASE r.left # 0
  <2>1. Goto(s, r, "reload")
    BY <1>3 DEF Succeed
  <2>2. r = [k \in DOMAIN q |-> r[k]] /\ r.left = q.left - 1 /\ r.attempt = q.attempt
    BY <1>1 DEF Request
  <2>. HIDE DEF r
  <2>3. /\ req'[s].pc = "reload" /\ req'[s].left = q.left - 1 /\ req'[s].attempt = q.attempt
        /\ \A t \in Steppers : t # s => req'[t] = req[t]
    BY <2>1, <2>2, GotoFields
  <2>. QED  BY <1>1, <2>3 DEF Moved, Nearer, WithinAttempts
<1>. QED  BY <1>2, <1>3

LEMMA ResolveHurries ==
    ASSUME TypeOK, Counted, NEW s \in Steppers, NEW why \in {"stale", "unknown", "transient"},
           Resolve(s, why), req[s].pc \in {"check", "transaction", "transient"},
           why = "unknown" => At(s, "transaction")
    PROVE  Moved(s) /\ Nearer(s)
<1>. DEFINE q == req[s]
            r == [q EXCEPT !.why = why]
<1>1. /\ q \in Request /\ q.attempt \in Nat /\ q.attempt <= MaxAttempts
      /\ MaxAttempts \in Nat \ {0}
  BY StoreAssumption DEF BoundsAssumption, TypeOK, Request, Counted, WithinAttempts
<1>2. /\ r = [k \in DOMAIN q |-> r[k]] /\ r.left = q.left /\ r.attempt = q.attempt
      /\ r.why = why
  BY <1>1 DEF Request
<1>3. Goto(s, r, "resolveFrame")
  BY DEF Resolve
<1>. HIDE DEF r
<1>4. Distance([pc |-> "resolveFrame", attempt |-> r.attempt, why |-> r.why]) < Distance(q)
  BY <1>1, <1>2 DEF Distance, At
<1>5. WithinAttempts([pc |-> "resolveFrame", attempt |-> r.attempt])
  BY <1>1, <1>2 DEF WithinAttempts
<1>. QED  BY <1>2, <1>3, <1>4, <1>5, GoesOn DEF Points

\* To a point where the request holds what it held.
LEMMA SameGoesOn ==
    ASSUME TypeOK, Counted, NEW s \in Steppers, NEW pc \in Points, Goto(s, req[s], pc),
           pc = "check" => req[s].attempt < MaxAttempts,
           Distance([pc |-> pc, attempt |-> req[s].attempt, why |-> req[s].why])
             < Distance(req[s])
    PROVE  Moved(s) /\ Nearer(s)
<1>1. req[s] = [k \in DOMAIN req[s] |-> req[s][k]] /\ req[s].attempt <= MaxAttempts
  BY DEF TypeOK, Request, Counted, WithinAttempts
<1>2. WithinAttempts([pc |-> pc, attempt |-> req[s].attempt])
  BY <1>1 DEF WithinAttempts
<1>. QED  BY <1>1, <1>2, GoesOn

LEMMA RetryHurries ==
    ASSUME TypeOK, Counted, NEW s \in Steppers, RetryOrGiveUp(s),
           At(s, "transient") \/ (At(s, "resolveHead") /\ req[s].why = "unknown")
    PROVE  Moved(s) /\ Nearer(s)
<1>1. CASE \E result : Reply(s, req[s], result)
  BY <1>1, Answers
<1>2. CASE req[s].attempt < MaxAttempts /\ Goto(s, req[s], "check")
  <2>1. Distance([pc |-> "check", attempt |-> req[s].attempt, why |-> req[s].why])
          < Distance(req[s])
    BY StoreAssumption DEF BoundsAssumption, TypeOK, Request, Distance, At
  <2>. QED  BY <1>2, <2>1, SameGoesOn DEF Points
<1>. QED  BY <1>1, <1>2 DEF RetryOrGiveUp

LEMMA CommitHurries ==
    ASSUME TypeOK, Counted, NEW s \in Steppers,
           \/ CheckHead(s) \/ LoseRace(s) \/ Commit(s) \/ CommitUnacknowledged(s)
           \/ Abort(s) \/ CheckTransient(s) \/ ResolveFrame(s) \/ ResolveHead(s)
    PROVE  Moved(s) /\ Nearer(s)
<1>. DEFINE q == req[s]
<1>1. /\ q \in Request /\ q.attempt \in Nat /\ q.attempt <= MaxAttempts /\ q.left \in Nat
      /\ MaxAttempts \in Nat \ {0} /\ (q.pc = "check" => q.attempt < MaxAttempts)
  BY StoreAssumption DEF BoundsAssumption, TypeOK, Request, Counted, WithinAttempts
<1>2. CASE CheckHead(s)
  <2>. DEFINE r == [q EXCEPT !.attempt = @ + 1]
  <2>1. q.pc = "check"
    BY <1>2 DEF CheckHead, At
  <2>2. CASE Goto(s, r, "transaction")
    <3>1. r = [k \in DOMAIN q |-> r[k]] /\ r.left = q.left /\ r.attempt = q.attempt + 1
      BY <1>1 DEF Request
    <3>. HIDE DEF r
    <3>2. /\ WithinAttempts([pc |-> "transaction", attempt |-> r.attempt])
          /\ Distance([pc |-> "transaction", attempt |-> r.attempt, why |-> r.why])
               < Distance(q)
      BY <1>1, <2>1, <3>1 DEF WithinAttempts, Distance
    <3>. QED  BY <2>2, <3>1, <3>2, GoesOn DEF Points
  <2>3. CASE Resolve(s, "stale")
    BY <2>1, <2>3, ResolveHurries
  <2>. QED  BY <1>2, <2>2, <2>3 DEF CheckHead
<1>3. CASE LoseRace(s)
  BY <1>3, Answers DEF LoseRace
<1>4. CASE Commit(s)
  BY <1>1, <1>4, SucceedHurries DEF Commit, At
<1>5. CASE CommitUnacknowledged(s) \/ Abort(s)
  <2>1. q.pc = "transaction"
    BY <1>5 DEF CommitUnacknowledged, Abort, At
  <2>2. CASE Resolve(s, "unknown")
    BY <2>1, <2>2, ResolveHurries DEF At
  <2>3. CASE Goto(s, q, "transient")
    <3>1. Distance([pc |-> "transient", attempt |-> q.attempt, why |-> q.why]) < Distance(q)
      BY <1>1, <2>1 DEF Distance
    <3>. QED  BY <2>3, <3>1, SameGoesOn DEF Points
  <2>. QED  BY <1>5, <2>2, <2>3, Answers DEF CommitUnacknowledged, Abort
<1>6. CASE CheckTransient(s)
  <2>1. q.pc = "transient" /\ (RetryOrGiveUp(s) \/ Resolve(s, "transient"))
    BY <1>6 DEF CheckTransient, At
  <2>2. CASE RetryOrGiveUp(s)
    <3>1. At(s, "transient")
      BY <2>1 DEF At
    <3>. QED  BY <2>2, <3>1, RetryHurries
  <2>3. CASE Resolve(s, "transient")
    <3>1. "transient" \in {"stale", "unknown", "transient"} /\ "transient" # "unknown"
      OBVIOUS
    <3>2. q.pc \in {"check", "transaction", "transient"}
      BY <2>1
    <3>. QED  BY <2>3, <3>1, <3>2, ResolveHurries
  <2>. QED  BY <2>1, <2>2, <2>3
<1>7. CASE ResolveFrame(s)
  <2>1. q.pc = "resolveFrame"
    BY <1>7 DEF ResolveFrame, At
  <2>2. ASSUME NEW seen \in BOOLEAN, Goto(s, [q EXCEPT !.stored = seen], "resolveHead")
        PROVE  Moved(s) /\ Nearer(s)
    <3>. DEFINE r == [q EXCEPT !.stored = seen]
    <3>1. /\ r = [k \in DOMAIN q |-> r[k]] /\ r.left = q.left /\ r.attempt = q.attempt
          /\ r.why = q.why
      BY <1>1 DEF Request
    <3>2. Goto(s, r, "resolveHead")
      BY <2>2
    <3>. HIDE DEF r
    <3>3. /\ WithinAttempts([pc |-> "resolveHead", attempt |-> r.attempt])
          /\ Distance([pc |-> "resolveHead", attempt |-> r.attempt, why |-> r.why])
               < Distance(q)
      BY <1>1, <2>1, <3>1 DEF WithinAttempts, Distance
    <3>. QED  BY <3>1, <3>2, <3>3, GoesOn DEF Points
  <2>3. \/ Goto(s, [q EXCEPT !.stored = TRUE], "resolveHead")
        \/ Goto(s, [q EXCEPT !.stored = FALSE], "resolveHead")
        \/ Unresolved(s)
    BY <1>7 DEF ResolveFrame
  <2>. QED  BY <2>2, <2>3, Answers DEF Unresolved
<1>8. CASE ResolveHead(s)
  <2>1. /\ q.pc = "resolveHead"
        /\ Succeed(s) \/ Unresolved(s) \/ (RetryOrGiveUp(s) /\ q.why = "unknown")
    BY <1>8 DEF ResolveHead, At
  <2>. QED  BY <1>1, <2>1, SucceedHurries, RetryHurries, Answers DEF Unresolved, At
<1>. QED  BY <1>2, <1>3, <1>4, <1>5, <1>6, <1>7, <1>8

LEMMA ContinueHurries ==
    ASSUME TypeOK, Counted, NEW s \in Steppers, Continue(s)
    PROVE  Moved(s) /\ Nearer(s)
BY InspectHurries, CommitHurries DEF Continue

\* The start of a request and its death touch no other one.
LEMMA AsksOrDies ==
    ASSUME TypeOK, NEW s \in Steppers, BeginStep(s) \/ Crash(s)
    PROVE  Moved(s)
<1>1. CASE BeginStep(s)
  <2>1. PICK n \in 1..MaxRequest :
            LET r == [NoRequest EXCEPT !.left = n, !.run = head]
            IN  Reply(s, r, BlockedAs(head)) \/ Goto(s, r, "inspectHead")
    BY <1>1 DEF BeginStep
  <2>. DEFINE r == [NoRequest EXCEPT !.left = n, !.run = head]
  <2>2. CASE Reply(s, r, BlockedAs(head))
    BY <2>2, Answers, ReplyFields, StoreAssumption DEF BoundsAssumption, Moved, WithinAttempts
  <2>3. CASE Goto(s, r, "inspectHead")
    <3>1. req'[s].pc = "inspectHead" /\ req'[s].attempt = 0
          /\ \A t \in Steppers : t # s => req'[t] = req[t]
      BY <2>3 DEF Goto, TypeOK, NoRequest
    <3>. QED  BY <3>1, StoreAssumption DEF BoundsAssumption, Moved, WithinAttempts
  <2>. QED  BY <2>1, <2>2, <2>3
<1>2. CASE Crash(s)
  <2>1. req'[s].pc = "idle" /\ req'[s].attempt = 0
        /\ \A t \in Steppers : t # s => req'[t] = req[t]
    BY <1>2 DEF Crash, TypeOK, NoRequest
  <2>. QED  BY <2>1, StoreAssumption DEF BoundsAssumption, Moved, WithinAttempts
<1>. QED  BY <1>1, <1>2

LEMMA NextCounted == TypeOK /\ Counted /\ [Next]_vars => Counted'
<1>. SUFFICES ASSUME TypeOK, Counted, [Next]_vars
              PROVE  Counted'
  OBVIOUS
<1>1. ASSUME NEW s \in Steppers, BeginStep(s) \/ Continue(s) \/ Crash(s)
      PROVE  Counted'
  BY <1>1, ContinueHurries, AsksOrDies DEF Moved, Counted, WithinAttempts
<1>2. CASE Pause \/ UNCHANGED vars
  BY <1>2 DEF Pause, vars, Counted, WithinAttempts
<1>. QED  BY <1>1, <1>2 DEF Next

\* Every await a step request comes back from brings its answer nearer, whatever the other
\* requests do meanwhile, and only it or its death moves it: retries, resolutions and lost
\* acknowledgements included, it awaits boundedly often.
THEOREM RequestsHurry == Spec => [][\A s \in Steppers : Hurries(s)]_vars
<1>1. Init => Counted
  BY StoreAssumption DEF BoundsAssumption, Init, Counted, WithinAttempts, NoRequest
<1>2. IndInv => TypeOK
  BY DEF IndInv, RequestsInv
<1>3. TypeOK /\ Counted /\ [Next]_vars => [\A s \in Steppers : Hurries(s)]_vars
  <2>. SUFFICES ASSUME TypeOK, Counted, Next, NEW s \in Steppers
                PROVE  Hurries(s)
    OBVIOUS
  <2>1. Continue(s) => Nearer(s)
    BY ContinueHurries
  <2>2. ASSUME ~At(s, "idle"), req'[s] # req[s]
        PROVE  Continue(s) \/ Crash(s)
    <3>1. ASSUME NEW t \in Steppers, BeginStep(t) \/ Continue(t) \/ Crash(t), t # s
          PROVE  FALSE
      BY <2>2, <3>1, ContinueHurries, AsksOrDies DEF Moved
    <3>2. ~Pause /\ ~BeginStep(s)
      BY <2>2 DEF Pause, BeginStep
    <3>. QED  BY <3>1, <3>2 DEF Next
  <2>. QED  BY <2>1, <2>2, DistanceType DEF Hurries
<1>. QED  BY <1>1, <1>2, <1>3, NextCounted, Invariance, PTL DEF Spec
----------------------------------------------------------------------------
\* What an inspection sees of the run: its four reads belong to one store, or the
\* head's revision has moved since.

\* The heads say the same of the run, whatever the status and the lease.
SameRun(a, b) == a.tick = b.tick /\ a.hash = b.hash /\ a.order = b.order

\* What an inspection finds of the newest frame, and of the events besides.
FrameAgrees == head.hash = frames[head.tick].end
Agree == FrameAgrees /\ \A ev \in events : ev.order < head.order

InspectPoints == {"inspectFrame", "inspectEvents", "inspectEntities"}

\* The copy of the head is of now or of an earlier revision; if it is of now, what
\* was found since is so.
Seen(r) ==
    /\ r.pc \in InspectPoints => r.run.rev <= head.rev
    /\ r.pc \in InspectPoints /\ r.run.rev = head.rev =>
         /\ SameRun(r.run, head)
         /\ r.pc = "inspectEvents" => (r.ok <=> FrameAgrees)
         /\ r.pc = "inspectEntities" => (r.ok <=> Agree)

SeenInv == \A s \in Steppers : Seen(req[s])

\* The revision grows, and what goes with it stays as long as it does not.
RevisionGuards ==
    /\ head'.rev >= head.rev
    /\ head'.rev = head.rev =>
         SameRun(head', head) /\ UNCHANGED <<frames, events>>

LEMMA SeenStays ==
    ASSUME TypeOK, head' \in RunHead, RevisionGuards, NEW r \in Request, Seen(r)
    PROVE  Seen(r)'
<1>1. head.rev \in Nat /\ head'.rev \in Nat /\ r.run.rev \in Nat
  BY DEF TypeOK, RunHead, Request
<1>2. SUFFICES ASSUME r.pc \in InspectPoints
               PROVE  Seen(r)'
  BY DEF Seen
<1>3. r.run.rev <= head.rev
  BY <1>2 DEF Seen
<1>4. r.run.rev <= head'.rev
  BY <1>1, <1>3 DEF RevisionGuards
<1>5. ASSUME r.run.rev = head'.rev
      PROVE  /\ SameRun(r.run, head)'
             /\ r.pc = "inspectEvents" => (r.ok <=> FrameAgrees')
             /\ r.pc = "inspectEntities" => (r.ok <=> Agree')
  <2>1. r.run.rev = head.rev /\ head'.rev = head.rev
    BY <1>1, <1>3, <1>5 DEF RevisionGuards
  <2>2. SameRun(head', head) /\ UNCHANGED <<frames, events>>
    BY <2>1 DEF RevisionGuards
  <2>3. (FrameAgrees' <=> FrameAgrees) /\ (Agree' <=> Agree)
    BY <2>2 DEF SameRun, FrameAgrees, Agree
  <2>. QED  BY <1>2, <2>1, <2>2, <2>3 DEF Seen, SameRun
<1>. QED  BY <1>4, <1>5 DEF Seen

\* A commit raises the revision; a pause leaves what the inspection looks at.
LEMMA WriteGuards ==
    ASSUME TypeOK, NEW f, WriteFrame(f)
    PROVE  RevisionGuards
<1>1. head.rev \in Nat /\ head'.rev = head.rev + 1
  BY DEF TypeOK, RunHead, WriteFrame
<1>. QED  BY <1>1 DEF RevisionGuards

LEMMA QuietGuards ==
    ASSUME TypeOK, Pause \/ UNCHANGED docs
    PROVE  RevisionGuards
<1>1. head \in RunHead /\ head.rev \in Nat
  BY DEF TypeOK, RunHead
<1>2. CASE Pause
  BY <1>1, <1>2 DEF Pause, RunHead, RevisionGuards, SameRun
<1>3. CASE UNCHANGED docs
  BY <1>1, <1>3 DEF docs, RevisionGuards, SameRun
<1>. QED  BY <1>2, <1>3

\* The newest frame is the head's.
LEMMA LatestTickIsHead ==
    ASSUME TypeOK
    PROVE  LatestTick = head.tick
<1>1. head.tick \in Nat /\ DOMAIN frames = 0..head.tick
  BY DEF TypeOK, RunHead
<1>2. /\ head.tick \in DOMAIN frames
      /\ \A u \in DOMAIN frames : u <= head.tick
  BY <1>1
<1>3. \A t \in DOMAIN frames : (\A u \in DOMAIN frames : u <= t) => t = head.tick
  BY <1>1, <1>2
<1>. QED  BY <1>2, <1>3 DEF LatestTick

\* What the reads of the inspection put in memory is seen.
LEMMA ReadsSeen ==
    ASSUME TypeOK, NEW s \in Steppers, Seen(req[s]), req[s].pc # "idle",
           InspectHead(s) \/ InspectFrame(s) \/ InspectEvents(s)
    PROVE  \E r \in Request : req' = [req EXCEPT ![s] = r] /\ Seen(r)
<1>1. PICK q \in Request : q = req[s]
  BY DEF TypeOK
<1>2. q.run \in RunHead /\ head \in RunHead /\ head.rev \in Nat
  BY <1>1 DEF Request, TypeOK, RunHead
<1>3. CASE InspectHead(s)
  <2>1. CASE Reply(s, q, BlockedAs(head))
    <3>1. PICK r \in Request : r = [NoRequest EXCEPT !.frame = q.frame,
                                      !.reported = q.reported, !.result = BlockedAs(head)]
      BY GenesisType DEF Request, BlockedAs, Results
    <3>2. r.pc = "idle"
      BY <3>1 DEF NoRequest
    <3>3. Seen(r)
      BY <3>2 DEF Seen, InspectPoints
    <3>. QED  BY <2>1, <3>1, <3>3 DEF Reply
  <2>2. CASE Goto(s, [q EXCEPT !.run = head], "inspectFrame")
    <3>1. PICK r : r = [[q EXCEPT !.run = head] EXCEPT !.pc = "inspectFrame"]
      OBVIOUS
    <3>2. r \in Request /\ r.pc = "inspectFrame" /\ r.run = head
      BY <1>2, <3>1 DEF Request, Points
    <3>3. Seen(r)
      BY <1>2, <3>2 DEF Seen, SameRun
    <3>. QED  BY <2>2, <3>1, <3>2, <3>3 DEF Goto
  <2>. QED  BY <1>1, <1>3, <2>1, <2>2 DEF InspectHead
<1>4. CASE InspectFrame(s)
  <2>1. PICK b \in BOOLEAN :
          b = (LatestTick = q.run.tick /\ frames[LatestTick].end = q.run.hash)
    OBVIOUS
  <2>2. PICK r : r = [[q EXCEPT !.ok = b] EXCEPT !.pc = "inspectEvents"]
    OBVIOUS
  <2>3. r \in Request /\ r.pc = "inspectEvents" /\ r.run = q.run /\ r.ok = b
    BY <2>2 DEF Request, Points
  <2>4. q.pc = "inspectFrame" /\ req' = [req EXCEPT ![s] = r]
    BY <1>1, <1>4, <2>1, <2>2 DEF InspectFrame, At, Goto
  <2>5. q.run.rev = head.rev => SameRun(q.run, head) /\ (b <=> FrameAgrees)
    BY <1>1, <2>1, <2>4, LatestTickIsHead DEF Seen, InspectPoints, SameRun, FrameAgrees
  <2>6. q.run.rev <= head.rev
    BY <1>1, <2>4 DEF Seen, InspectPoints
  <2>7. Seen(r)
    BY <2>3, <2>5, <2>6 DEF Seen
  <2>. QED  BY <2>3, <2>4, <2>7
<1>5. CASE InspectEvents(s)
  <2>1. PICK b \in BOOLEAN : b = (q.ok /\ \A ev \in events : ev.order < q.run.order)
    OBVIOUS
  <2>2. PICK r : r = [[q EXCEPT !.ok = b] EXCEPT !.pc = "inspectEntities"]
    OBVIOUS
  <2>3. r \in Request /\ r.pc = "inspectEntities" /\ r.run = q.run /\ r.ok = b
    BY <2>2 DEF Request, Points
  <2>4. q.pc = "inspectEvents" /\ req' = [req EXCEPT ![s] = r]
    BY <1>1, <1>5, <2>1, <2>2 DEF InspectEvents, At, Goto
  <2>5. q.run.rev = head.rev => SameRun(q.run, head) /\ (b <=> Agree)
    BY <1>1, <2>1, <2>4 DEF Seen, InspectPoints, SameRun, Agree
  <2>6. q.run.rev <= head.rev
    BY <1>1, <2>4 DEF Seen, InspectPoints
  <2>7. Seen(r)
    BY <2>3, <2>5, <2>6 DEF Seen
  <2>. QED  BY <2>3, <2>4, <2>7
<1>. QED  BY <1>3, <1>4, <1>5

\* Every other step of a request takes it out of the inspection, or to its start.
LEMMA LeavesInspection ==
    ASSUME TypeOK, NEW s \in Steppers, BeginStep(s) \/ Continue(s) \/ Crash(s),
           ~InspectHead(s), ~InspectFrame(s), ~InspectEvents(s)
    PROVE  req'[s].pc \notin InspectPoints
<1>1. req[s] \in Request
  BY DEF TypeOK
<1>2. ASSUME NEW r, NEW pc, Goto(s, r, pc), r = [k \in DOMAIN req[s] |-> r[k]],
             pc \notin InspectPoints
      PROVE  req'[s].pc \notin InspectPoints
  BY <1>2, GotoFields
<1>3. ASSUME NEW r, NEW result, Reply(s, r, result)
      PROVE  req'[s].pc \notin InspectPoints
  BY <1>3, ReplyFields DEF InspectPoints
<1>4. CASE Crash(s)
  BY <1>4 DEF Crash, TypeOK, NoRequest, InspectPoints
<1>5. CASE BeginStep(s)
  <2>1. PICK r : /\ r = [k \in DOMAIN NoRequest |-> r[k]]
                 /\ Reply(s, r, BlockedAs(head)) \/ Goto(s, r, "inspectHead")
    BY <1>5 DEF BeginStep, NoRequest
  <2>2. DOMAIN NoRequest = DOMAIN req[s]
    BY <1>1 DEF Request, NoRequest
  <2>. QED  BY <1>2, <1>3, <2>1, <2>2 DEF InspectPoints
<1>6. ASSUME NEW why, Resolve(s, why)
      PROVE  req'[s].pc \notin InspectPoints
  BY <1>1, <1>2, <1>6 DEF Resolve, Request, InspectPoints
<1>7. CASE Succeed(s)
  <2>1. PICK r : /\ r = [req[s] EXCEPT !.reported = Append(@, ReportOf(req[s].frame)),
                                        !.left = @ - 1]
                 /\ Reply(s, r, "OK") \/ Goto(s, r, "reload")
    BY <1>7 DEF Succeed
  <2>2. r = [k \in DOMAIN req[s] |-> r[k]]
    BY <1>1, <2>1 DEF Request
  <2>3. CASE Reply(s, r, "OK")
    BY <1>3, <2>3
  <2>4. CASE Goto(s, r, "reload")
    BY <1>2, <2>2, <2>4 DEF InspectPoints
  <2>. QED  BY <2>1, <2>3, <2>4
<1>8. CASE RetryOrGiveUp(s) \/ Unresolved(s)
  BY <1>1, <1>2, <1>3, <1>8 DEF RetryOrGiveUp, Unresolved, Request, InspectPoints
<1>9. CASE InspectEntities(s) \/ LoadEntities(s) \/ ReloadHead(s) \/ ExceedCapacity(s)
  BY <1>1, <1>2, <1>3, <1>9
     DEF InspectEntities, LoadEntities, ReloadHead, ExceedCapacity, Request, InspectPoints
<1>10. CASE ComputeFrame(s)
  <2>1. PICK f, view : Goto(s, [req[s] EXCEPT !.frame = f, !.view = view, !.attempt = 0],
                            "check")
    BY <1>10 DEF ComputeFrame
  <2>2. PICK r : r = [req[s] EXCEPT !.frame = f, !.view = view, !.attempt = 0]
    OBVIOUS
  <2>3. r = [k \in DOMAIN req[s] |-> r[k]]
    BY <1>1, <2>2 DEF Request
  <2>4. Goto(s, r, "check")
    BY <2>1, <2>2
  <2>. QED  BY <1>2, <2>3, <2>4 DEF InspectPoints
<1>11. CASE CheckHead(s) \/ LoseRace(s) \/ Commit(s) \/ CommitUnacknowledged(s) \/ Abort(s)
  BY <1>1, <1>2, <1>3, <1>6, <1>7, <1>11
     DEF CheckHead, LoseRace, Commit, CommitUnacknowledged, Abort, Request, InspectPoints
<1>12. CASE CheckTransient(s) \/ ResolveFrame(s) \/ ResolveHead(s)
  BY <1>1, <1>2, <1>6, <1>7, <1>8, <1>12
     DEF CheckTransient, ResolveFrame, ResolveHead, Request, InspectPoints
<1>. QED  BY <1>4, <1>5, <1>9, <1>10, <1>11, <1>12 DEF Continue

\* Every step keeps what the inspections have seen.
LEMMA NextSeen == RequestsInv /\ SeenInv /\ [Next]_vars => SeenInv'
<1>. SUFFICES ASSUME RequestsInv, SeenInv, [Next]_vars
              PROVE  SeenInv'
  OBVIOUS
<1>1. TypeOK /\ TypeOK' /\ req \in [Steppers -> Request] /\ head' \in RunHead
  BY NextRequestsInv DEF RequestsInv, TypeOK
<1>2. RevisionGuards
  BY <1>1, DocsSteps, WriteGuards, QuietGuards
<1>3. ASSUME NEW t \in Steppers, req'[t] = req[t]
      PROVE  Seen(req[t])'
  <2>1. PICK r \in Request : r = req[t]
    BY <1>1
  <2>2. Seen(r)' /\ req'[t] = r
    BY <1>1, <1>2, <1>3, <2>1, SeenStays DEF SeenInv
  <2>. QED  BY <2>2 DEF Seen
<1>4. ASSUME NEW s \in Steppers, BeginStep(s) \/ Continue(s) \/ Crash(s)
      PROVE  SeenInv'
  <2>1. PICK r \in Request : req' = [req EXCEPT ![s] = r]
    BY <1>4, RequestMoves DEF RequestStep
  <2>2. \A t \in Steppers : t # s => req'[t] = req[t]
    BY <1>1, <2>1
  <2>3. Seen(req[s])'
    <3>1. CASE InspectHead(s) \/ InspectFrame(s) \/ InspectEvents(s)
      <4>1. req[s].pc # "idle"
        BY <3>1 DEF InspectHead, InspectFrame, InspectEvents, At
      <4>2. PICK q \in Request : req' = [req EXCEPT ![s] = q] /\ Seen(q)
        BY <1>1, <3>1, <4>1, ReadsSeen DEF SeenInv
      <4>3. Seen(q)' /\ req'[s] = q
        BY <1>1, <1>2, <4>2, SeenStays
      <4>. QED  BY <4>3 DEF Seen
    <3>2. CASE ~(InspectHead(s) \/ InspectFrame(s) \/ InspectEvents(s))
      BY <1>1, <1>4, <3>2, LeavesInspection DEF Seen
    <3>. QED  BY <3>1, <3>2
  <2>. QED  BY <1>3, <2>2, <2>3 DEF SeenInv
<1>5. CASE UNCHANGED req
  BY <1>3, <1>5 DEF SeenInv
<1>. QED  BY <1>4, <1>5 DEF Next, Pause, vars

\* Nobody has seen anything yet.
LEMMA InitSeen == Init => SeenInv
BY DEF Init, SeenInv, Seen, NoRequest, InspectPoints

\* The answer to an inspection that fails is about what is stored, or the head moved.
LEMMA MismatchTrue ==
    ASSUME RequestsInv, SeenInv, [Next]_vars, NEW s \in Steppers,
           At(s, "inspectEntities"), req'[s].result = "RUN_INTEGRITY_MISMATCH"
    PROVE  ~StoreConsistent \/ head.rev # req[s].run.rev
<1>1. /\ req \in [Steppers -> Request] /\ req[s] \in Request /\ req[s].result = "none"
      /\ req[s].pc = "inspectEntities" /\ Seen(req[s])
  BY DEF RequestsInv, TypeOK, RequestInv, At, SeenInv
<1>2. req'[s] # req[s]
  BY <1>1
<1>3. ASSUME NEW u \in Steppers, BeginStep(u) \/ Continue(u) \/ Crash(u)
      PROVE  u = s
  <2>1. PICK r \in Request : req' = [req EXCEPT ![u] = r]
    BY <1>3, RequestMoves DEF RequestStep
  <2>. QED  BY <1>1, <1>2, <2>1
<1>4. BeginStep(s) \/ Continue(s) \/ Crash(s)
  BY <1>2, <1>3 DEF Next, vars, Pause
<1>5. ~Crash(s)
  <2>1. SUFFICES ASSUME Crash(s)
                 PROVE  FALSE
    OBVIOUS
  <2>2. req'[s] = [NoRequest EXCEPT !.result = "CRASHED"]
    BY <1>1, <2>1 DEF Crash
  <2>3. req'[s].result = "CRASHED"
    BY <2>2 DEF NoRequest
  <2>. QED  BY <2>3
<1>6. InspectEntities(s)
  BY <1>1, <1>4, <1>5
     DEF At, BeginStep, Continue, InspectHead, InspectFrame, InspectEvents, LoadEntities,
         ReloadHead, ComputeFrame, ExceedCapacity, CheckHead, LoseRace, Commit,
         CommitUnacknowledged, Abort, CheckTransient, ResolveFrame, ResolveHead
<1>7. SUFFICES ASSUME StoreConsistent, head.rev = req[s].run.rev
               PROVE  FALSE
  OBVIOUS
<1>8. SameRun(req[s].run, head) /\ (req[s].ok <=> Agree)
  BY <1>1, <1>7 DEF Seen, InspectPoints
<1>9. req[s].ok /\ HashOf(req[s].run.tick, entities) = req[s].run.hash
  BY <1>7, <1>8 DEF StoreConsistent, ProjectionFaithful, SameRun, Agree, FrameAgrees
<1>10. Goto(s, req[s], "load")
  BY <1>6, <1>9 DEF InspectEntities
<1>11. req'[s] = [req[s] EXCEPT !.pc = "load"]
  BY <1>1, <1>10 DEF Goto
<1>12. req'[s].result = "none"
  BY <1>1, <1>11 DEF Request
<1>. QED  BY <1>12

\* inspect_projection_integrity, whose four reads other requests may commit between,
\* refuses a run only for what is wrong with it, or when the head has moved meanwhile.
THEOREM MismatchesHonest == Spec => NoSpuriousMismatch
<1>. DEFINE Honest == \A s \in Steppers :
              (At(s, "inspectEntities") /\ req'[s].result = "RUN_INTEGRITY_MISMATCH") =>
                  ~StoreConsistent \/ head.rev # req[s].run.rev
<1>1. Init => RequestsInv /\ SeenInv
  BY InitIndInv, InitSeen DEF IndInv
<1>2. RequestsInv /\ SeenInv /\ [Next]_vars => (RequestsInv /\ SeenInv)'
  BY NextRequestsInv, NextSeen
<1>3. RequestsInv /\ SeenInv /\ [Next]_vars => [Honest]_vars
  BY MismatchTrue
<1>. QED  BY <1>1, <1>2, <1>3, PTL DEF Spec, NoSpuriousMismatch

----------------------------------------------------------------------------
\* What a resolution says of a frame that is stored.

\* A refused request was at the resolution, whose second read came too late.
LEMMA RefusalTrue ==
    ASSUME IndInv, [Next]_vars, NEW s \in Steppers,
           req[s].pc \in {"check", "transient", "resolveFrame", "resolveHead"},
           At(s, "resolveHead") => req[s].stored,
           req[s].frame.tick \in DOMAIN frames,
           frames[req[s].frame.tick] = DocOf(req[s].frame),
           req'[s].result \in {"CONCURRENT_MODIFICATION", "COMMIT_STATUS_UNKNOWN"}
    PROVE  head.tick > req[s].frame.tick
<1>. DEFINE f == req[s].frame
<1>1. /\ TypeOK /\ req \in [Steppers -> Request] /\ req[s] \in Request
      /\ req[s].result = "none" /\ req[s].left \in Nat \ {0}
  BY DEF IndInv, RequestsInv, TypeOK, RequestInv
<1>2. /\ head.tick \in Nat /\ DOMAIN frames = 0..head.tick /\ f.tick \in Nat
      /\ f.tick \in 0..head.tick
  BY <1>1 DEF TypeOK, RunHead, Request, Frame
<1>3. req'[s] # req[s]
  BY <1>1
<1>4. ASSUME NEW u \in Steppers, BeginStep(u) \/ Continue(u) \/ Crash(u)
      PROVE  u = s
  <2>1. PICK r \in Request : req' = [req EXCEPT ![u] = r]
    BY <1>4, RequestMoves DEF IndInv, RequestStep
  <2>. QED  BY <1>1, <1>3, <2>1
<1>5. ~HeadMatches(head, f)
  BY <1>1, <1>2 DEF HeadMatches
<1>6. ASSUME NEW r, NEW pc, Goto(s, r, pc)
      PROVE  req'[s] = [r EXCEPT !.pc = pc]
  BY <1>1, <1>6 DEF Goto
<1>7. ASSUME NEW r, NEW result, Reply(s, r, result)
      PROVE  req'[s].result = result
  <2>1. req'[s] = [NoRequest EXCEPT !.frame = r.frame, !.reported = r.reported,
                                    !.result = result]
    BY <1>1, <1>7 DEF Reply
  <2>. QED  BY <2>1 DEF NoRequest
<1>8. ASSUME NEW why, Resolve(s, why)
      PROVE  FALSE
  <2>1. PICK r : r = [req[s] EXCEPT !.why = why]
    OBVIOUS
  <2>2. req'[s] = [r EXCEPT !.pc = "resolveFrame"]
    BY <1>6, <1>8, <2>1 DEF Resolve
  <2>3. req'[s].result = "none"
    BY <1>1, <2>1, <2>2 DEF Request
  <2>. QED  BY <2>3
<1>9. ~Succeed(s)
  <2>1. SUFFICES ASSUME Succeed(s)
                 PROVE  FALSE
    OBVIOUS
  <2>2. PICK r : r = [req[s] EXCEPT !.reported = Append(@, ReportOf(req[s].frame)),
                                    !.left = @ - 1]
    OBVIOUS
  <2>3. Reply(s, r, "OK") \/ Goto(s, r, "reload")
    BY <2>1, <2>2 DEF Succeed
  <2>4. CASE Goto(s, r, "reload")
    <3>1. req'[s] = [r EXCEPT !.pc = "reload"]
      BY <1>6, <2>4
    <3>2. req'[s].result = "none"
      BY <1>1, <2>2, <3>1 DEF Request
    <3>. QED  BY <3>2
  <2>. QED  BY <1>7, <2>3, <2>4
<1>10. ~Crash(s)
  <2>1. SUFFICES ASSUME Crash(s)
                 PROVE  FALSE
    OBVIOUS
  <2>2. req'[s] = [NoRequest EXCEPT !.result = "CRASHED"]
    BY <1>1, <2>1 DEF Crash
  <2>3. req'[s].result = "CRASHED"
    BY <2>2 DEF NoRequest
  <2>. QED  BY <2>3
<1>11. \/ CheckHead(s) \/ CheckTransient(s) \/ ResolveFrame(s) \/ ResolveHead(s)
  <2>1. BeginStep(s) \/ Continue(s) \/ Crash(s)
    BY <1>3, <1>4 DEF Next, vars, Pause
  <2>. QED  BY <1>10, <2>1
     DEF At, BeginStep, Continue, InspectHead, InspectFrame, InspectEvents, InspectEntities,
         LoadEntities, ReloadHead, ComputeFrame, ExceedCapacity, LoseRace, Commit,
         CommitUnacknowledged, Abort
<1>12. ~CheckHead(s) /\ ~CheckTransient(s)
  BY <1>5, <1>8 DEF CheckHead, CheckTransient
<1>13. ~ResolveFrame(s)
  <2>1. SUFFICES ASSUME ResolveFrame(s)
                 PROVE  FALSE
    OBVIOUS
  <2>2. PICK r : r = [req[s] EXCEPT !.stored = TRUE]
    OBVIOUS
  <2>3. Goto(s, r, "resolveHead")
    BY <2>1, <2>2 DEF ResolveFrame
  <2>4. req'[s] = [r EXCEPT !.pc = "resolveHead"]
    BY <1>6, <2>3
  <2>5. req'[s].result = "none"
    BY <1>1, <2>2, <2>4 DEF Request
  <2>. QED  BY <2>5
<1>14. At(s, "resolveHead") /\ req[s].stored /\ ResolveHead(s)
  BY <1>11, <1>12, <1>13 DEF ResolveHead
<1>15. ~Committed(head, f)
  BY <1>9, <1>14 DEF ResolveHead
<1>16. ASSUME head.tick = f.tick
       PROVE  Committed(head, f)
  <2>1. head.hash = frames[head.tick].end /\ head.order = frames[head.tick].identity.next
    BY DEF IndInv, DocsInv, FrameChain
  <2>. QED  BY <1>16, <2>1 DEF DocOf, Committed
<1>. QED  BY <1>2, <1>15, <1>16

\* resolve_commit_status mistakes no stored frame for another's, nor for unknown,
\* unless the run has gone past it between the loss and the resolution's second read.
THEOREM RefusalsHonest == Spec => RefusedOnlyIfOvertaken
<1>. DEFINE Refused(s) ==
              /\ req[s].pc \in {"check", "transient", "resolveFrame", "resolveHead"}
              /\ At(s, "resolveHead") => req[s].stored
              /\ req[s].frame.tick \in DOMAIN frames /\ frames[req[s].frame.tick] = DocOf(req[s].frame)
              /\ req'[s].result \in {"CONCURRENT_MODIFICATION", "COMMIT_STATUS_UNKNOWN"}
<1>1. IndInv /\ [Next]_vars =>
          [\A s \in Steppers : Refused(s) => head.tick > req[s].frame.tick]_vars
  BY RefusalTrue
<1>. QED  BY <1>1, Invariance, PTL DEF Spec, RefusedOnlyIfOvertaken
=============================================================================
