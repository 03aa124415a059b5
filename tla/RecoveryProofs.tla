---------------------------- MODULE RecoveryProofs ----------------------------
(***************************************************************************)
(* Proofs about Recovery, for any number of step requests, rebuild tools,  *)
(* lost documents and bounds: the maintenance lease is exclusive and       *)
(* protects the documents, an invocation has one verdict, and all that     *)
(* TickStoreProofs says of the store holds beside the tools.               *)
(*                                                                         *)
(* IndInv of the store is kept by the tools because they never touch tick, *)
(* hash, order index, frames or events.  The lease needs RecInv: the       *)
(* operation ids of living and dead invocations are distinct, so a head    *)
(* that names one's own is held by no other.                               *)
(***************************************************************************)
EXTENDS Recovery, SerialProofs

\* What holds of an invocation: it has an id that was handed out, the lease is
\* its own wherever it relies on that, and it has no verdict before it failed or ended, and
\* no failed release before that.
ToolInv(i) ==
    /\ i.pc # "idle" => i.op \in 1..ops
    /\ i.pc \in {"readEvents", "swap", "release"} => head.maint /\ head.op = i.op
    /\ i.pc = "release" => head.rev = i.rev
    /\ i.pc \notin Ended /\ ~i.failed => \A r \in records : r.op # i.op
    /\ i.warned => i.failed

\* An operation id belongs to one invocation, even when that is dead.
Apart ==
    \A o, p \in Operators :
        tool[o].pc # "idle" /\ tool[p].pc # "idle" /\ tool[o].op = tool[p].op => o = p

\* The head is under maintenance for somebody.
LeaseNamed == head.maint <=> head.op # None

\* Verdicts are of invocations that were begun.
RecordsInv == OneVerdict /\ \A r \in records : r.op \in 1..ops

\* What the lease rests on, whatever the frames and the events are.
LeaseInv ==
    /\ RequestsInv
    /\ RecTypeOK
    /\ \A o \in Operators : ToolInv(tool[o])
    /\ Apart
    /\ LeaseNamed
    /\ RecordsInv

\* The inductive invariant.
RecInv == LeaseInv /\ IndInv

\* What LeaseProtects says of one step.
Protected ==
    head.maint =>
         /\ UNCHANGED <<frames, events>>
         /\ head'.maint => head'.op = head.op /\ head'.rev = head.rev
         /\ entities' # entities =>
              \E o \in Operators : ToolAt(o, "swap") /\ tool[o].op = head.op

Step == LeaseInv' /\ Protected

\* A step of a tool writes no history: of the head only the fields of the lease, and
\* otherwise only the projection.
ToolStep == Step /\ SameHistory /\ UNCHANGED req

-----------------------------------------------------------------------------
\* The documents.

\* The newest frame's document is there.
LEMMA LatestFrame ==
    ASSUME TypeOK
    PROVE  LatestTick \in Nat /\ frames[LatestTick].end \in Hash
<1>1. head.tick \in Nat /\ DOMAIN frames = 0..head.tick
  BY DEF TypeOK, RunHead
<1>2. head.tick \in DOMAIN frames /\ \A u \in DOMAIN frames : u <= head.tick
  BY <1>1
<1>3. LatestTick \in DOMAIN frames
  BY <1>2 DEF LatestTick
<1>4. frames[LatestTick] \in FrameDoc
  BY <1>3 DEF TypeOK
<1>. QED  BY <1>1, <1>3, <1>4 DEF FrameDoc

\* A head whose lease is taken, or given back.
Taken(h, op) ==
    [h EXCEPT !.maint = TRUE, !.op = op, !.status = "maintenance", !.rev = @ + 1]

LEMMA TakenType ==
    ASSUME NEW h \in RunHead, NEW op \in Nat
    PROVE  /\ Taken(h, op) \in RunHead /\ Taken(h, op).maint /\ Taken(h, op).op = op
           /\ Taken(h, op).tick = h.tick /\ Taken(h, op).hash = h.hash
           /\ Taken(h, op).order = h.order
<1>1. PICK n \in Nat : n = h.rev + 1
  BY DEF RunHead
<1>2. Taken(h, op) = [h EXCEPT !.maint = TRUE, !.op = op, !.status = "maintenance", !.rev = n]
  BY <1>1 DEF Taken
<1>. QED  BY <1>2 DEF RunHead, Statuses

GivenBack(h, failed) ==
    [h EXCEPT !.maint = FALSE, !.op = None, !.quar = failed,
              !.status = IF failed THEN "quarantined" ELSE "paused", !.rev = @ + 1]

LEMMA GivenBackType ==
    ASSUME NEW h \in RunHead, NEW failed \in BOOLEAN
    PROVE  /\ GivenBack(h, failed) \in RunHead /\ ~GivenBack(h, failed).maint
           /\ GivenBack(h, failed).op = None /\ GivenBack(h, failed).tick = h.tick
           /\ GivenBack(h, failed).hash = h.hash /\ GivenBack(h, failed).order = h.order
<1>1. PICK n \in Nat : n = h.rev + 1
  BY DEF RunHead
<1>2. PICK status \in Statuses : status = (IF failed THEN "quarantined" ELSE "paused")
  BY DEF Statuses
<1>3. GivenBack(h, failed) = [h EXCEPT !.maint = FALSE, !.op = None, !.quar = failed,
                                       !.status = status, !.rev = n]
  BY <1>1, <1>2 DEF GivenBack
<1>. QED  BY <1>3 DEF RunHead

\* Unless a request commits, a step of the requests leaves the lease alone; and a
\* request commits only when nobody holds it.
LEMMA RequestsLeaveLease ==
    ASSUME TypeOK, [Next]_vars
    PROVE  /\ head'.maint = head.maint /\ head'.op = head.op
           /\ head.maint => head'.rev = head.rev /\ UNCHANGED <<frames, events, entities>>
<1>1. head \in RunHead
  BY DEF TypeOK
<1>2. CASE UNCHANGED docs
  BY <1>2 DEF docs
<1>3. CASE Pause
  BY <1>1, <1>3 DEF Pause, RunHead
<1>4. ASSUME NEW s \in Steppers, WriteFrame(req[s].frame)
      PROVE  /\ head'.maint = head.maint /\ head'.op = head.op /\ ~head.maint
  BY <1>1, <1>4 DEF WriteFrame, HeadMatches, Blocked, RunHead
<1>. QED  BY <1>2, <1>3, <1>4, DocsSteps

-----------------------------------------------------------------------------
\* The tools.

\* An invocation moves on, without the lease, the ids or the records changing.
LEMMA ToolMoves ==
    ASSUME LeaseInv, NEW o \in Operators, NEW i \in Invocation,
           tool' = [tool EXCEPT ![o] = i],
           i.pc # "idle" => tool[o].pc # "idle" /\ i.op = tool[o].op,
           i.pc \notin Ended /\ ~i.failed => tool[o].pc \notin Ended /\ ~tool[o].failed,
           i.warned => i.failed,
           i.pc \in {"readEvents", "swap", "release"} => head.maint /\ head.op = i.op,
           i.pc = "release" => head.rev = i.rev,
           UNCHANGED <<world, head, frames, events, req, ops, records, damage>>,
           entities' \in View,
           entities' # entities => tool[o].pc = "swap" /\ tool[o].op = head.op
    PROVE  ToolStep
<1>1. SameHistory /\ UNCHANGED req /\ RequestsInv'
  BY SameHistoryKeeps DEF LeaseInv, RequestsInv, TypeOK, SameHistory
<1>2. tool \in [Operators -> Invocation]
  BY DEF LeaseInv, RecTypeOK
<1>3. RecTypeOK'
  BY <1>1, <1>2 DEF LeaseInv, RecTypeOK, RequestsInv
<1>4. tool'[o] = i /\ \A p \in Operators : p # o => tool'[p] = tool[p]
  BY <1>2
<1>5. ToolInv(i)'
  BY DEF LeaseInv, ToolInv, Ended
<1>6. ASSUME NEW p \in Operators
      PROVE  ToolInv(tool[p])'
  BY <1>4, <1>5 DEF LeaseInv, ToolInv
<1>7. Apart'
  BY <1>4 DEF LeaseInv, Apart
<1>8. LeaseNamed' /\ RecordsInv'
  BY DEF LeaseInv, LeaseNamed, RecordsInv, OneVerdict
<1>9. Protected
  BY DEF Protected, ToolAt
<1>. QED  BY <1>1, <1>3, <1>6, <1>7, <1>8, <1>9 DEF ToolStep, Step, LeaseInv

\* ToolGoto leaves the operator with an invocation at pc.
LEMMA ToolGotoMoves ==
    ASSUME NEW o \in Operators, NEW i \in Invocation, NEW pc \in ToolPoints, ToolGoto(o, i, pc)
    PROVE  \E j \in Invocation :
               /\ j.pc = pc /\ j.op = i.op /\ j.rev = i.rev /\ j.rebuilt = i.rebuilt
               /\ j.failed = i.failed /\ j.warned = i.warned
               /\ tool' = [tool EXCEPT ![o] = j]
<1>. DEFINE k == [i EXCEPT !.pc = pc]
<1>1. /\ k \in Invocation /\ k.pc = pc /\ k.op = i.op /\ k.rev = i.rev
      /\ k.rebuilt = i.rebuilt /\ k.failed = i.failed /\ k.warned = i.warned
  BY DEF Invocation
<1>2. tool' = [tool EXCEPT ![o] = k]
  BY DEF ToolGoto
<1>. HIDE DEF k
<1>. QED  BY <1>1, <1>2

LEMMA NoInvocationType ==
    /\ NoInvocation \in Invocation /\ NoInvocation.pc = "idle"
    /\ ~NoInvocation.failed /\ ~NoInvocation.warned
BY GenesisType DEF NoInvocation, Invocation, ToolPoints

\* The except branch begins, or an exception ends the tool.
LEMMA FailMoves ==
    ASSUME LeaseInv, NEW o \in Operators, Fail(o)
    PROVE  \E j \in Invocation :
               /\ j.pc = "releaseRead" /\ j.op = tool[o].op /\ j.failed
               /\ tool' = [tool EXCEPT ![o] = j]
<1>1. tool[o] \in Invocation
  BY DEF LeaseInv, RecTypeOK
<1>2. PICK k : k = [tool[o] EXCEPT !.failed = TRUE]
  OBVIOUS
<1>3. k \in Invocation /\ k.op = tool[o].op /\ k.failed
  BY <1>1, <1>2 DEF Invocation
<1>4. ToolGoto(o, k, "releaseRead")
  BY <1>2 DEF Fail
<1>. QED  BY <1>3, <1>4, ToolGotoMoves DEF ToolPoints

LEMMA RaiseMoves ==
    ASSUME LeaseInv, NEW o \in Operators, Raise(o)
    PROVE  \E j \in Invocation :
               /\ j.pc = "raised" /\ j.op = tool[o].op /\ ~j.failed /\ ~j.warned
               /\ tool' = [tool EXCEPT ![o] = j]
<1>1. tool[o].op \in Nat
  BY DEF LeaseInv, RecTypeOK, Invocation
<1>2. PICK k : k = [NoInvocation EXCEPT !.op = tool[o].op]
  OBVIOUS
<1>3. k \in Invocation /\ k.op = tool[o].op /\ ~k.failed /\ ~k.warned
  BY <1>1, <1>2, NoInvocationType DEF Invocation
<1>4. ToolGoto(o, k, "raised")
  BY <1>2 DEF Raise
<1>. QED  BY <1>3, <1>4, ToolGotoMoves DEF ToolPoints

\* A release that raises sends the tool into the except branch, or on to its record.
LEMMA ReleaseRaisesMoves ==
    ASSUME LeaseInv, NEW o \in Operators, ReleaseRaises(o)
    PROVE  \E j \in Invocation :
               /\ j.op = tool[o].op /\ j.failed
               /\ IF tool[o].failed THEN j.pc = "record" /\ j.warned ELSE j.pc = "releaseRead"
               /\ tool' = [tool EXCEPT ![o] = j]
<1>1. tool[o] \in Invocation
  BY DEF LeaseInv, RecTypeOK
<1>2. CASE tool[o].failed
  <2>1. PICK k : k = [tool[o] EXCEPT !.warned = TRUE]
    OBVIOUS
  <2>2. k \in Invocation /\ k.op = tool[o].op /\ k.failed = TRUE /\ k.warned = TRUE
    BY <1>1, <1>2, <2>1 DEF Invocation
  <2>3. ToolGoto(o, k, "record")
    BY <1>2, <2>1 DEF ReleaseRaises
  <2>4. PICK j \in Invocation :
               /\ j.pc = "record" /\ j.op = k.op /\ j.rev = k.rev /\ j.rebuilt = k.rebuilt
               /\ j.failed = k.failed /\ j.warned = k.warned
               /\ tool' = [tool EXCEPT ![o] = j]
    BY <2>2, <2>3, ToolGotoMoves DEF ToolPoints
  <2>5. j.failed /\ j.warned
    BY <2>2, <2>4
  <2>. QED  BY <1>2, <2>2, <2>4, <2>5
<1>3. CASE ~tool[o].failed
  BY <1>3, FailMoves DEF ReleaseRaises
<1>. QED  BY <1>2, <1>3

\* StartTool hands out an id that was never used.
LEMMA StartToolStep ==
    ASSUME LeaseInv, NEW o \in Operators, StartTool(o)
    PROVE  ToolStep
<1>1. tool \in [Operators -> Invocation] /\ ops \in 0..MaxOps /\ ops < MaxOps /\ MaxOps \in Nat
  BY RecoveryAssumption DEF LeaseInv, RecTypeOK, StartTool
<1>2. PICK i \in Invocation : /\ i.pc = "readFrame" /\ i.op = ops + 1 /\ ~i.warned
                              /\ tool' = [tool EXCEPT ![o] = i]
  <2>. DEFINE j == [NoInvocation EXCEPT !.op = ops + 1]
  <2>1. j \in Invocation /\ j.op = ops + 1 /\ ~j.warned
    BY <1>1, NoInvocationType DEF Invocation
  <2>2. ToolGoto(o, j, "readFrame")
    BY DEF StartTool
  <2>. HIDE DEF j
  <2>. QED  BY <2>1, <2>2, ToolGotoMoves DEF ToolPoints
<1>3. ops' = ops + 1 /\ UNCHANGED <<vars, records, damage>>
  BY DEF StartTool
<1>4. SameHistory /\ UNCHANGED req /\ RequestsInv'
  BY <1>3, SameHistoryKeeps DEF LeaseInv, RequestsInv, TypeOK, SameHistory, vars, docs
<1>5. RecTypeOK'
  BY <1>1, <1>2, <1>3, <1>4 DEF LeaseInv, RecTypeOK, RequestsInv
<1>6. tool'[o] = i /\ \A p \in Operators : p # o => tool'[p] = tool[p]
  BY <1>1, <1>2
<1>7. \A n \in 1..ops : n \in 1..ops' /\ n # ops'
  BY <1>1, <1>3
<1>8. ops' \in 1..ops'
  BY <1>1, <1>3
<1>9. \A r \in records : r.op # ops'
  BY <1>7 DEF LeaseInv, RecordsInv
<1>10. ToolInv(i)'
  BY <1>2, <1>3, <1>8, <1>9 DEF ToolInv
<1>11. ASSUME NEW p \in Operators
       PROVE  ToolInv(tool[p])'
  <2>1. CASE p = o
    BY <1>6, <1>10, <2>1 DEF ToolInv
  <2>2. CASE p # o
    BY <1>3, <1>6, <1>7, <2>2 DEF LeaseInv, ToolInv, vars, docs
  <2>. QED  BY <2>1, <2>2
<1>12. ASSUME NEW p \in Operators, p # o
       PROVE  tool'[p].pc # "idle" => tool'[p].op # ops'
  BY <1>6, <1>7, <1>12 DEF LeaseInv, ToolInv
<1>13. Apart'
  BY <1>2, <1>3, <1>6, <1>12 DEF LeaseInv, Apart
<1>14. LeaseNamed' /\ RecordsInv'
  BY <1>3, <1>7 DEF LeaseInv, LeaseNamed, RecordsInv, OneVerdict, vars, docs
<1>15. Protected
  BY <1>3 DEF Protected, vars, docs
<1>. QED  BY <1>4, <1>5, <1>11, <1>13, <1>14, <1>15 DEF ToolStep, Step, LeaseInv

\* The steps of an invocation that write nothing, and its end by a kill.
LEMMA ReadStep ==
    ASSUME LeaseInv, NEW o \in Operators, UNCHANGED <<vars, ops, records, damage>>,
           \/ ReadFrame(o) \/ RaiseBeforeLease(o) \/ ReadEvents(o) \/ AbortSwap(o)
           \/ ReadForRelease(o) \/ FailRelease(o) \/ FailToRecord(o) \/ Die(o)
           \/ tool[o].pc \notin Ended /\ Raise(o)
    PROVE  ToolStep
<1>. DEFINE i == tool[o]
<1>1. i \in Invocation /\ ToolInv(i) /\ (i.warned => i.failed)
  BY DEF LeaseInv, RecTypeOK, ToolInv
<1>2. entities \in View /\ events \in SUBSET Event /\ TypeOK
  BY DEF LeaseInv, RequestsInv, TypeOK
<1>3. ASSUME NEW j \in Invocation, tool' = [tool EXCEPT ![o] = j],
             j.op = i.op, j.pc # "idle", i.pc # "idle",
             j.pc \notin Ended /\ ~j.failed => i.pc \notin Ended /\ ~i.failed,
             j.warned => j.failed,
             j.pc \in {"readEvents", "swap", "release"} => head.maint /\ head.op = i.op,
             j.pc = "release" => head.rev = j.rev
      PROVE  ToolStep
  BY <1>2, <1>3, ToolMoves DEF vars, docs
<1>4. CASE i.pc # "idle" /\ Fail(o)
  BY <1>3, <1>4, FailMoves
<1>5. CASE i.pc # "idle" /\ Raise(o)
  BY <1>3, <1>5, RaiseMoves DEF Ended
<1>6. CASE i.pc # "idle" /\ ReleaseRaises(o)
  <2>1. PICK j \in Invocation :
               /\ j.op = i.op /\ j.failed
               /\ IF i.failed THEN j.pc = "record" /\ j.warned ELSE j.pc = "releaseRead"
               /\ tool' = [tool EXCEPT ![o] = j]
    BY <1>6, ReleaseRaisesMoves
  <2>. QED  BY <1>3, <1>6, <2>1
<1>7. CASE ReadFrame(o)
  <2>. DEFINE k == [i EXCEPT !.expected = frames[LatestTick].end, !.tick = LatestTick]
  <2>1. k \in Invocation /\ k.op = i.op /\ k.failed = i.failed /\ k.warned = i.warned
    BY <1>1, <1>2, LatestFrame DEF Invocation
  <2>2. ToolGoto(o, k, "acquireRead") /\ i.pc = "readFrame"
    BY <1>7 DEF ReadFrame, ToolAt
  <2>. HIDE DEF k
  <2>. QED  BY <1>1, <1>3, <2>1, <2>2, ToolGotoMoves DEF ToolPoints, Ended
<1>8. CASE ReadEvents(o)
  <2>1. i.pc = "readEvents" /\ head.maint /\ head.op = i.op
    BY <1>1, <1>8 DEF ReadEvents, ToolAt, ToolInv
  <2>2. PICK k : k = [i EXCEPT !.rebuilt = Replay(events)]
    OBVIOUS
  <2>3. k \in Invocation /\ k.op = i.op /\ k.failed = i.failed /\ k.warned = i.warned
    BY <1>1, <1>2, <2>2, ReplayType DEF Invocation
  <2>4. ToolGoto(o, k, "swap") \/ Fail(o)
    BY <1>8, <2>2 DEF ReadEvents
  <2>5. CASE ToolGoto(o, k, "swap")
    BY <1>1, <1>3, <2>1, <2>3, <2>5, ToolGotoMoves DEF ToolPoints, Ended
  <2>. QED  BY <1>4, <2>1, <2>4, <2>5
<1>9. CASE ReadForRelease(o)
  <2>1. i.pc = "releaseRead"
    BY <1>9 DEF ReadForRelease, ToolAt
  <2>2. CASE head.op = i.op /\ ToolGoto(o, [i EXCEPT !.rev = head.rev], "release")
    <3>1. head.rev \in Nat /\ None \notin Nat /\ i.op \in Nat
      BY <1>1, <1>2, StoreAssumption DEF TypeOK, RunHead, Invocation
    <3>2. PICK k : k = [i EXCEPT !.rev = head.rev]
      OBVIOUS
    <3>3. k \in Invocation /\ k.op = i.op /\ k.rev = head.rev /\ k.failed = i.failed /\ k.warned = i.warned
      BY <1>1, <3>1, <3>2 DEF Invocation
    <3>4. ToolGoto(o, k, "release")
      BY <2>2, <3>2
    <3>5. head.maint
      BY <2>2, <3>1 DEF LeaseInv, LeaseNamed
    <3>. QED  BY <1>1, <1>3, <2>1, <2>2, <3>3, <3>4, <3>5, ToolGotoMoves DEF ToolPoints, Ended
  <2>. QED  BY <1>6, <1>9, <2>1, <2>2 DEF ReadForRelease
<1>10. CASE Die(o)
  <2>1. PICK k : k = [NoInvocation EXCEPT !.op = i.op]
    OBVIOUS
  <2>2. k \in Invocation /\ k.op = i.op /\ ~k.warned
    BY <1>1, <2>1, NoInvocationType DEF Invocation
  <2>3. ToolGoto(o, k, "dead") /\ i.pc # "idle"
    BY <1>10, <2>1 DEF Die, Ended
  <2>. QED  BY <1>3, <2>2, <2>3, ToolGotoMoves DEF ToolPoints, Ended
<1>11. RaiseBeforeLease(o) => i.pc # "idle" /\ Raise(o)
  BY DEF RaiseBeforeLease
<1>12. AbortSwap(o) \/ FailToRecord(o) => i.pc # "idle" /\ Fail(o)
  BY DEF AbortSwap, FailToRecord, ToolAt
<1>13. FailRelease(o) => i.pc # "idle" /\ ReleaseRaises(o)
  BY DEF FailRelease, ToolAt
<1>14. i.pc \notin Ended => i.pc # "idle"
  BY DEF Ended
<1>. QED  BY <1>4, <1>5, <1>6, <1>7, <1>8, <1>9, <1>10, <1>11, <1>12, <1>13, <1>14

\* The head goes on without the lease's holder being disturbed: only the fields of
\* the lease change, and they change for the invocation of o.
LEMMA LeaseMoves ==
    ASSUME LeaseInv, NEW o \in Operators, NEW i \in Invocation,
           tool' = [tool EXCEPT ![o] = i],
           tool[o].pc # "idle", i.op = tool[o].op, i.pc \notin {"idle", "release"},
           i.pc \notin Ended /\ ~i.failed => tool[o].pc \notin Ended /\ ~tool[o].failed,
           i.warned => i.failed,
           i.pc \in {"readEvents", "swap"} => head'.maint /\ head'.op = i.op,
           ~head.maint \/ head.op = tool[o].op,
           head' \in RunHead, head'.tick = head.tick, head'.hash = head.hash,
           head'.order = head.order, head'.maint <=> head'.op # None,
           head.maint => ~head'.maint,
           UNCHANGED <<world, frames, events, entities, req, ops, records, damage>>
    PROVE  ToolStep
<1>1. SameHistory /\ UNCHANGED req /\ RequestsInv'
  BY SameHistoryKeeps DEF LeaseInv, RequestsInv, TypeOK, SameHistory
<1>2. tool \in [Operators -> Invocation]
  BY DEF LeaseInv, RecTypeOK
<1>3. RecTypeOK'
  BY <1>1, <1>2 DEF LeaseInv, RecTypeOK, RequestsInv
<1>4. tool'[o] = i /\ \A p \in Operators : p # o => tool'[p] = tool[p]
  BY <1>2
<1>5. ToolInv(tool[o])'
  BY <1>4 DEF LeaseInv, ToolInv
<1>6. ASSUME NEW p \in Operators, p # o
      PROVE  ToolInv(tool[p])'
  <2>1. tool[p].pc \notin {"readEvents", "swap", "release"}
    BY <1>6 DEF LeaseInv, ToolInv, Apart
  <2>. QED  BY <1>4, <1>6, <2>1 DEF LeaseInv, ToolInv
<1>7. Apart'
  BY <1>4 DEF LeaseInv, Apart
<1>8. LeaseNamed' /\ RecordsInv'
  BY DEF LeaseInv, LeaseNamed, RecordsInv, OneVerdict
<1>9. Protected
  BY DEF Protected
<1>. QED  BY <1>1, <1>3, <1>5, <1>6, <1>7, <1>8, <1>9 DEF ToolStep, Step, LeaseInv

\* acquire_maintenance and release_maintenance write the head, acknowledged or not.
LEMMA LeaseStep ==
    ASSUME LeaseInv, NEW o \in Operators,
           \/ Acquire(o) \/ AcquireUnacknowledged(o) \/ Release(o)
           \/ FailRelease(o) /\ GiveBack(o)
    PROVE  ToolStep
<1>. DEFINE i == tool[o]
<1>1. /\ i \in Invocation /\ i.op \in Nat /\ None \notin Nat /\ i.failed \in BOOLEAN
      /\ i.warned => i.failed
  BY StoreAssumption DEF LeaseInv, RecTypeOK, Invocation, ToolInv
<1>2. head \in RunHead
  BY DEF LeaseInv, RequestsInv, TypeOK
<1>3. CASE Acquire(o) \/ AcquireUnacknowledged(o)
  <2>1. /\ i.pc = "acquire" /\ ~head.maint /\ head' = Taken(head, i.op)
        /\ UNCHANGED <<world, frames, events, entities, req, ops, records, damage>>
    BY <1>3 DEF Acquire, AcquireUnacknowledged, TakeLease, ToolAt, LeaseFree, Taken
  <2>2. /\ head' \in RunHead /\ head'.maint /\ head'.op = i.op
        /\ head'.tick = head.tick /\ head'.hash = head.hash /\ head'.order = head.order
    BY <1>1, <1>2, <2>1, TakenType
  <2>3. PICK j \in Invocation : /\ \/ /\ j.pc = "readEvents"
                                      /\ j.failed = i.failed /\ j.warned = i.warned
                                   \/ j.pc = "raised" /\ ~j.warned
                                /\ j.op = i.op /\ tool' = [tool EXCEPT ![o] = j]
    BY <1>1, <1>3, ToolGotoMoves, RaiseMoves DEF Acquire, AcquireUnacknowledged, ToolPoints
  <2>. QED  BY <1>1, <2>1, <2>2, <2>3, LeaseMoves DEF Ended
<1>4. CASE Release(o) \/ (FailRelease(o) /\ GiveBack(o))
  <2>1. /\ i.pc = "release" /\ head.op = i.op /\ head' = GivenBack(head, i.failed)
        /\ UNCHANGED <<world, frames, events, entities, req, ops, records, damage>>
    BY <1>4 DEF Release, FailRelease, GiveBack, ToolAt, GivenBack
  <2>2. /\ head' \in RunHead /\ ~head'.maint /\ head'.op = None
        /\ head'.tick = head.tick /\ head'.hash = head.hash /\ head'.order = head.order
    BY <1>1, <1>2, <2>1, GivenBackType
  <2>3. PICK j \in Invocation : /\ j.pc \in {"record", "releaseRead"}
                                /\ (j.failed = i.failed /\ j.warned = i.warned) \/ j.failed
                                /\ j.op = i.op /\ tool' = [tool EXCEPT ![o] = j]
    <3>1. CASE Release(o)
      BY <1>1, <3>1, ToolGotoMoves DEF Release, ToolPoints
    <3>2. CASE FailRelease(o)
      BY <3>2, ReleaseRaisesMoves DEF FailRelease
    <3>. QED  BY <1>4, <3>1, <3>2
  <2>. QED  BY <1>1, <2>1, <2>2, <2>3, LeaseMoves DEF Ended
<1>. QED  BY <1>3, <1>4

\* The swap of the projection, acknowledged or not.
LEMMA SwapStep ==
    ASSUME LeaseInv, NEW o \in Operators, Swap(o)
    PROVE  ToolStep
<1>. DEFINE i == tool[o]
<1>1. i \in Invocation /\ (i.warned => i.failed)
  BY DEF LeaseInv, RecTypeOK, ToolInv
<1>2. /\ i.pc = "swap" /\ head.op = i.op /\ entities' = i.rebuilt
      /\ UNCHANGED <<world, head, frames, events, req, ops, records, damage>>
  BY DEF Swap, ToolAt
<1>3. entities' \in View
  BY <1>1, <1>2 DEF Invocation
<1>4. PICK j \in Invocation : /\ j.pc = "releaseRead" /\ j.op = i.op
                              /\ (j.failed = i.failed /\ j.warned = i.warned) \/ j.failed
                              /\ tool' = [tool EXCEPT ![o] = j]
  BY <1>1, ToolGotoMoves, FailMoves DEF Swap, ToolPoints
<1>. QED  BY <1>1, <1>2, <1>3, <1>4, ToolMoves DEF Ended

\* An invocation writes its verdict.
LEMMA VerdictStep ==
    ASSUME LeaseInv, NEW o \in Operators, NEW result \in {"success", "failed"},
           NEW j \in Invocation, tool' = [tool EXCEPT ![o] = j],
           j.pc = "idle" \/ j.op = tool[o].op, j.warned => j.failed,
           j.pc \in Ended \/ (j.pc = "releaseRead" /\ j.failed),
           tool[o].pc \notin Ended, Unrecorded(o),
           Report(o, result), UNCHANGED <<vars, ops, damage>>
    PROVE  ToolStep
<1>. DEFINE i == tool[o]
<1>1. tool \in [Operators -> Invocation] /\ i \in Invocation
  BY DEF LeaseInv, RecTypeOK
<1>2. PICK new : new = [op |-> i.op, result |-> result]
  OBVIOUS
<1>3. new \in Record /\ new.op = i.op /\ records' = records \cup {new}
  BY <1>1, <1>2 DEF Record, Invocation, Report
<1>4. i.op \in 1..ops /\ \A r \in records : r.op # i.op
  BY DEF LeaseInv, ToolInv, Unrecorded, Ended
<1>5. /\ tool'[o] = j /\ tool' \in [Operators -> Invocation]
      /\ \A p \in Operators : p # o => tool'[p] = tool[p]
  BY <1>1
<1>6. SameHistory /\ UNCHANGED req /\ RequestsInv'
  BY SameHistoryKeeps DEF LeaseInv, RequestsInv, TypeOK, SameHistory, vars, docs
<1>7. RecTypeOK'
  BY <1>3, <1>5, <1>6 DEF LeaseInv, RecTypeOK, RequestsInv
<1>8. ASSUME NEW p \in Operators
      PROVE  ToolInv(tool[p])'
  <2>1. CASE p = o
    <3>1. j.pc \notin {"readEvents", "swap", "release"}
      BY DEF Ended
    <3>. QED  BY <1>4, <1>5, <2>1, <3>1 DEF ToolInv
  <2>2. CASE p # o
    <3>1. tool[p].pc # "idle" => tool[p].op # i.op
      BY <2>2 DEF LeaseInv, Apart, Ended
    <3>2. tool[p].pc \notin Ended => tool[p].pc # "idle"
      BY DEF Ended
    <3>. QED  BY <1>3, <1>5, <2>2, <3>1, <3>2 DEF LeaseInv, ToolInv, vars, docs
  <2>. QED  BY <2>1, <2>2
<1>9. Apart'
  BY <1>5 DEF LeaseInv, Apart, Ended
<1>10. LeaseNamed'
  BY DEF LeaseInv, LeaseNamed, vars, docs
<1>11. RecordsInv'
  BY <1>3, <1>4 DEF LeaseInv, RecordsInv, OneVerdict
<1>12. Protected
  BY DEF Protected, vars, docs
<1>. QED  BY <1>6, <1>7, <1>8, <1>9, <1>10, <1>11, <1>12 DEF ToolStep, Step, LeaseInv

\* A failure is recorded, or its record raises.
LEMMA FailureStep ==
    ASSUME LeaseInv, NEW o \in Operators, tool[o].pc \notin Ended, ReportFailure(o),
           UNCHANGED <<vars, ops, damage>>
    PROVE  ToolStep
<1>1. CASE records' = records /\ Raise(o)
  BY <1>1, ReadStep
<1>2. CASE Unrecorded(o) /\ Report(o, "failed") /\ Raise(o)
  BY <1>2, RaiseMoves, VerdictStep DEF Ended
<1>3. CASE Unrecorded(o) /\ Report(o, "failed") /\ Exit(o)
  BY <1>3, NoInvocationType, VerdictStep DEF Ended, Exit
<1>4. CASE Unrecorded(o) /\ Report(o, "failed") /\ ToolGoto(o, tool[o], "warned")
  <2>1. tool[o] \in Invocation /\ (tool[o].warned => tool[o].failed)
    BY DEF LeaseInv, RecTypeOK, ToolInv
  <2>2. PICK j \in Invocation : /\ j.pc = "warned" /\ j.op = tool[o].op
                                /\ j.failed = tool[o].failed /\ j.warned = tool[o].warned
                                /\ tool' = [tool EXCEPT ![o] = j]
    BY <1>4, <2>1, ToolGotoMoves DEF ToolPoints
  <2>. QED  BY <1>4, <2>1, <2>2, VerdictStep DEF Ended
<1>. QED  BY <1>1, <1>2, <1>3, <1>4 DEF ReportFailure

\* The lease is refused, or the verdict written.
LEMMA RefusedStep ==
    ASSUME LeaseInv, NEW o \in Operators,
           ReadForAcquire(o) \/ LoseAcquire(o) \/ WriteRecord(o) \/ FailToRecord(o)
    PROVE  ToolStep
<1>. DEFINE i == tool[o]
<1>1. i \in Invocation /\ i.failed \in BOOLEAN /\ ToolInv(i) /\ (i.warned => i.failed)
  BY DEF LeaseInv, RecTypeOK, Invocation, ToolInv
<1>2. CASE LoseAcquire(o)
  BY <1>2, FailureStep DEF LoseAcquire, ToolAt, Ended
<1>3. CASE WriteRecord(o) /\ i.failed
  BY <1>3, FailureStep DEF WriteRecord, ToolAt, Ended
<1>4. CASE (WriteRecord(o) \/ FailToRecord(o)) /\ i.pc = "record" /\ ~i.failed
  <2>1. Unrecorded(o) /\ i.pc \notin Ended
    BY <1>1, <1>4 DEF ToolInv, Unrecorded, Ended
  <2>2. CASE WriteRecord(o)
    BY <1>4, <2>1, <2>2, NoInvocationType, VerdictStep DEF WriteRecord, Exit, Ended
  <2>3. CASE FailToRecord(o) /\ Report(o, "success")
    BY <1>4, <2>1, <2>3, FailMoves, VerdictStep DEF FailToRecord
  <2>4. CASE FailToRecord(o) /\ UNCHANGED records
    BY <2>4, ReadStep DEF FailToRecord
  <2>. QED  BY <1>4, <2>2, <2>3, <2>4 DEF FailToRecord
<1>5. CASE ReadForAcquire(o)
  <2>1. /\ i.pc = "acquireRead" /\ i.pc \notin Ended /\ UNCHANGED <<vars, ops, damage>>
        /\ head.rev \in Nat /\ entities \in View
    BY <1>5 DEF ReadForAcquire, ToolAt, Ended, LeaseInv, RequestsInv, TypeOK, RunHead
  <2>2. CASE ReportFailure(o)
    BY <2>1, <2>2, FailureStep
  <2>3. CASE ToolGoto(o, [i EXCEPT !.rev = head.rev], "acquire") /\ UNCHANGED records
    <3>1. PICK k : k = [i EXCEPT !.rev = head.rev]
      OBVIOUS
    <3>2. k \in Invocation /\ k.op = i.op /\ k.failed = i.failed /\ k.warned = i.warned
      BY <1>1, <2>1, <3>1 DEF Invocation
    <3>3. ToolGoto(o, k, "acquire")
      BY <2>3, <3>1
    <3>4. PICK j \in Invocation : /\ j.pc = "acquire" /\ j.op = i.op
                                  /\ j.failed = i.failed /\ j.warned = i.warned
                                  /\ tool' = [tool EXCEPT ![o] = j]
      BY <3>2, <3>3, ToolGotoMoves DEF ToolPoints
    <3>. QED  BY <1>1, <2>1, <2>3, <3>2, <3>4, ToolMoves DEF vars, docs, Ended
  <2>. QED  BY <1>5, <2>2, <2>3 DEF ReadForAcquire
<1>. QED  BY <1>2, <1>3, <1>4, <1>5 DEF WriteRecord, FailToRecord, ToolAt

-----------------------------------------------------------------------------
\* The environment.

\* Requests and the store's own steps.
LEMMA RequestStepBesideTools ==
    ASSUME LeaseInv, [Next]_vars, UNCHANGED recVars
    PROVE  Step
<1>1. RequestsInv' /\ TypeOK'
  BY NextRequestsInv DEF LeaseInv, RequestsInv
<1>2. /\ head'.maint = head.maint /\ head'.op = head.op
      /\ head.maint => head'.rev = head.rev /\ UNCHANGED <<frames, events, entities>>
  BY RequestsLeaveLease DEF LeaseInv, RequestsInv
<1>3. RecTypeOK'
  BY <1>1 DEF LeaseInv, RecTypeOK, recVars
<1>4. ASSUME NEW o \in Operators
      PROVE  ToolInv(tool[o])'
  BY <1>2 DEF LeaseInv, ToolInv, recVars
<1>5. Apart' /\ LeaseNamed' /\ RecordsInv'
  BY <1>2 DEF LeaseInv, Apart, LeaseNamed, RecordsInv, OneVerdict, recVars
<1>6. Protected
  BY <1>2 DEF Protected
<1>. QED  BY <1>1, <1>3, <1>4, <1>5, <1>6 DEF Step, LeaseInv

\* An entity document is lost.
LEMMA DamageStep ==
    ASSUME LeaseInv, NEW e \in Entities, Damage(e)
    PROVE  ToolStep
<1>1. entities \in View /\ head \in RunHead
  BY DEF LeaseInv, RequestsInv, TypeOK
<1>2. entities' \in View
  BY <1>1 DEF Damage, View
<1>3. SameHistory /\ UNCHANGED req /\ RequestsInv'
  BY <1>2, SameHistoryKeeps DEF Damage, LeaseInv, RequestsInv, TypeOK, SameHistory
<1>4. damage' \in 0..MaxDamage
  BY RecoveryAssumption DEF Damage, LeaseInv, RecTypeOK
<1>5. RecTypeOK'
  BY <1>3, <1>4 DEF Damage, LeaseInv, RecTypeOK, RequestsInv
<1>6. ASSUME NEW o \in Operators
      PROVE  ToolInv(tool[o])'
  BY DEF Damage, LeaseInv, ToolInv
<1>7. Apart' /\ LeaseNamed' /\ RecordsInv' /\ Protected
  BY DEF Damage, LeaseInv, Apart, LeaseNamed, RecordsInv, OneVerdict, Protected
<1>. QED  BY <1>3, <1>5, <1>6, <1>7 DEF ToolStep, Step, LeaseInv

-----------------------------------------------------------------------------
LEMMA RecInitInv == RecInit => RecInv
<1>. SUFFICES ASSUME RecInit
              PROVE  RecInv
  OBVIOUS
<1>1. IndInv /\ RequestsInv
  BY InitIndInv DEF RecInit, IndInv
<1>2. RecTypeOK
  BY <1>1, NoInvocationType, RecoveryAssumption DEF RecInit, RecTypeOK, RequestsInv
<1>3. \A o \in Operators : tool[o].pc = "idle" /\ ~tool[o].warned
  BY NoInvocationType DEF RecInit
<1>4. (\A o \in Operators : ToolInv(tool[o])) /\ Apart
  BY <1>3 DEF ToolInv, Apart, Ended
<1>5. LeaseNamed /\ RecordsInv
  BY DEF RecInit, Init, GenesisHead, LeaseNamed, RecordsInv, OneVerdict
<1>. QED  BY <1>1, <1>2, <1>4, <1>5 DEF RecInv, LeaseInv

LEMMA ContinueToolStep ==
    ASSUME LeaseInv, NEW o \in Operators, ContinueTool(o) \/ Die(o)
    PROVE  ToolStep
<1>1. CASE \/ ReadFrame(o) \/ RaiseBeforeLease(o) \/ ReadEvents(o) \/ AbortSwap(o)
           \/ ReadForRelease(o) \/ Die(o)
  <2>1. UNCHANGED <<vars, ops, records, damage>>
    BY <1>1 DEF ReadFrame, RaiseBeforeLease, ReadEvents, AbortSwap, ReadForRelease, Die
  <2>. QED  BY <1>1, <2>1, ReadStep
<1>2. CASE Acquire(o) \/ AcquireUnacknowledged(o) \/ Release(o)
  BY <1>2, LeaseStep
<1>3. CASE FailRelease(o)
  <2>1. CASE GiveBack(o)
    BY <1>3, <2>1, LeaseStep
  <2>2. CASE UNCHANGED vars
    <3>1. UNCHANGED <<vars, ops, records, damage>>
      BY <1>3, <2>2 DEF FailRelease
    <3>. QED  BY <1>3, <3>1, ReadStep
  <2>. QED  BY <1>3, <2>1, <2>2 DEF FailRelease
<1>4. CASE Swap(o)
  BY <1>4, SwapStep
<1>5. CASE ReadForAcquire(o) \/ LoseAcquire(o) \/ WriteRecord(o) \/ FailToRecord(o)
  BY <1>5, RefusedStep
<1>. QED  BY <1>1, <1>2, <1>3, <1>4, <1>5 DEF ContinueTool

LEMMA ToolNextStep ==
    ASSUME LeaseInv,
           \/ \E o \in Operators : StartTool(o) \/ ContinueTool(o) \/ Die(o)
           \/ \E e \in Entities : Damage(e)
    PROVE  ToolStep
<1>1. ASSUME NEW o \in Operators, StartTool(o) \/ ContinueTool(o) \/ Die(o)
      PROVE  ToolStep
  BY <1>1, StartToolStep, ContinueToolStep
<1>2. ASSUME NEW e \in Entities, Damage(e)
      PROVE  ToolStep
  BY <1>2, DamageStep
<1>. QED  BY <1>1, <1>2

\* The lease is kept whatever the frames and the events are; the store's invariant
\* is kept by the tools, which write no history.
LEMMA RecNextStep ==
    LeaseInv /\ [RecNext]_allVars => Step /\ (IndInv => IndInv')
<1>. SUFFICES ASSUME LeaseInv, [RecNext]_allVars
              PROVE  Step /\ (IndInv => IndInv')
  OBVIOUS
<1>1. CASE [Next]_vars /\ UNCHANGED recVars
  BY <1>1, RequestStepBesideTools, NextIndInv
<1>2. CASE ToolStep
  BY <1>2, SameHistoryKeeps DEF ToolStep, LeaseInv, RequestsInv, IndInv
<1>. QED  BY <1>1, <1>2, ToolNextStep DEF RecNext, allVars

\* The inductive invariant holds, however tools, requests and kills interleave.
THEOREM RecInvariance == RecSpec => []RecInv
<1>1. RecInv /\ [RecNext]_allVars => RecInv'
  BY RecNextStep DEF Step, RecInv
<1>. QED  BY <1>1, RecInitInv, PTL DEF RecSpec

\* The recovery documents and the tools keep their types.
THEOREM RecTypeCorrect == RecSpec => []RecTypeOK
<1>1. RecInv => RecTypeOK
  BY DEF RecInv, LeaseInv
<1>. QED  BY <1>1, RecInvariance, PTL

\* acquire_maintenance's read and compare-and-set let one tool in: whoever rebuilds
\* or gives back holds the lease, and no release of a holder loses its race.
THEOREM LeaseCorrect == RecSpec => []LeaseHeld
<1>1. RecInv => LeaseHeld
  BY DEF RecInv, LeaseInv, ToolInv, LeaseHeld, ToolAt
<1>. QED  BY <1>1, RecInvariance, PTL

\* recovery_records never holds two verdicts on an invocation, although its except
\* branch may run after the lease was given back.
THEOREM VerdictCorrect == RecSpec => []OneVerdict
<1>1. RecInv => OneVerdict
  BY DEF RecInv, LeaseInv, RecordsInv
<1>. QED  BY <1>1, RecInvariance, PTL

\* Under the lease no request commits, the lease changes hands only by being given
\* back, and only its holder writes entities.
THEOREM LeaseProtectsStore == RecSpec => LeaseProtects
<1>1. RecInv /\ [RecNext]_allVars => [Protected]_allVars
  BY RecNextStep DEF Step, RecInv
<1>2. LeaseProtects <=> [][Protected]_allVars
  BY PTL DEF LeaseProtects, Protected
<1>. QED  BY <1>1, <1>2, RecInvariance, PTL DEF RecSpec

\* What TickStoreProofs shows of the store alone holds beside the tools, killed or
\* not, and whatever documents are lost: they touch no frame, event, hash or order.
THEOREM StoreBesideTools ==
    RecSpec => [](FrameChain /\ FramesAtomic /\ OrderIndexes /\ ReportedFramesDurable)
<1>1. RecInv => FrameChain /\ FramesAtomic /\ OrderIndexes /\ ReportedFramesDurable
  BY DEF RecInv, IndInv, DocsInv
<1>. QED  BY <1>1, RecInvariance, PTL

-----------------------------------------------------------------------------
\* What step requests are told beside the tools.

\* A tool writes the head only to take the lease and to give it back.
LEMMA HeadOfTool ==
    ASSUME NEW o \in Operators, StartTool(o) \/ ContinueTool(o) \/ Die(o)
    PROVE  \/ head' = head \/ GiveBack(o)
           \/ TakeLease(o) /\ tool[o].pc = "acquire"
BY DEF StartTool, Die, ContinueTool, ReadFrame, ReadForAcquire, Acquire, AcquireUnacknowledged,
       RaiseBeforeLease, LoseAcquire, ReadEvents, Swap, AbortSwap, ReadForRelease, Release,
       FailRelease, WriteRecord, FailToRecord, ToolAt, vars, docs

\* Whatever the tools do, the revision says whether the history is another.
LEMMA ToolGuards ==
    ASSUME LeaseInv,
           \/ \E o \in Operators : StartTool(o) \/ ContinueTool(o) \/ Die(o)
           \/ \E e \in Entities : Damage(e)
    PROVE  RevisionGuards /\ UNCHANGED req /\ head' \in RunHead
<1>1. SameHistory /\ UNCHANGED req /\ head \in RunHead /\ head.rev \in Nat
  BY ToolNextStep DEF ToolStep, LeaseInv, RequestsInv, TypeOK, RunHead
<1>2. head'.rev >= head.rev
  <2>1. CASE head' = head
    BY <1>1, <2>1
  <2>2. ASSUME NEW o \in Operators, GiveBack(o) \/ TakeLease(o)
        PROVE  head'.rev >= head.rev
    <3>1. PICK n \in Nat : n = head.rev + 1
      BY <1>1
    <3>2. head'.rev = n
      BY <1>1, <2>2, <3>1 DEF GiveBack, TakeLease, RunHead
    <3>. QED  BY <1>1, <3>1, <3>2
  <2>. QED  BY <2>1, <2>2, HeadOfTool DEF Damage
<1>. QED  BY <1>1, <1>2 DEF SameHistory, RevisionGuards, SameRun

\* What the inspections have seen is kept beside the tools.
LEMMA RecNextSeen == LeaseInv /\ SeenInv /\ [RecNext]_allVars => SeenInv'
<1>. SUFFICES ASSUME LeaseInv, SeenInv, [RecNext]_allVars
              PROVE  SeenInv'
  OBVIOUS
<1>1. RequestsInv /\ TypeOK /\ req \in [Steppers -> Request]
  BY DEF LeaseInv, RequestsInv, TypeOK
<1>2. CASE [Next]_vars
  BY <1>1, <1>2, NextSeen
<1>3. CASE RevisionGuards /\ UNCHANGED req /\ head' \in RunHead
  <2>1. ASSUME NEW s \in Steppers
        PROVE  Seen(req[s])'
    <3>1. PICK r \in Request : r = req[s]
      BY <1>1
    <3>2. Seen(r)' /\ req'[s] = r
      BY <1>1, <1>3, <3>1, SeenStays DEF SeenInv
    <3>. QED  BY <3>2 DEF Seen
  <2>. QED  BY <2>1 DEF SeenInv
<1>. QED  BY <1>2, <1>3, ToolGuards DEF RecNext, allVars

LEMMA SeenBesideTools == RecSpec => []SeenInv
<1>1. RecInit => SeenInv
  BY InitSeen DEF RecInit
<1>2. RecInv /\ SeenInv /\ [RecNext]_allVars => SeenInv'
  BY RecNextSeen DEF RecInv
<1>. QED  BY <1>1, <1>2, RecInvariance, PTL DEF RecSpec

\* A step of the requests is one of theirs alone, or is made beside them.
LEMMA RequestsOrTools ==
    ASSUME LeaseInv, [RecNext]_allVars
    PROVE  [Next]_vars \/ UNCHANGED req
BY ToolGuards DEF RecNext, allVars

\* A step is refused for a mismatch only of a run that is inconsistent, or whose head
\* has moved since it was read: other requests may commit between the four reads of an
\* inspection, and a tool may take the lease, swap the entities and give it back.
THEOREM MismatchBesideTools == RecSpec => NoSpuriousMismatch
<1>. DEFINE Honest == \A s \in Steppers :
              (At(s, "inspectEntities") /\ req'[s].result = "RUN_INTEGRITY_MISMATCH") =>
                  ~StoreConsistent \/ head.rev # req[s].run.rev
<1>1. RecInv /\ SeenInv /\ [RecNext]_allVars => [Honest]_vars
  <2>. SUFFICES ASSUME RecInv, SeenInv, [RecNext]_allVars
                PROVE  Honest
    OBVIOUS
  <2>1. RequestsInv /\ LeaseInv
    BY DEF RecInv, LeaseInv
  <2>2. CASE [Next]_vars
    BY <2>1, <2>2, MismatchTrue
  <2>3. CASE UNCHANGED req
    BY <2>1, <2>3 DEF RequestsInv, RequestInv, At
  <2>. QED  BY <2>1, <2>2, <2>3, RequestsOrTools
<1>. QED  BY <1>1, RecInvariance, SeenBesideTools, PTL DEF RecSpec, NoSpuriousMismatch

\* A client whose frame is stored is refused only when the run has gone past it, also
\* beside tools that take the lease of the run or quarantine it in the meantime.
THEOREM RefusalsBesideTools == RecSpec => RefusedOnlyIfOvertaken
<1>. DEFINE Refused(s) ==
              /\ req[s].pc \in {"check", "transient", "resolveFrame", "resolveHead"}
              /\ At(s, "resolveHead") => req[s].stored
              /\ req[s].frame.tick \in DOMAIN frames /\ frames[req[s].frame.tick] = DocOf(req[s].frame)
              /\ req'[s].result \in {"CONCURRENT_MODIFICATION", "COMMIT_STATUS_UNKNOWN"}
<1>1. RecInv /\ [RecNext]_allVars =>
          [\A s \in Steppers : Refused(s) => head.tick > req[s].frame.tick]_vars
  <2>. SUFFICES ASSUME RecInv, [RecNext]_allVars, NEW s \in Steppers, Refused(s)
                PROVE  head.tick > req[s].frame.tick
    OBVIOUS
  <2>1. RequestsInv /\ LeaseInv /\ IndInv
    BY DEF RecInv, LeaseInv
  <2>2. CASE [Next]_vars
    BY <2>1, <2>2, RefusalTrue
  <2>3. CASE UNCHANGED req
    BY <2>1, <2>3 DEF RequestsInv, RequestInv
  <2>. QED  BY <2>1, <2>2, <2>3, RequestsOrTools
<1>. QED  BY <1>1, RecInvariance, PTL DEF RecSpec, RefusedOnlyIfOvertaken

-----------------------------------------------------------------------------
\* One client's step requests beside any number of tools.

\* What a tool is about to write is what the events give, and so is the projection
\* that a tool which did not fail gives the lease back on.
ToolFaithful(i) ==
    /\ i.pc = "swap" => i.rebuilt = Replay(events)
    /\ i.pc \in {"releaseRead", "release"} /\ ~i.failed /\ head.maint /\ head.op = i.op =>
         entities = Replay(events)

\* The inductive invariant of requests that do not overlap and the tools beside them,
\* on any documents.
RebuildInv ==
    /\ LeaseInv
    /\ AloneInv
    /\ \A o \in Operators : ToolFaithful(tool[o])

\* What a tool's step makes of its invocation and of the projection.
LEMMA ToolAfter ==
    ASSUME RebuildInv, NEW o \in Operators, StartTool(o) \/ ContinueTool(o) \/ Die(o)
    PROVE  /\ \E j \in Invocation :
                /\ tool' = [tool EXCEPT ![o] = j]
                /\ j.pc = "swap" => j.rebuilt = Replay(events)
                /\ j.pc \in {"releaseRead", "release"} /\ ~j.failed =>
                     entities' = Replay(events)
           /\ entities' = entities \/ entities' = Replay(events)
<1>. DEFINE i == tool[o]
            After(j) == /\ tool' = [tool EXCEPT ![o] = j]
                        /\ j.pc = "swap" => j.rebuilt = Replay(events)
                        /\ j.pc \in {"releaseRead", "release"} /\ ~j.failed =>
                             entities' = Replay(events)
<1>1. /\ i \in Invocation /\ ToolInv(i) /\ ToolFaithful(i) /\ TypeOK
      /\ None \notin Nat /\ ops \in Nat
  BY StoreAssumption, RecoveryAssumption
     DEF RebuildInv, LeaseInv, RecTypeOK, RequestsInv
<1>2. ASSUME NEW k \in Invocation, NEW pc \in ToolPoints, ToolGoto(o, k, pc),
             pc = "swap" => k.rebuilt = Replay(events),
             pc \in {"releaseRead", "release"} /\ ~k.failed => entities' = Replay(events)
      PROVE  \E j \in Invocation : After(j)
  <2>1. PICK j \in Invocation :
               /\ j.pc = pc /\ j.op = k.op /\ j.rev = k.rev /\ j.rebuilt = k.rebuilt
               /\ j.failed = k.failed /\ j.warned = k.warned
               /\ tool' = [tool EXCEPT ![o] = j]
    BY <1>2, ToolGotoMoves
  <2>. QED  BY <1>2, <2>1
<1>3. Exit(o) => \E j \in Invocation : After(j)
  BY NoInvocationType DEF Exit
<1>4. Fail(o) => \E j \in Invocation : After(j)
  BY FailMoves DEF RebuildInv
<1>5. Raise(o) => \E j \in Invocation : After(j)
  BY RaiseMoves DEF RebuildInv
<1>6. ReleaseRaises(o) => \E j \in Invocation : After(j)
  <2>. SUFFICES ASSUME ReleaseRaises(o)
                PROVE  \E j \in Invocation : After(j)
    OBVIOUS
  <2>1. PICK j \in Invocation :
               /\ j.op = i.op /\ j.failed
               /\ IF i.failed THEN j.pc = "record" /\ j.warned ELSE j.pc = "releaseRead"
               /\ tool' = [tool EXCEPT ![o] = j]
    BY ReleaseRaisesMoves DEF RebuildInv
  <2>. QED  BY <2>1
<1>7. ReportFailure(o) => \E j \in Invocation : After(j)
  BY <1>1, <1>2, <1>3, <1>5 DEF ReportFailure, ToolPoints
<1>8. CASE StartTool(o) \/ Die(o)
  <2>1. entities' = entities
    BY <1>8 DEF StartTool, Die, vars, docs
  <2>2. \E n \in Nat : \/ ToolGoto(o, [NoInvocation EXCEPT !.op = n], "readFrame")
                       \/ ToolGoto(o, [NoInvocation EXCEPT !.op = n], "dead")
    BY <1>1, <1>8 DEF StartTool, Die, Invocation
  <2>3. \A n \in Nat : [NoInvocation EXCEPT !.op = n] \in Invocation
    BY NoInvocationType DEF Invocation
  <2>. QED  BY <1>2, <2>1, <2>2, <2>3 DEF ToolPoints
<1>9. CASE \/ ReadFrame(o) \/ ReadForAcquire(o) \/ Acquire(o) \/ AcquireUnacknowledged(o)
           \/ RaiseBeforeLease(o) \/ LoseAcquire(o)
  <2>1. entities' = entities
    BY <1>9 DEF ReadFrame, ReadForAcquire, Acquire, AcquireUnacknowledged, TakeLease,
                RaiseBeforeLease, LoseAcquire, vars, docs
  <2>2. \/ \E h \in Hash, t \in Nat :
              ToolGoto(o, [i EXCEPT !.expected = h, !.tick = t], "acquireRead")
        \/ \E n \in Nat : ToolGoto(o, [i EXCEPT !.rev = n], "acquire")
        \/ ToolGoto(o, i, "readEvents")
        \/ Raise(o)
        \/ ReportFailure(o)
    BY <1>1, <1>9, LatestFrame
       DEF ReadFrame, ReadForAcquire, Acquire, AcquireUnacknowledged, RaiseBeforeLease,
           LoseAcquire, TypeOK, RunHead
  <2>3. /\ \A h \in Hash, t \in Nat : [i EXCEPT !.expected = h, !.tick = t] \in Invocation
        /\ \A n \in Nat : [i EXCEPT !.rev = n] \in Invocation
    BY <1>1 DEF Invocation
  <2>. HIDE DEF i
  <2>. QED  BY <1>1, <1>2, <1>5, <1>7, <2>1, <2>2, <2>3 DEF ToolPoints
<1>10. CASE WriteRecord(o)
  BY <1>3, <1>7, <1>10 DEF WriteRecord, vars, docs
<1>11. CASE AbortSwap(o) \/ FailToRecord(o)
  BY <1>4, <1>11 DEF AbortSwap, FailToRecord, vars, docs
<1>12. CASE ReadEvents(o)
  <2>1. PICK k : k = [i EXCEPT !.rebuilt = Replay(events)]
    OBVIOUS
  <2>2. k \in Invocation /\ k.rebuilt = Replay(events)
    BY <1>1, <2>1, ReplayType DEF TypeOK, Invocation
  <2>3. entities' = entities /\ (ToolGoto(o, k, "swap") \/ Fail(o))
    BY <1>12, <2>1 DEF ReadEvents, vars, docs
  <2>. QED  BY <1>2, <1>4, <2>2, <2>3 DEF ToolPoints
<1>13. CASE Swap(o)
  <2>1. entities' = Replay(events)
    BY <1>1, <1>13 DEF Swap, ToolAt, ToolFaithful
  <2>. QED  BY <1>1, <1>2, <1>4, <1>13, <2>1 DEF Swap, ToolPoints
<1>14. CASE ReadForRelease(o)
  <2>1. entities' = entities /\ i.pc = "releaseRead" /\ head.rev \in Nat
    BY <1>1, <1>14 DEF ReadForRelease, ToolAt, vars, docs, TypeOK, RunHead
  <2>2. CASE head.op = i.op /\ ToolGoto(o, [i EXCEPT !.rev = head.rev], "release")
    <3>1. head.maint
      BY <1>1, <2>2 DEF RebuildInv, LeaseInv, LeaseNamed, Invocation
    <3>2. PICK k : k = [i EXCEPT !.rev = head.rev]
      OBVIOUS
    <3>3. k \in Invocation /\ k.failed = i.failed /\ k.warned = i.warned
      BY <1>1, <2>1, <3>2 DEF Invocation
    <3>4. ToolGoto(o, k, "release")
      BY <2>2, <3>2
    <3>5. ~k.failed => entities' = Replay(events)
      BY <1>1, <2>1, <2>2, <3>1, <3>3 DEF ToolFaithful
    <3>. QED  BY <1>2, <2>1, <3>3, <3>4, <3>5 DEF ToolPoints
  <2>. QED  BY <1>6, <1>14, <2>1, <2>2 DEF ReadForRelease
<1>15. CASE Release(o) \/ FailRelease(o)
  <2>1. entities' = entities /\ (ToolGoto(o, i, "record") \/ ReleaseRaises(o))
    BY <1>15 DEF Release, FailRelease, GiveBack, vars, docs
  <2>. QED  BY <1>1, <1>2, <1>6, <2>1 DEF ToolPoints
<1>. QED  BY <1>8, <1>9, <1>10, <1>11, <1>12, <1>13, <1>14, <1>15 DEF ContinueTool

\* Every step preserves it, and a faithful history, and the projection unless it is
\* lost, which happens only while nobody is about to load or to release it.
LEMMA RebuildNextInv ==
    ASSUME NEW one, Steppers = {one}
    PROVE  RebuildInv /\ [RecNext]_allVars =>
             /\ RebuildInv'
             /\ SerialInv => SerialInv'
             /\ SerialInv /\ Projected /\ damage' = damage => Projected'
<1>. SUFFICES ASSUME RebuildInv, [RecNext]_allVars
              PROVE  /\ RebuildInv'
                     /\ SerialInv => SerialInv'
                     /\ SerialInv /\ Projected /\ damage' = damage => Projected'
  OBVIOUS
<1>1. LeaseInv /\ AloneInv /\ LeaseInv' /\ \A o \in Operators : ToolFaithful(tool[o])
  BY RecNextStep DEF RebuildInv, Step
<1>2. CASE [Next]_vars /\ UNCHANGED recVars
  <2>1. /\ head'.maint = head.maint /\ head'.op = head.op
        /\ head.maint => UNCHANGED <<events, entities>>
    BY <1>1, <1>2, RequestsLeaveLease DEF LeaseInv, RequestsInv
  <2>2. ASSUME NEW o \in Operators
        PROVE  ToolFaithful(tool[o])'
    <3>1. tool'[o] = tool[o] /\ (tool[o].pc = "swap" => head.maint)
      BY <1>1, <1>2 DEF LeaseInv, ToolInv, recVars
    <3>2. head.maint => Replay(events)' = Replay(events)
      BY <2>1 DEF Replay, Apply
    <3>. QED  BY <1>1, <2>1, <3>1, <3>2 DEF ToolFaithful
  <2>. QED  BY <1>1, <1>2, <2>2, NextAloneInv, NextSerialInv DEF RebuildInv
<1>3. ASSUME NEW o \in Operators, StartTool(o) \/ ContinueTool(o) \/ Die(o)
      PROVE  RebuildInv' /\ (SerialInv => SerialInv') /\ (Projected => Projected')
  <2>1. PICK j \in Invocation :
                /\ tool' = [tool EXCEPT ![o] = j]
                /\ j.pc = "swap" => j.rebuilt = Replay(events)
                /\ j.pc \in {"releaseRead", "release"} /\ ~j.failed =>
                     entities' = Replay(events)
    BY <1>3, ToolAfter
  <2>2. SameHistory /\ UNCHANGED req
    BY <1>1, <1>3, ToolNextStep DEF ToolStep
  <2>3. entities' = entities \/ entities' = Replay(events)
    BY <1>3, ToolAfter
  <2>4. AloneInv' /\ (SerialInv => SerialInv')
    BY <1>1, <2>2, <2>3, SameHistoryAlone
  <2>5. Replay(events)' = Replay(events)
    BY <2>2 DEF SameHistory, Replay, Apply
  <2>6. tool \in [Operators -> Invocation]
    BY <1>1 DEF LeaseInv, RecTypeOK
  <2>7. ASSUME NEW p \in Operators
        PROVE  ToolFaithful(tool[p])'
    <3>1. CASE p = o
      BY <2>1, <2>5, <2>6, <3>1 DEF ToolFaithful
    <3>2. CASE p # o
      <4>1. tool'[p] = tool[p]
        BY <2>1, <2>6, <3>2
      <4>2. tool[p].pc # "idle" /\ head'.maint /\ head'.op = tool[p].op =>
              head.maint /\ head.op = tool[p].op
        <5>1. CASE TakeLease(o) /\ tool[o].pc = "acquire"
          <6>1. /\ head \in RunHead /\ tool[o].op \in Nat
                /\ head' = Taken(head, tool[o].op)
            BY <1>1, <2>6, <5>1
               DEF LeaseInv, RequestsInv, TypeOK, Invocation, TakeLease, Taken
          <6>2. head'.op = tool[o].op
            BY <6>1, TakenType
          <6>. QED  BY <1>1, <3>2, <5>1, <6>2 DEF LeaseInv, Apart
        <5>2. CASE GiveBack(o)
          <6>1. /\ head \in RunHead /\ tool[o].failed \in BOOLEAN
                /\ head' = GivenBack(head, tool[o].failed)
            BY <1>1, <2>6, <5>2
               DEF LeaseInv, RequestsInv, TypeOK, Invocation, GiveBack, GivenBack
          <6>. QED  BY <6>1, GivenBackType
        <5>3. \/ head' = head \/ GiveBack(o)
              \/ TakeLease(o) /\ tool[o].pc = "acquire"
          BY <1>3, HeadOfTool
        <5>. QED  BY <5>1, <5>2, <5>3
      <4>. QED  BY <1>1, <2>3, <2>5, <4>1, <4>2 DEF ToolFaithful
    <3>. QED  BY <3>1, <3>2
  <2>8. Projected => Projected'
    BY <2>3, <2>5 DEF Projected
  <2>. QED  BY <1>1, <2>4, <2>7, <2>8 DEF RebuildInv
<1>4. ASSUME NEW e \in Entities, Damage(e)
      PROVE  RebuildInv' /\ (SerialInv => SerialInv') /\ damage' # damage
  <2>1. SameHistory /\ UNCHANGED req /\ \A s \in Steppers : At(s, "idle")
    BY <1>1, <1>4, ToolNextStep DEF ToolStep, Damage
  <2>2. AloneInv' /\ (SerialInv => SerialInv')
    BY <1>1, <2>1, SameHistoryAlone
  <2>3. ASSUME NEW o \in Operators
        PROVE  ToolFaithful(tool[o])'
    BY <1>4 DEF Damage, ToolFaithful, Ended
  <2>4. damage' # damage
    BY <1>1, <1>4, RecoveryAssumption DEF LeaseInv, RecTypeOK, Damage
  <2>. QED  BY <1>1, <2>2, <2>3, <2>4 DEF RebuildInv
<1>. QED  BY <1>2, <1>3, <1>4 DEF RecNext, allVars

LEMMA RebuildInvariance ==
    ASSUME NEW one, Steppers = {one}
    PROVE  RecSpec => [](RebuildInv /\ SerialInv)
<1>1. RecInit => RebuildInv /\ SerialInv
  <2>. SUFFICES ASSUME RecInit
                PROVE  RebuildInv /\ SerialInv
    OBVIOUS
  <2>1. LeaseInv /\ SerialInv /\ AloneInv
    BY RecInitInv, InitSerialInv DEF RecInit, RecInv, SerialInv
  <2>2. \A o \in Operators : tool[o].pc = "idle"
    BY NoInvocationType DEF RecInit
  <2>. QED  BY <2>1, <2>2 DEF RebuildInv, ToolFaithful
<1>2. RebuildInv /\ SerialInv /\ [RecNext]_allVars => (RebuildInv /\ SerialInv)'
  BY RebuildNextInv
<1>. QED  BY <1>1, <1>2, PTL DEF RecSpec

\* Every frame replays although documents are lost, the projection is rebuilt and
\* tools die: verify_replay finds that the accepted events give every frame's hash.
THEOREM ReplayBesideTools ==
    ASSUME NEW one, Steppers = {one}
    PROVE  RecSpec => []ReplayFaithful
<1>1. SerialInv => ReplayFaithful
  BY DEF SerialInv
<1>. QED  BY <1>1, RebuildInvariance, PTL

\* A run given back without quarantine has the projection its events and its head's
\* hash say: rebuild_run reads frame, events and lease one after the other, but what
\* it swaps in is of the history the lease has frozen.
THEOREM ReleasesFaithful ==
    ASSUME NEW one, Steppers = {one}
    PROVE  RecSpec => ReleasedFaithful
<1>. DEFINE Good == (head.maint /\ ~head'.maint /\ ~head'.quar) => ProjectionFaithful
<1>1. RebuildInv /\ SerialInv /\ [RecNext]_allVars => [Good]_allVars
  <2>. SUFFICES ASSUME RebuildInv, SerialInv, [RecNext]_allVars,
                       head.maint, ~head'.maint, ~head'.quar
                PROVE  ProjectionFaithful
    OBVIOUS
  <2>1. /\ LeaseInv /\ SerialInv /\ TypeOK /\ head \in RunHead
        /\ \A o \in Operators : ToolFaithful(tool[o]) /\ tool[o] \in Invocation
    BY DEF RebuildInv, LeaseInv, RequestsInv, TypeOK, RecTypeOK
  <2>2. ~[Next]_vars
    BY <2>1, RequestsLeaveLease
  <2>3. PICK o \in Operators : (StartTool(o) \/ ContinueTool(o) \/ Die(o)) /\ GiveBack(o)
    <3>1. ASSUME NEW o \in Operators, StartTool(o) \/ ContinueTool(o) \/ Die(o)
          PROVE  GiveBack(o)
      BY <3>1, HeadOfTool DEF TakeLease, LeaseFree
    <3>. QED  BY <2>2, <3>1 DEF RecNext, allVars, Damage
  <2>4. tool[o].pc = "release" /\ head.op = tool[o].op /\ head' = GivenBack(head, tool[o].failed)
    <3>1. head' # head
      OBVIOUS
    <3>2. tool[o].pc = "release"
      BY <2>3, <3>1
         DEF StartTool, Die, ContinueTool, ReadFrame, ReadForAcquire, Acquire,
             AcquireUnacknowledged, TakeLease, LeaseFree, RaiseBeforeLease, LoseAcquire,
             ReadEvents, Swap, AbortSwap, ReadForRelease, Release, FailRelease, WriteRecord,
             FailToRecord, ToolAt, vars, docs
    <3>. QED  BY <2>3, <3>2 DEF GiveBack, GivenBack
  <2>5. tool[o].failed \in BOOLEAN /\ ~tool[o].failed
    BY <2>1, <2>4 DEF GivenBack, RunHead, Invocation
  <2>6. entities = Replay(events)
    BY <2>1, <2>4, <2>5 DEF ToolFaithful
  <2>. QED  BY <2>1, <2>6 DEF SerialInv, HeadFaithful, ProjectionFaithful
<1>. QED  BY <1>1, RebuildInvariance, PTL DEF RecSpec, ReleasedFaithful

-----------------------------------------------------------------------------
\* How long an invocation takes, and that none is forgotten.

\* An invocation that may hold the lease: it has its release still to do, it was
\* killed, it ended by an exception that nothing caught, or its release failed.
Holding(i) ==
    \/ i.pc \in {"readEvents", "swap", "releaseRead", "release", "dead", "raised", "warned"}
    \/ i.pc = "record" /\ i.warned

\* A lease that is held is somebody's, who shows it.
LeaseHasHolder ==
    head.maint => \E o \in Operators : Holding(tool[o]) /\ tool[o].op = head.op

\* An invocation is recorded, or still there, or shows why it has no record; one that
\* ended by itself, its release failed or not, is recorded.
NoneForgotten ==
    \A n \in 1..ops :
        \/ \E r \in records : r.op = n
        \/ \E o \in Operators : tool[o].pc \notin {"idle", "warned"} /\ tool[o].op = n

Accounted == LeaseHasHolder /\ NoneForgotten

\* How many calls an invocation is from its end, at most.
ToolDistance(i) ==
    CASE i.pc = "readFrame" -> 11 [] i.pc = "acquireRead" -> 10 [] i.pc = "acquire" -> 9
      [] i.pc = "readEvents" -> 8 [] i.pc = "swap" -> 7
      [] i.pc = "releaseRead" -> IF i.failed THEN 3 ELSE 6
      [] i.pc = "release" -> IF i.failed THEN 2 ELSE 5
      [] i.pc = "record" -> IF i.failed THEN 1 ELSE 4
      [] OTHER -> 0

ToolHurries(o) ==
    /\ ToolDistance(tool[o]) \in Nat
    /\ ContinueTool(o) => ToolDistance(tool'[o]) < ToolDistance(tool[o])
    /\ tool[o].pc # "idle" /\ tool'[o] # tool[o] => ContinueTool(o) \/ Die(o)
    /\ tool[o].pc \in Ended => ToolDistance(tool[o]) = 0

\* What a step makes of the invocation it belongs to, and of the others.
Accounts(o) ==
    /\ Accounted'
    /\ ContinueTool(o) => ToolDistance(tool'[o]) < ToolDistance(tool[o])
    /\ \A p \in Operators : p # o => tool'[p] = tool[p]

\* The invocation moves on to i: it keeps its id or leaves its verdict, it still shows
\* the lease it may hold, and its end comes nearer.
LEMMA KeepsAccount ==
    ASSUME LeaseInv, Accounted, NEW o \in Operators, NEW i,
           tool' = [tool EXCEPT ![o] = i],
           ops' = ops, records \subseteq records',
           \/ i.pc \notin {"idle", "warned"} /\ i.op = tool[o].op
           \/ \E r \in records' : r.op = tool[o].op,
           \/ head' = head /\ (Holding(tool[o]) => Holding(i) /\ i.op = tool[o].op)
           \/ ~head'.maint
           \/ Holding(i) /\ i.op = head'.op,
           ContinueTool(o) => ToolDistance(i) < ToolDistance(tool[o])
    PROVE  Accounts(o)
<1>1. tool'[o] = i /\ \A p \in Operators : p # o => tool'[p] = tool[p]
  BY DEF LeaseInv, RecTypeOK
<1>2. NoneForgotten'
  <2>. SUFFICES ASSUME NEW n \in 1..ops
                PROVE  \/ \E r \in records' : r.op = n
                       \/ \E p \in Operators : /\ tool'[p].pc \notin {"idle", "warned"}
                                                /\ tool'[p].op = n
    BY DEF NoneForgotten
  <2>1. CASE \E r \in records : r.op = n
    BY <2>1
  <2>2. ASSUME NEW p \in Operators, tool[p].pc \notin {"idle", "warned"}, tool[p].op = n
        PROVE  \/ \E r \in records' : r.op = n
               \/ \E q \in Operators : /\ tool'[q].pc \notin {"idle", "warned"}
                                        /\ tool'[q].op = n
    BY <1>1, <2>2
  <2>. QED  BY <2>1, <2>2 DEF Accounted, NoneForgotten
<1>3. LeaseHasHolder'
  <2>1. CASE head' = head /\ (Holding(tool[o]) => Holding(i) /\ i.op = tool[o].op)
    BY <1>1, <2>1 DEF Accounted, LeaseHasHolder, Holding
  <2>2. CASE Holding(i) /\ i.op = head'.op
    BY <1>1, <2>2 DEF LeaseHasHolder, Holding
  <2>. QED  BY <2>1, <2>2 DEF LeaseHasHolder
<1>. QED  BY <1>1, <1>2, <1>3 DEF Accounted, Accounts

\* It goes on to pc, or is killed.
LEMMA ToolGoesOn ==
    ASSUME LeaseInv, Accounted, NEW o \in Operators, NEW k \in Invocation, NEW pc \in ToolPoints,
           ToolGoto(o, k, pc), k.op = tool[o].op, pc \notin {"idle", "warned"},
           ops' = ops, records' = records,
           \/ head' = head /\ (Holding(tool[o]) => pc \notin {"readFrame", "acquireRead",
                                                             "acquire", "record"})
           \/ ~head'.maint
           \/ head'.op = k.op /\ pc = "readEvents",
           ContinueTool(o) =>
               (ToolDistance([pc |-> pc, failed |-> k.failed]) < ToolDistance(tool[o]))
    PROVE  Accounts(o)
<1>1. PICK j \in Invocation :
             /\ j.pc = pc /\ j.op = k.op /\ j.rev = k.rev /\ j.rebuilt = k.rebuilt
             /\ j.failed = k.failed /\ j.warned = k.warned
             /\ tool' = [tool EXCEPT ![o] = j]
  BY ToolGotoMoves
<1>2. ToolDistance(j) = ToolDistance([pc |-> pc, failed |-> k.failed])
  BY <1>1 DEF ToolDistance
<1>3. pc \notin {"readFrame", "acquireRead", "acquire", "record"} => Holding(j)
  BY <1>1 DEF Holding, ToolPoints
<1>. QED  BY <1>1, <1>2, <1>3, KeepsAccount

\* It enters the except branch.
LEMMA ToolFails ==
    ASSUME LeaseInv, Accounted, NEW o \in Operators, Fail(o),
           \/ tool[o].pc \in {"readEvents", "swap"}
           \/ tool[o].pc = "record" /\ ~tool[o].failed,
           head' = head, records \subseteq records', ops' = ops
    PROVE  Accounts(o)
<1>1. tool[o] \in Invocation
  BY DEF LeaseInv, RecTypeOK
<1>2. PICK j \in Invocation : /\ j.pc = "releaseRead" /\ j.op = tool[o].op /\ j.failed
                              /\ tool' = [tool EXCEPT ![o] = j]
  BY FailMoves
<1>3. ToolDistance(j) < ToolDistance(tool[o]) /\ Holding(j)
  BY <1>1, <1>2 DEF ToolDistance, Invocation, Holding
<1>. QED  BY <1>2, <1>3, KeepsAccount

\* It ends by an exception that nothing catches.
LEMMA ToolRaises ==
    ASSUME LeaseInv, Accounted, NEW o \in Operators, Raise(o),
           tool[o].pc \in {"readFrame", "acquireRead", "acquire", "record"},
           head' = head \/ head'.op = tool[o].op, records \subseteq records', ops' = ops
    PROVE  Accounts(o)
<1>1. tool[o] \in Invocation
  BY DEF LeaseInv, RecTypeOK
<1>2. PICK j \in Invocation : /\ j.pc = "raised" /\ j.op = tool[o].op /\ ~j.failed /\ ~j.warned
                              /\ tool' = [tool EXCEPT ![o] = j]
  BY RaiseMoves
<1>3. ToolDistance(j) < ToolDistance(tool[o]) /\ Holding(j)
  BY <1>1, <1>2 DEF ToolDistance, Invocation, Holding
<1>. QED  BY <1>2, <1>3, KeepsAccount

\* Its release raises, the lease given back or not.
LEMMA ToolWarns ==
    ASSUME LeaseInv, Accounted, NEW o \in Operators, ReleaseRaises(o),
           tool[o].pc \in {"releaseRead", "release"},
           head' = head \/ ~head'.maint, records' = records, ops' = ops
    PROVE  Accounts(o)
<1>1. tool[o] \in Invocation /\ tool[o].failed \in BOOLEAN
  BY DEF LeaseInv, RecTypeOK, Invocation
<1>2. PICK j \in Invocation :
             /\ j.op = tool[o].op /\ j.failed
             /\ IF tool[o].failed THEN j.pc = "record" /\ j.warned ELSE j.pc = "releaseRead"
             /\ tool' = [tool EXCEPT ![o] = j]
  BY ReleaseRaisesMoves
<1>3. ToolDistance(j) < ToolDistance(tool[o]) /\ Holding(j) /\ j.pc \notin {"idle", "warned"}
  BY <1>1, <1>2 DEF ToolDistance, Holding
<1>. QED  BY <1>2, <1>3, KeepsAccount

\* It ends with its verdict.
LEMMA ToolEnds ==
    ASSUME LeaseInv, Accounted, NEW o \in Operators, NEW result, Report(o, result),
           \/ Exit(o) /\ ~tool[o].warned
           \/ ToolGoto(o, tool[o], "warned"),
           head' = head, ops' = ops,
           tool[o].pc \in {"acquireRead", "acquire", "record"}
    PROVE  Accounts(o)
<1>1. tool[o] \in Invocation /\ tool[o].failed \in BOOLEAN
  BY DEF LeaseInv, RecTypeOK, Invocation
<1>2. records \subseteq records' /\ \E r \in records' : r.op = tool[o].op
  <2>1. [op |-> tool[o].op, result |-> result] \in records' /\ records \subseteq records'
    BY DEF Report
  <2>. QED  BY <2>1
<1>3. ToolDistance(tool[o]) > 0
  BY <1>1 DEF ToolDistance
<1>4. PICK j \in Invocation : /\ \/ j.pc = "idle" /\ ~tool[o].warned
                                 \/ j.pc = "warned" /\ j.op = tool[o].op
                              /\ tool' = [tool EXCEPT ![o] = j]
  <2>1. CASE Exit(o) /\ ~tool[o].warned
    BY <2>1, NoInvocationType DEF Exit
  <2>2. CASE ToolGoto(o, tool[o], "warned")
    BY <1>1, <2>2, ToolGotoMoves DEF ToolPoints
  <2>. QED  BY <2>1, <2>2
<1>5. ToolDistance(j) = 0
  BY <1>4 DEF ToolDistance
<1>6. Holding(tool[o]) => Holding(j) /\ j.op = tool[o].op
  BY <1>4 DEF Holding
<1>. QED  BY <1>2, <1>3, <1>4, <1>5, <1>6, KeepsAccount

\* Its failure is recorded, or the record raises.
LEMMA ToolReports ==
    ASSUME LeaseInv, Accounted, NEW o \in Operators, ReportFailure(o), head' = head, ops' = ops,
           tool[o].pc \in {"acquireRead", "acquire", "record"}
    PROVE  Accounts(o)
<1>1. CASE Raise(o) /\ records \subseteq records'
  BY <1>1, ToolRaises
<1>2. CASE Report(o, "failed") /\ Exit(o) /\ ~tool[o].warned
  BY <1>2, ToolEnds
<1>3. CASE Report(o, "failed") /\ ToolGoto(o, tool[o], "warned")
  BY <1>3, ToolEnds
<1>4. Report(o, "failed") => records \subseteq records'
  BY DEF Report
<1>. QED  BY <1>1, <1>2, <1>3, <1>4 DEF ReportFailure

\* Whatever call a tool comes back from, or dies in.
LEMMA ToolAccounts ==
    ASSUME LeaseInv, Accounted, NEW o \in Operators, ContinueTool(o) \/ Die(o)
    PROVE  Accounts(o)
<1>. DEFINE i == tool[o]
<1>1. /\ i \in Invocation /\ i.failed \in BOOLEAN /\ i.op \in Nat
      /\ tool \in [Operators -> Invocation] /\ (i.warned => i.failed)
  BY DEF LeaseInv, RecTypeOK, Invocation, ToolInv
<1>2. /\ LatestTick \in Nat /\ frames[LatestTick].end \in Hash /\ head.rev \in Nat
      /\ head \in RunHead /\ events \in SUBSET Event
  BY LatestFrame DEF LeaseInv, RecTypeOK, TypeOK, RunHead
<1>3. CASE ReadFrame(o)
  <2>1. PICK k : k = [i EXCEPT !.expected = frames[LatestTick].end, !.tick = LatestTick]
    OBVIOUS
  <2>2. /\ ToolGoto(o, k, "acquireRead") /\ i.pc = "readFrame"
        /\ head' = head /\ records' = records /\ ops' = ops
    BY <1>3, <2>1 DEF ReadFrame, ToolAt, vars, docs
  <2>3. k \in Invocation /\ k.op = i.op
    BY <1>1, <1>2, <2>1 DEF Invocation
  <2>4. /\ ToolDistance([pc |-> "acquireRead", failed |-> k.failed]) < ToolDistance(i)
        /\ ~Holding(i)
    BY <2>2 DEF ToolDistance, Holding
  <2>. QED  BY <2>2, <2>3, <2>4, ToolGoesOn DEF ToolPoints
<1>4. CASE ReadForAcquire(o)
  <2>1. i.pc = "acquireRead" /\ head' = head /\ ops' = ops
    BY <1>4 DEF ReadForAcquire, ToolAt, vars, docs
  <2>2. CASE ReportFailure(o)
    BY <2>1, <2>2, ToolReports
  <2>3. CASE ToolGoto(o, [i EXCEPT !.rev = head.rev], "acquire") /\ records' = records
    <3>1. PICK k : k = [i EXCEPT !.rev = head.rev]
      OBVIOUS
    <3>2. k \in Invocation /\ k.op = i.op /\ ToolGoto(o, k, "acquire")
      BY <1>1, <1>2, <2>3, <3>1 DEF Invocation
    <3>3. /\ ToolDistance([pc |-> "acquire", failed |-> k.failed]) < ToolDistance(i)
          /\ ~Holding(i)
      BY <2>1 DEF ToolDistance, Holding
    <3>. QED  BY <2>1, <2>3, <3>2, <3>3, ToolGoesOn DEF ToolPoints
  <2>. QED  BY <1>4, <2>2, <2>3 DEF ReadForAcquire
<1>5. CASE Acquire(o) \/ AcquireUnacknowledged(o)
  <2>1. /\ i.pc = "acquire" /\ records' = records /\ ops' = ops
        /\ ToolGoto(o, i, "readEvents") \/ Raise(o)
        /\ head' = Taken(head, i.op)
    BY <1>5 DEF Acquire, AcquireUnacknowledged, TakeLease, ToolAt, Taken
  <2>2. head'.op = i.op
    BY <1>1, <1>2, <2>1, TakenType
  <2>3. CASE Raise(o)
    BY <2>1, <2>2, <2>3, ToolRaises
  <2>4. CASE ToolGoto(o, i, "readEvents")
    <3>1. ToolDistance([pc |-> "readEvents", failed |-> i.failed]) < ToolDistance(i)
      BY <2>1 DEF ToolDistance
    <3>. QED  BY <1>1, <2>1, <2>2, <2>4, <3>1, ToolGoesOn DEF ToolPoints
  <2>. QED  BY <2>1, <2>3, <2>4
<1>6. CASE RaiseBeforeLease(o)
  <2>1. /\ i.pc \in {"readFrame", "acquireRead", "acquire"} /\ Raise(o)
        /\ head' = head /\ records' = records /\ ops' = ops
    BY <1>6 DEF RaiseBeforeLease, vars, docs
  <2>. QED  BY <2>1, ToolRaises
<1>7. CASE LoseAcquire(o)
  <2>1. i.pc = "acquire" /\ head' = head /\ ops' = ops /\ ReportFailure(o)
    BY <1>7 DEF LoseAcquire, ToolAt, vars, docs
  <2>. QED  BY <2>1, ToolReports
<1>8. CASE ReadEvents(o)
  <2>1. i.pc = "readEvents" /\ head' = head /\ records' = records /\ ops' = ops
    BY <1>8 DEF ReadEvents, ToolAt, vars, docs
  <2>2. CASE Fail(o)
    BY <2>1, <2>2, ToolFails
  <2>3. CASE ToolGoto(o, [i EXCEPT !.rebuilt = Replay(events)], "swap")
    <3>1. PICK k : k = [i EXCEPT !.rebuilt = Replay(events)]
      OBVIOUS
    <3>2. k \in Invocation /\ k.op = i.op /\ ToolGoto(o, k, "swap")
      BY <1>1, <1>2, <2>3, <3>1, ReplayType DEF Invocation
    <3>3. ToolDistance([pc |-> "swap", failed |-> k.failed]) < ToolDistance(i)
      BY <2>1 DEF ToolDistance
    <3>. QED  BY <2>1, <3>2, <3>3, ToolGoesOn DEF ToolPoints
  <2>. QED  BY <1>8, <2>2, <2>3 DEF ReadEvents
<1>9. CASE Swap(o) \/ AbortSwap(o)
  <2>1. i.pc = "swap" /\ head' = head /\ records' = records /\ ops' = ops
    BY <1>9 DEF Swap, AbortSwap, ToolAt, vars, docs
  <2>2. CASE Fail(o)
    BY <2>1, <2>2, ToolFails
  <2>3. CASE ToolGoto(o, i, "releaseRead")
    <3>1. ToolDistance([pc |-> "releaseRead", failed |-> i.failed]) < ToolDistance(i)
      BY <1>1, <2>1 DEF ToolDistance
    <3>. QED  BY <1>1, <2>1, <2>3, <3>1, ToolGoesOn DEF ToolPoints
  <2>. QED  BY <1>9, <2>2, <2>3 DEF Swap, AbortSwap
<1>10. CASE ReadForRelease(o)
  <2>1. i.pc = "releaseRead" /\ head' = head /\ records' = records /\ ops' = ops
    BY <1>10 DEF ReadForRelease, ToolAt, vars, docs
  <2>2. CASE ReleaseRaises(o)
    BY <2>1, <2>2, ToolWarns
  <2>3. CASE ToolGoto(o, [i EXCEPT !.rev = head.rev], "release")
    <3>1. PICK k : k = [i EXCEPT !.rev = head.rev]
      OBVIOUS
    <3>2. k \in Invocation /\ k.op = i.op /\ k.failed = i.failed /\ ToolGoto(o, k, "release")
      BY <1>1, <1>2, <2>3, <3>1 DEF Invocation
    <3>3. ToolDistance([pc |-> "release", failed |-> k.failed]) < ToolDistance(i)
      BY <1>1, <2>1, <3>2 DEF ToolDistance
    <3>. QED  BY <2>1, <3>2, <3>3, ToolGoesOn DEF ToolPoints
  <2>. QED  BY <1>10, <2>2, <2>3 DEF ReadForRelease
<1>11. CASE Release(o)
  <2>1. /\ i.pc = "release" /\ records' = records /\ ops' = ops /\ ToolGoto(o, i, "record")
        /\ head' = GivenBack(head, i.failed)
    BY <1>11 DEF Release, GiveBack, ToolAt, GivenBack
  <2>2. ~head'.maint
    BY <1>1, <1>2, <2>1, GivenBackType
  <2>3. ToolDistance([pc |-> "record", failed |-> i.failed]) < ToolDistance(i)
    BY <1>1, <2>1 DEF ToolDistance
  <2>. QED  BY <1>1, <2>1, <2>2, <2>3, ToolGoesOn DEF ToolPoints
<1>12. CASE FailRelease(o)
  <2>1. /\ i.pc = "release" /\ records' = records /\ ops' = ops /\ ReleaseRaises(o)
        /\ head' = head \/ head' = GivenBack(head, i.failed)
    BY <1>12 DEF FailRelease, GiveBack, ToolAt, GivenBack, vars, docs
  <2>2. head' = head \/ ~head'.maint
    BY <1>1, <1>2, <2>1, GivenBackType
  <2>. QED  BY <2>1, <2>2, ToolWarns
<1>13. CASE WriteRecord(o)
  <2>1. i.pc = "record" /\ head' = head /\ ops' = ops
    BY <1>13 DEF WriteRecord, ToolAt, vars, docs
  <2>2. CASE ReportFailure(o)
    BY <2>1, <2>2, ToolReports
  <2>3. CASE ~i.failed /\ Report(o, "success") /\ Exit(o)
    BY <1>1, <2>1, <2>3, ToolEnds
  <2>. QED  BY <1>13, <2>2, <2>3 DEF WriteRecord
<1>14. CASE FailToRecord(o)
  <2>1. /\ i.pc = "record" /\ ~i.failed /\ head' = head /\ ops' = ops
        /\ records \subseteq records' /\ Fail(o)
    BY <1>14 DEF FailToRecord, Report, ToolAt, vars, docs
  <2>. QED  BY <2>1, ToolFails
<1>15. CASE Die(o) /\ ~ContinueTool(o)
  <2>1. PICK k : k = [NoInvocation EXCEPT !.op = i.op]
    OBVIOUS
  <2>2. ToolGoto(o, k, "dead") /\ head' = head /\ records' = records /\ ops' = ops
    BY <1>15, <2>1 DEF Die, vars, docs
  <2>3. k \in Invocation /\ k.op = i.op
    BY <1>1, <2>1, NoInvocationType DEF Invocation
  <2>. QED  BY <1>15, <2>2, <2>3, ToolGoesOn DEF ToolPoints
<1>16. ~ContinueTool(o) => Die(o)
  OBVIOUS
<1>. QED  BY <1>3, <1>4, <1>5, <1>6, <1>7, <1>8, <1>9, <1>10, <1>11, <1>12, <1>13, <1>14, <1>15,
             <1>16
     DEF ContinueTool

\* An invocation that begins is there, and holds nothing.
LEMMA StartAccounts ==
    ASSUME LeaseInv, Accounted, NEW o \in Operators, StartTool(o)
    PROVE  Accounted' /\ \A p \in Operators : p # o => tool'[p] = tool[p]
<1>1. tool \in [Operators -> Invocation] /\ ops \in Nat
  BY RecoveryAssumption DEF LeaseInv, RecTypeOK
<1>2. /\ tool[o].pc = "idle" /\ head' = head /\ records' = records /\ ops' = ops + 1
      /\ ToolGoto(o, [NoInvocation EXCEPT !.op = ops + 1], "readFrame")
  BY DEF StartTool, ToolAt, vars, docs
<1>3. /\ tool'[o].pc = "readFrame" /\ tool'[o].op = ops + 1
      /\ \A p \in Operators : p # o => tool'[p] = tool[p]
  BY <1>1, <1>2 DEF ToolGoto, NoInvocation
<1>4. LeaseHasHolder'
  BY <1>2, <1>3 DEF Accounted, LeaseHasHolder, Holding
<1>5. ASSUME NEW n \in 1..ops'
      PROVE  \/ \E r \in records' : r.op = n
             \/ \E p \in Operators : tool'[p].pc \notin {"idle", "warned"} /\ tool'[p].op = n
  <2>1. CASE n = ops + 1
    BY <1>3, <2>1
  <2>2. CASE n # ops + 1
    <3>1. n \in 1..ops
      BY <1>1, <1>2, <1>5, <2>2
    <3>. QED  BY <1>2, <1>3, <3>1 DEF Accounted, NoneForgotten
  <2>. QED  BY <2>1, <2>2
<1>. QED  BY <1>3, <1>4, <1>5 DEF Accounted, NoneForgotten

LEMMA RecNextAccounts == LeaseInv /\ Accounted /\ [RecNext]_allVars => Accounted'
<1>. SUFFICES ASSUME LeaseInv, Accounted, [RecNext]_allVars
              PROVE  Accounted'
  OBVIOUS
<1>1. ASSUME NEW o \in Operators, StartTool(o) \/ ContinueTool(o) \/ Die(o)
      PROVE  Accounted'
  BY <1>1, StartAccounts, ToolAccounts DEF Accounts
<1>2. CASE (Next \/ UNCHANGED vars) /\ UNCHANGED recVars
  <2>1. head'.maint = head.maint /\ head'.op = head.op
    BY <1>2, RequestsLeaveLease DEF LeaseInv, RecTypeOK
  <2>. QED  BY <1>2, <2>1 DEF recVars, Accounted, LeaseHasHolder, NoneForgotten, Holding
<1>3. ASSUME NEW e \in Entities, Damage(e)
      PROVE  Accounted'
  BY <1>3 DEF Damage, Accounted, LeaseHasHolder, NoneForgotten, Holding
<1>. QED  BY <1>1, <1>2, <1>3 DEF RecNext, allVars

\* The distance is a natural number, so it cannot shrink for ever.
LEMMA ToolDistanceType ==
    ASSUME NEW i \in Invocation
    PROVE  ToolDistance(i) \in Nat
BY DEF Invocation, ToolPoints, ToolDistance

LEMMA RecAccounted == RecSpec => []Accounted
<1>1. RecInit => Accounted
  BY DEF RecInit, Init, GenesisHead, Accounted, LeaseHasHolder, NoneForgotten
<1>2. RecInv => LeaseInv
  BY DEF RecInv
<1>. QED  BY <1>1, <1>2, RecNextAccounts, RecInvariance, PTL DEF RecSpec

\* A lease that is held is the lease of an invocation that still has to give it back, or
\* that shows why it does not: it was killed, it ended by an exception that nothing
\* caught, or it was warned that its release failed.
THEOREM LeaseAccounted == RecSpec => []LeaseHasHolder
<1>1. Accounted => LeaseHasHolder
  BY DEF Accounted
<1>. QED  BY <1>1, RecAccounted, PTL

\* No invocation of the tool is lost: each has its verdict in recovery_records, is still
\* running, was killed, or ended by an exception that nothing caught.
THEOREM RebuildsAccounted == RecSpec => []NoneForgotten
<1>1. Accounted => NoneForgotten
  BY DEF Accounted
<1>. QED  BY <1>1, RecAccounted, PTL

\* Every call a tool comes back from brings its end nearer, the except branch after the
\* lease was given back included, and only it or its death moves it.
THEOREM ToolsHurry == RecSpec => [][\A o \in Operators : ToolHurries(o)]_allVars
<1>1. RecInv => LeaseInv
  BY DEF RecInv
<1>2. LeaseInv /\ Accounted /\ [RecNext]_allVars => [\A o \in Operators : ToolHurries(o)]_allVars
  <2>. SUFFICES ASSUME LeaseInv, Accounted, RecNext, NEW o \in Operators
                PROVE  ToolHurries(o)
    OBVIOUS
  <2>1. ToolDistance(tool[o]) \in Nat
    BY ToolDistanceType DEF LeaseInv, RecTypeOK
  <2>2. ContinueTool(o) => ToolDistance(tool'[o]) < ToolDistance(tool[o])
    BY ToolAccounts DEF Accounts
  <2>3. ASSUME tool[o].pc # "idle", tool'[o] # tool[o]
        PROVE  ContinueTool(o) \/ Die(o)
    <3>1. ASSUME NEW p \in Operators, StartTool(p) \/ ContinueTool(p) \/ Die(p), p # o
          PROVE  FALSE
      BY <2>3, <3>1, StartAccounts, ToolAccounts DEF Accounts
    <3>2. ~StartTool(o) /\ tool' # tool
      BY <2>3 DEF StartTool, ToolAt
    <3>. QED  BY <3>1, <3>2 DEF RecNext, recVars, Damage
  <2>4. tool[o].pc \in Ended => ToolDistance(tool[o]) = 0
    BY DEF Ended, ToolDistance
  <2>. QED  BY <2>1, <2>2, <2>3, <2>4 DEF ToolHurries
<1>. QED  BY <1>1, <1>2, RecAccounted, RecInvariance, PTL DEF RecSpec
=============================================================================
