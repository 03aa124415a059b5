------------------------- MODULE InterventionProofs -------------------------
(***************************************************************************)
(* Proofs about Intervention, when interventions overlap nothing: for any  *)
(* number of clients, tools, entities, ticks and interventions, each of    *)
(* which may die between any two of its writes.                            *)
(*                                                                         *)
(* Three layers.  InterInv is about who uses the run and what an           *)
(* intervention was prepared from; SyncInv follows head, newest frame and  *)
(* order indexes through the writes, for any number of step requests;      *)
(* WholeInv follows what the events give, for requests that do not overlap *)
(* and as long as no entity document is lost.  Of a run with a torn        *)
(* intervention WholeInv says that nothing was torn after all (a rejected  *)
(* proposal) or that no inspection passes, until somebody intervenes again.*)
(***************************************************************************)
EXTENDS Intervention, RecoveryProofs

NobodyIntervenes == \A u \in Users : InterAt(u, "idle")

\* Where an intervention has its outcome; and where it has begun to write it.
WritePoints == {"insertEvents", "saveEntities", "updateHead", "syncFrame"}
TornPoints  == {"saveEntities", "updateHead", "syncFrame"}

\* What run_commit_frame makes of one proposal: one event next in order, or none.
Proposed(i) ==
    \/ i.evts = {} /\ i.next = i.run.order
    \/ /\ \E e \in Entities :
            i.evts = {[tick |-> i.run.tick, order |-> i.run.order, touched |-> {e}]}
       /\ i.next = i.run.order + 1

\* The head that was read is still the head, until the intervention writes it.
Underway(i) ==
    /\ i.run.tick = head.tick
    /\ i.pc # "syncFrame" => SameRun(i.run, head)
    /\ i.pc \in {"load", "propose"} => i.evts = {}
    /\ i.pc \in WritePoints => Proposed(i)

\* Whoever intervenes is alone with the run.
AloneWithRun ==
    \A u \in Users : ~InterAt(u, "idle") =>
        /\ Underway(inter[u])
        /\ \A v \in Users : ~InterAt(v, "idle") => v = u
        /\ \A s \in Steppers : At(s, "idle")
        /\ \A o \in Operators : tool[o].pc \in Ended
        /\ asked # 0

InterInv == LeaseInv /\ ServerTypeOK /\ AloneWithRun

\* The events have an order index each, in the order of their ticks.
InOrder(evts) ==
    \A a, b \in evts : /\ a.order = b.order => a = b
                       /\ a.order < b.order => a.tick <= b.tick

\* And are numbered from 0 to n - 1.
Numbered(n) ==
    /\ {ev.order : ev \in events} = 0..(n - 1)
    /\ InOrder(events)

\* How far an intervention has brought the documents in sync again.
HalfSynced(i) ==
    /\ Ticked
    /\ \A ev \in events : ev.tick \in 0..head.tick
    /\ i.pc \in {"load", "propose", "insertEvents"} => InSync
    /\ i.pc \in TornPoints => i.evts \subseteq events /\ Numbered(i.next)
    /\ i.pc \in {"saveEntities", "updateHead"} => FrameAgrees
    /\ i.pc = "syncFrame" => head.hash = i.end /\ head.order = i.next

\* As long as no intervention was torn.
SyncInv ==
    torn = 0 => /\ NobodyIntervenes => InSync
                /\ \A u \in Users : ~InterAt(u, "idle") => HalfSynced(inter[u])

\* The older frames give what the events give, and the newest gives evts.
OlderFaithful ==
    \A t \in 0..(head.tick - 1) :
        frames[t].end = HashOf(t, Replay({ev \in events : ev.tick <= t}))

NewestGives(evts) == frames[head.tick].end = HashOf(head.tick, Replay(evts))

\* All that a step relies on.
Whole == SerialInv /\ Projected

\* How far an intervention has brought the documents to what the events give.
HalfWhole(i) ==
    /\ i.pc \in {"load", "propose", "insertEvents"} => Whole
    /\ i.pc = "propose" => i.view = Replay(events)
    /\ i.pc = "insertEvents" => i.view = Apply(Replay(events), i.evts)
    /\ i.pc \in WritePoints => i.end = HashOf(i.run.tick, i.view)
    /\ i.pc \in TornPoints => /\ i.view = Replay(events)
                              /\ OlderFaithful
                              /\ NewestGives(events \ i.evts)
    /\ i.pc = "saveEntities" => entities = Replay(events \ i.evts)
    /\ i.pc \in {"updateHead", "syncFrame"} => Projected

\* No inspection passes, and nobody is past one.
Stuck ==
    /\ ~Agree
    /\ \A s \in Steppers : req[s].pc \in {"idle", "inspectHead"} \cup InspectPoints

WholeInv ==
    /\ RebuildInv
    /\ torn = 0 => /\ NobodyIntervenes => Whole
                   /\ \A u \in Users : ~InterAt(u, "idle") => HalfWhole(inter[u])
    /\ torn # 0 /\ torn = asked => NobodyIntervenes /\ (Whole \/ Stuck)

----------------------------------------------------------------------------
\* What the steps of an intervention make of its submission.

Becomes(u, j) == inter' = [inter EXCEPT ![u] = j]

LEMMA NoSubmissionType == NoSubmission \in Submission /\ NoSubmission.pc = "idle"
BY GenesisType DEF NoSubmission, Submission, InterPoints

LEMMA LoadEffect ==
    ASSUME ServerTypeOK, NEW u \in Users, LoadForInter(u)
    PROVE  \E j \in Submission :
             /\ Becomes(u, j)
             /\ j.pc = "propose" /\ j.run = inter[u].run /\ j.evts = inter[u].evts
             /\ j.view = entities
<1>1. inter[u] \in Submission /\ entities \in View
  BY DEF ServerTypeOK, RecTypeOK, TypeOK
<1>2. PICK j \in Submission : j = [[inter[u] EXCEPT !.view = entities] EXCEPT !.pc = "propose"]
  BY <1>1 DEF Submission, InterPoints
<1>3. /\ j.pc = "propose" /\ j.run = inter[u].run /\ j.evts = inter[u].evts
      /\ j.view = entities
  BY <1>1, <1>2 DEF Submission
<1>. QED  BY <1>2, <1>3 DEF LoadForInter, InterGoto, Becomes

LEMMA ProposeEffect ==
    ASSUME ServerTypeOK, NEW u \in Users, Underway(inter[u]), AcceptInter(u) \/ RejectInter(u)
    PROVE  \E j \in Submission :
             /\ Becomes(u, j)
             /\ j.pc = "insertEvents" /\ j.run = inter[u].run /\ Proposed(j)
             /\ \/ /\ j.view = Apply(inter[u].view, j.evts)
                   /\ j.end = HashOf(j.run.tick, j.view)
                \/ j.evts = {} /\ j.view = inter[u].view /\ j.end = j.run.hash
<1>. DEFINE i == inter[u]
            Effect(j) ==
             /\ Becomes(u, j)
             /\ j.pc = "insertEvents" /\ j.run = inter[u].run /\ Proposed(j)
             /\ \/ /\ j.view = Apply(inter[u].view, j.evts)
                   /\ j.end = HashOf(j.run.tick, j.view)
                \/ j.evts = {} /\ j.view = inter[u].view /\ j.end = j.run.hash
<1>1. /\ i \in Submission /\ i.run \in RunHead /\ i.view \in View
      /\ i.run.tick \in Nat /\ i.run.order \in Nat /\ i.run.hash \in Hash
      /\ i.run.order + 1 \in Nat
  BY DEF ServerTypeOK, Submission, RunHead
<1>2. CASE AcceptInter(u)
  <2>1. PICK e \in Entities :
          LET evts  == {[tick |-> i.run.tick, order |-> i.run.order, touched |-> {e}]}
              after == Apply(i.view, evts)
          IN  InterGoto(u, [i EXCEPT !.view = after, !.evts = evts,
                                     !.end = HashOf(i.run.tick, after),
                                     !.next = i.run.order + 1], "insertEvents")
    BY <1>2 DEF AcceptInter
  <2>2. PICK evts : evts = {[tick |-> i.run.tick, order |-> i.run.order, touched |-> {e}]}
    OBVIOUS
  <2>3. evts \in SUBSET Event
    BY <1>1, <2>2 DEF Event
  <2>4. PICK after \in View : after = Apply(i.view, evts)
    BY <1>1, <2>3, ApplyType
  <2>5. PICK end \in Hash : end = HashOf(i.run.tick, after)
    BY <1>1, HashOfType
  <2>6. PICK n \in Nat : n = i.run.order + 1
    BY <1>1
  <2>7. Becomes(u, [[i EXCEPT !.view = after, !.evts = evts, !.end = end, !.next = n]
                      EXCEPT !.pc = "insertEvents"])
    BY <2>1, <2>2, <2>4, <2>5, <2>6 DEF InterGoto, Becomes
  <2>8. PICK j \in Submission :
            j = [[i EXCEPT !.view = after, !.evts = evts, !.end = end, !.next = n]
                   EXCEPT !.pc = "insertEvents"]
    BY <1>1, <2>3 DEF Submission, InterPoints
  <2>9. /\ j.pc = "insertEvents" /\ j.run = i.run /\ j.view = after
        /\ j.evts = evts /\ j.end = end /\ j.next = n
    BY <1>1, <2>8 DEF Submission
  <2>10. Proposed(j)
    BY <2>2, <2>6, <2>9 DEF Proposed
  <2>. QED  BY <2>4, <2>5, <2>7, <2>8, <2>9, <2>10
<1>3. CASE RejectInter(u)
  <2>1. i.evts = {}
    BY <1>3 DEF RejectInter, InterAt, Underway
  <2>2. PICK j \in Submission :
            j = [[i EXCEPT !.end = i.run.hash, !.next = i.run.order] EXCEPT !.pc = "insertEvents"]
    BY <1>1 DEF Submission, InterPoints
  <2>3. /\ j.pc = "insertEvents" /\ j.run = i.run /\ j.view = i.view
        /\ j.evts = {} /\ j.end = i.run.hash /\ j.next = i.run.order
    BY <1>1, <2>1, <2>2 DEF Submission
  <2>. QED  BY <1>3, <2>2, <2>3 DEF RejectInter, InterGoto, Becomes, Proposed
<1>. QED  BY <1>2, <1>3

LEMMA WriteEffect ==
    ASSUME ServerTypeOK, NEW u \in Users, NEW pc \in InterPoints, InterGoto(u, inter[u], pc)
    PROVE  \E j \in Submission :
             /\ Becomes(u, j)
             /\ j.pc = pc /\ j.run = inter[u].run /\ j.view = inter[u].view
             /\ j.evts = inter[u].evts /\ j.end = inter[u].end /\ j.next = inter[u].next
<1>1. inter[u] \in Submission
  BY DEF ServerTypeOK
<1>2. PICK j \in Submission : j = [inter[u] EXCEPT !.pc = pc]
  BY <1>1 DEF Submission
<1>3. /\ j.pc = pc /\ j.run = inter[u].run /\ j.view = inter[u].view
      /\ j.evts = inter[u].evts /\ j.end = inter[u].end /\ j.next = inter[u].next
  BY <1>1, <1>2 DEF Submission
<1>. QED  BY <1>2, <1>3 DEF InterGoto, Becomes

----------------------------------------------------------------------------
\* Who uses the run.

\* The user who intervenes moves on; only documents of the right types change, and
\* neither tick nor lease.
LEMMA SubmissionMoves ==
    ASSUME InterInv, NEW u \in Users, ~InterAt(u, "idle"), NEW j \in Submission,
           Becomes(u, j), j.pc # "idle" => Underway(j)',
           UNCHANGED <<world, req, recVars, asked>>, TypeOK',
           head'.maint = head.maint, head'.op = head.op, torn' \in {torn, asked}
    PROVE  /\ InterInv'
           /\ inter'[u] = j
           /\ \A v \in Users : v # u => inter'[v].pc = "idle"
<1>1. /\ inter \in [Users -> Submission] /\ asked \in 0..MaxInter /\ torn \in 0..asked
      /\ MaxInter \in Nat
  BY InterventionAssumption DEF InterInv, ServerTypeOK
<1>2. /\ \A v \in Users : inter[v].pc # "idle" => v = u
      /\ \A s \in Steppers : req[s].pc = "idle"
      /\ \A o \in Operators : tool[o].pc \in Ended
      /\ asked # 0
  BY DEF InterInv, AloneWithRun, InterAt, At
<1>3. /\ inter' \in [Users -> Submission] /\ inter'[u] = j
      /\ \A v \in Users : v # u => inter'[v] = inter[v]
  BY <1>1 DEF Becomes
<1>4. RequestsInv'
  BY <1>2 DEF RequestsInv, RequestInv, FramePoints
<1>5. RecTypeOK'
  BY DEF InterInv, LeaseInv, RecTypeOK, recVars
<1>6. ASSUME NEW o \in Operators
      PROVE  ToolInv(tool[o])'
  BY <1>2 DEF Ended, InterInv, LeaseInv, ToolInv, recVars
<1>7. Apart' /\ LeaseNamed' /\ RecordsInv'
  BY DEF InterInv, LeaseInv, Apart, LeaseNamed, RecordsInv, OneVerdict, recVars
<1>8. ServerTypeOK'
  BY <1>1, <1>3, <1>5 DEF ServerTypeOK
<1>9. AloneWithRun'
  BY <1>2, <1>3 DEF AloneWithRun, InterAt, At, Underway, recVars
<1>. QED  BY <1>2, <1>3, <1>4, <1>5, <1>6, <1>7, <1>8, <1>9 DEF InterInv, LeaseInv

\* And the head, the newest frame and the order indexes are in sync after it, if they
\* are as far in sync as its submission says.
LEMMA MovesInSync ==
    ASSUME InterInv, NEW u \in Users, ~InterAt(u, "idle"), NEW j \in Submission,
           Becomes(u, j), j.pc # "idle" => Underway(j)',
           UNCHANGED <<world, req, recVars, asked>>, TypeOK',
           head'.maint = head.maint, head'.op = head.op, torn' \in {torn, asked},
           torn' = 0 => torn = 0,
           SyncInv /\ torn' = 0 => IF j.pc = "idle" THEN InSync' ELSE HalfSynced(j)'
    PROVE  InterInv' /\ (SyncInv => SyncInv')
<1>1. /\ InterInv'
      /\ inter'[u] = j
      /\ \A v \in Users : v # u => inter'[v].pc = "idle"
  BY SubmissionMoves
<1>2. ASSUME SyncInv, torn' = 0
      PROVE  /\ NobodyIntervenes' => InSync'
             /\ \A v \in Users : ~InterAt(v, "idle")' => HalfSynced(inter[v])'
  <2>1. CASE j.pc = "idle"
    BY <1>1, <1>2, <2>1 DEF InterAt
  <2>2. CASE j.pc # "idle"
    <3>1. HalfSynced(j)' /\ ~NobodyIntervenes'
      BY <1>1, <1>2, <2>2 DEF NobodyIntervenes, InterAt
    <3>2. HalfSynced(inter[u])'
      BY <1>1, <3>1 DEF HalfSynced
    <3>. QED  BY <1>1, <3>1, <3>2 DEF InterAt
  <2>. QED  BY <2>1, <2>2
<1>. QED  BY <1>1, <1>2 DEF SyncInv

\* What the user who intervenes has, and what is in sync before a write.
LEMMA SubmissionFacts ==
    ASSUME InterInv, NEW u \in Users, ~InterAt(u, "idle")
    PROVE  /\ inter[u] \in Submission /\ Underway(inter[u]) /\ asked \in Nat \ {0} /\ torn \in Nat
           /\ TypeOK /\ ServerTypeOK
           /\ SyncInv /\ torn = 0 => HalfSynced(inter[u])
BY InterventionAssumption
   DEF InterInv, ServerTypeOK, AloneWithRun, LeaseInv, RequestsInv, SyncInv

\* Until it writes, an intervention changes nothing.
LEMMA PrepareSync ==
    ASSUME InterInv, NEW u \in Users, LoadForInter(u) \/ AcceptInter(u) \/ RejectInter(u)
    PROVE  InterInv' /\ (SyncInv => SyncInv')
<1>1. /\ inter[u].pc \in {"load", "propose"} /\ ~InterAt(u, "idle")
      /\ UNCHANGED <<allVars, asked, torn>>
  BY DEF LoadForInter, AcceptInter, RejectInter, InterAt
<1>2. /\ Underway(inter[u]) /\ TypeOK /\ ServerTypeOK
      /\ SyncInv /\ torn = 0 => HalfSynced(inter[u])
  BY <1>1, SubmissionFacts
<1>3. PICK j \in Submission : /\ Becomes(u, j) /\ j.pc \in {"propose", "insertEvents"}
                              /\ j.run = inter[u].run
                              /\ j.pc = "propose" => j.evts = {}
                              /\ j.pc = "insertEvents" => Proposed(j)
  <2>1. CASE LoadForInter(u)
    BY <1>1, <1>2, <2>1, LoadEffect DEF Underway, LoadForInter, InterAt
  <2>2. CASE AcceptInter(u) \/ RejectInter(u)
    BY <1>2, <2>2, ProposeEffect
  <2>. QED  BY <2>1, <2>2
<1>4. UNCHANGED <<world, head, frames, events, entities, req, recVars, asked, torn>>
  BY <1>1 DEF allVars, vars, docs
<1>5. Underway(j)'
  BY <1>1, <1>2, <1>3, <1>4 DEF Underway, Proposed, WritePoints, SameRun
<1>6. SyncInv /\ torn' = 0 => HalfSynced(j)'
  BY <1>1, <1>2, <1>3, <1>4 DEF HalfSynced, TornPoints, InSync, OrderIndexes, Ticked
<1>7. TypeOK'
  BY <1>2, <1>4 DEF TypeOK
<1>. QED  BY <1>1, <1>3, <1>4, <1>5, <1>6, <1>7, MovesInSync

\* Nothing to propose, or the server dies: the run is in sync unless something was
\* written, and then torn says so.
LEMMA EndSync ==
    ASSUME InterInv, NEW u \in Users, RefuseInter(u) \/ CrashInter(u)
    PROVE  InterInv' /\ (SyncInv => SyncInv')
<1>1. /\ ~InterAt(u, "idle") /\ Becomes(u, NoSubmission) /\ UNCHANGED <<allVars, asked>>
      /\ torn' = torn \/ torn' = asked
      /\ asked # 0 /\ torn' = 0 => torn = 0 /\ inter[u].pc \notin TornPoints
  BY DEF RefuseInter, CrashInter, InterAt, Becomes, TornPoints
<1>2. /\ TypeOK /\ asked # 0 /\ inter[u] \in Submission
      /\ SyncInv /\ torn = 0 => HalfSynced(inter[u])
  BY <1>1, SubmissionFacts
<1>3. UNCHANGED <<world, head, frames, events, entities, req, recVars, asked>>
  BY <1>1 DEF allVars, vars, docs
<1>4. TypeOK'
  BY <1>2, <1>3 DEF TypeOK
<1>5. SyncInv /\ torn' = 0 => InSync'
  <2>. SUFFICES ASSUME SyncInv, torn' = 0
                PROVE  InSync'
    OBVIOUS
  <2>1. inter[u].pc \in {"load", "propose", "insertEvents"} /\ HalfSynced(inter[u])
    BY <1>1, <1>2 DEF Submission, InterPoints, InterAt, TornPoints
  <2>. QED  BY <1>3, <2>1 DEF HalfSynced, InSync, OrderIndexes
<1>. QED  BY <1>1, <1>2, <1>3, <1>4, <1>5, NoSubmissionType, MovesInSync

\* A write moves the submission on to the next one.
LEMMA WriteMoves ==
    ASSUME InterInv, NEW u \in Users, NEW pc \in TornPoints, InterGoto(u, inter[u], pc),
           inter[u].pc \in WritePoints \ {"syncFrame"}, NEW n \in Nat, n = inter[u].next,
           UNCHANGED <<world, req, recVars, asked, torn>>,
           TypeOK', head'.tick = head.tick, head'.maint = head.maint, head'.op = head.op,
           pc # "syncFrame" => SameRun(head', head),
           SyncInv /\ torn = 0 /\ HalfSynced(inter[u]) =>
             /\ Ticked' /\ \A ev \in events' : ev.tick \in 0..head'.tick
             /\ inter[u].evts \subseteq events' /\ Numbered(n)'
             /\ pc # "syncFrame" => FrameAgrees'
             /\ pc = "syncFrame" => head'.hash = inter[u].end /\ head'.order = n
    PROVE  InterInv' /\ (SyncInv => SyncInv')
<1>. DEFINE i == inter[u]
<1>1. ~InterAt(u, "idle")
  BY DEF InterAt, WritePoints
<1>2. /\ i \in Submission /\ Underway(i) /\ TypeOK /\ ServerTypeOK
      /\ SyncInv /\ torn = 0 => HalfSynced(i)
  BY <1>1, SubmissionFacts
<1>3. PICK j \in Submission :
             /\ Becomes(u, j)
             /\ j.pc = pc /\ j.run = i.run /\ j.view = i.view
             /\ j.evts = i.evts /\ j.end = i.end /\ j.next = i.next
  BY <1>2, WriteEffect DEF TornPoints, InterPoints
<1>4. i.run.tick = head.tick /\ Proposed(i)
  BY <1>2 DEF Underway
<1>5. pc # "syncFrame" => SameRun(i.run, head')
  BY <1>2 DEF Underway, SameRun
<1>6. Underway(j)'
  BY <1>3, <1>4, <1>5 DEF Underway, Proposed, TornPoints, SameRun
<1>7. ASSUME SyncInv, torn' = 0
      PROVE  HalfSynced(j)'
  <2>1. /\ Ticked' /\ \A ev \in events' : ev.tick \in 0..head'.tick
        /\ j.evts \subseteq events' /\ Numbered(j.next)'
        /\ pc # "syncFrame" => FrameAgrees'
        /\ pc = "syncFrame" => head'.hash = j.end /\ head'.order = j.next
    BY <1>2, <1>3, <1>7
  <2>. QED  BY <1>3, <2>1 DEF HalfSynced, TornPoints
<1>. QED  BY <1>1, <1>3, <1>6, <1>7, MovesInSync DEF TornPoints

\* What a proposal adds is next in order, and of the newest tick.
LEMMA ProposedNext ==
    ASSUME TypeOK, InSync, NEW i \in Submission, Underway(i), i.pc = "insertEvents"
    PROVE  /\ i.evts \in SUBSET Event /\ i.next \in Nat /\ i.evts \cap events = {}
           /\ \A ev \in i.evts : ev.tick = head.tick
           /\ {ev.order : ev \in events \cup i.evts} = 0..(i.next - 1)
           /\ InOrder(events \cup i.evts)
<1>1. /\ Proposed(i) /\ i.run.tick = head.tick /\ i.run.order = head.order
      /\ i.evts \in SUBSET Event /\ i.next \in Nat
      /\ head.order \in Nat /\ head.tick \in Nat
  BY DEF Underway, WritePoints, SameRun, Submission, TypeOK, RunHead
<1>2. /\ {ev.order : ev \in events} = 0..(head.order - 1)
      /\ InOrder(events)
      /\ \A ev \in events : ev.tick \in 0..head.tick
  BY DEF InSync, OrderIndexes, InOrder
<1>3. \A ev \in events : ev.order \in 0..(head.order - 1)
  BY <1>2
<1>4. CASE i.evts = {} /\ i.next = head.order
  BY <1>1, <1>2, <1>4
<1>5. CASE i.evts # {}
  <2>1. PICK new : i.evts = {new} /\ new.tick = head.tick /\ new.order = head.order
    <3>1. PICK e \in Entities :
              i.evts = {[tick |-> i.run.tick, order |-> i.run.order, touched |-> {e}]}
      BY <1>1, <1>5 DEF Proposed
    <3>2. PICK new : new = [tick |-> i.run.tick, order |-> i.run.order, touched |-> {e}]
      OBVIOUS
    <3>. QED  BY <1>1, <3>1, <3>2
  <2>2. i.next = head.order + 1
    BY <1>1, <1>5 DEF Proposed
  <2>3. {ev.order : ev \in events \cup {new}} = 0..head.order
    <3>1. {ev.order : ev \in events \cup {new}} = {ev.order : ev \in events} \cup {new.order}
      OBVIOUS
    <3>. QED  BY <1>1, <1>2, <2>1, <3>1
  <2>4. InOrder(events \cup {new})
    BY <1>1, <1>2, <1>3, <2>1 DEF InOrder
  <2>5. new \notin events
    BY <1>1, <1>3, <2>1
  <2>. QED  BY <1>1, <2>1, <2>2, <2>3, <2>4, <2>5
<1>. QED  BY <1>1, <1>4, <1>5 DEF Proposed

LEMMA InsertSync ==
    ASSUME InterInv, NEW u \in Users, InsertEvents(u)
    PROVE  InterInv' /\ (SyncInv => SyncInv')
<1>. DEFINE i == inter[u]
<1>1. /\ i.pc = "insertEvents" /\ ~InterAt(u, "idle") /\ events' = events \cup i.evts
      /\ InterGoto(u, i, "saveEntities")
      /\ UNCHANGED <<world, head, frames, entities, req, recVars, asked, torn>>
  BY DEF InsertEvents, InterAt
<1>2. i \in Submission /\ Underway(i) /\ TypeOK
  BY <1>1, SubmissionFacts
<1>3. PICK n \in Nat : n = i.next
  BY <1>2 DEF Submission
<1>4. TypeOK'
  BY <1>1, <1>2 DEF TypeOK, Submission
<1>5. ASSUME HalfSynced(i)
      PROVE  /\ Ticked' /\ \A ev \in events' : ev.tick \in 0..head'.tick
             /\ i.evts \subseteq events' /\ Numbered(n)' /\ FrameAgrees'
  <2>1. InSync /\ head.tick \in Nat
    BY <1>1, <1>2, <1>5 DEF HalfSynced, TypeOK, RunHead
  <2>2. Numbered(n)'
    BY <1>1, <1>2, <1>3, <2>1, ProposedNext DEF Numbered
  <2>3. \A ev \in events' : ev.tick \in 0..head'.tick
    <3>1. \A ev \in i.evts : ev.tick = head.tick
      BY <1>1, <1>2, <2>1, ProposedNext
    <3>. QED  BY <1>1, <2>1, <3>1 DEF InSync
  <2>. QED  BY <1>1, <2>1, <2>2, <2>3 DEF InSync, Ticked, FrameAgrees
<1>. QED  BY <1>1, <1>3, <1>4, <1>5, WriteMoves DEF TornPoints, WritePoints, SameRun

LEMMA SaveSync ==
    ASSUME InterInv, NEW u \in Users, SaveEntities(u)
    PROVE  InterInv' /\ (SyncInv => SyncInv')
<1>. DEFINE i == inter[u]
<1>1. /\ i.pc = "saveEntities" /\ ~InterAt(u, "idle") /\ InterGoto(u, i, "updateHead")
      /\ UNCHANGED <<world, head, frames, events, req, recVars, asked, torn>>
      /\ entities' = [e \in Entities |-> IF \E ev \in i.evts : e \in ev.touched
                                        THEN i.view[e] ELSE entities[e]]
  BY DEF SaveEntities, InterAt
<1>2. i \in Submission /\ Underway(i) /\ TypeOK
  BY <1>1, SubmissionFacts
<1>3. PICK n \in Nat : n = i.next
  BY <1>2 DEF Submission
<1>4. entities' \in View
  <2>1. i.view \in View /\ entities \in View
    BY <1>2 DEF Submission, TypeOK
  <2>. QED  BY <1>1, <2>1 DEF View
<1>5. TypeOK'
  BY <1>1, <1>2, <1>4 DEF TypeOK
<1>6. ASSUME HalfSynced(i)
      PROVE  /\ Ticked' /\ \A ev \in events' : ev.tick \in 0..head'.tick
             /\ i.evts \subseteq events' /\ Numbered(n)' /\ FrameAgrees'
  BY <1>1, <1>3, <1>6 DEF HalfSynced, TornPoints, Ticked, Numbered, FrameAgrees
<1>. QED  BY <1>1, <1>3, <1>5, <1>6, WriteMoves DEF TornPoints, WritePoints, SameRun

LEMMA HeadSync ==
    ASSUME InterInv, NEW u \in Users, UpdateHead(u)
    PROVE  /\ InterInv' /\ (SyncInv => SyncInv')
           /\ head'.tick = head.tick /\ head'.hash = inter[u].end /\ head'.order = inter[u].next
<1>. DEFINE i == inter[u]
<1>1. /\ i.pc = "updateHead" /\ ~InterAt(u, "idle") /\ InterGoto(u, i, "syncFrame")
      /\ UNCHANGED <<world, frames, events, entities, req, recVars, asked, torn>>
      /\ head' = [head EXCEPT !.hash = i.end, !.order = i.next]
  BY DEF UpdateHead, InterAt
<1>2. i \in Submission /\ Underway(i) /\ TypeOK
  BY <1>1, SubmissionFacts
<1>3. PICK n \in Nat : n = i.next
  BY <1>2 DEF Submission
<1>4. PICK h \in Hash : h = i.end
  BY <1>2 DEF Submission
<1>5. /\ head' \in RunHead /\ head'.tick = head.tick /\ head'.maint = head.maint
      /\ head'.op = head.op /\ head'.hash = h /\ head'.order = n
  <2>1. head \in RunHead /\ head' = [head EXCEPT !.hash = h, !.order = n]
    BY <1>1, <1>2, <1>3, <1>4 DEF TypeOK
  <2>. QED  BY <2>1 DEF RunHead
<1>6. TypeOK'
  BY <1>1, <1>2, <1>5 DEF TypeOK
<1>7. ASSUME HalfSynced(i)
      PROVE  /\ Ticked' /\ \A ev \in events' : ev.tick \in 0..head'.tick
             /\ i.evts \subseteq events' /\ Numbered(n)'
             /\ head'.hash = i.end /\ head'.order = n
  BY <1>1, <1>3, <1>4, <1>5, <1>7 DEF HalfSynced, TornPoints, Ticked, Numbered
<1>. QED  BY <1>1, <1>3, <1>4, <1>5, <1>6, <1>7, WriteMoves DEF TornPoints, WritePoints

LEMMA FrameSync ==
    ASSUME InterInv, NEW u \in Users, SyncFrame(u)
    PROVE  /\ InterInv' /\ (SyncInv => SyncInv')
           /\ DOMAIN frames' = DOMAIN frames
           /\ \A t \in DOMAIN frames :
                /\ frames'[t].identity = frames[t].identity
                /\ frames'[t].end = IF t = head.tick THEN inter[u].end ELSE frames[t].end
<1>. DEFINE i == inter[u]
<1>1. /\ i.pc = "syncFrame" /\ ~InterAt(u, "idle") /\ Becomes(u, NoSubmission)
      /\ UNCHANGED <<world, head, events, entities, req, recVars, asked, torn>>
      /\ frames' = [frames EXCEPT ![i.run.tick].end = i.end]
  BY DEF SyncFrame, InterAt, Becomes
<1>2. /\ i \in Submission /\ Underway(i) /\ TypeOK
      /\ SyncInv /\ torn = 0 => HalfSynced(i)
  BY <1>1, SubmissionFacts
<1>3. PICK n \in Nat : n = head.tick
  BY <1>2 DEF TypeOK, RunHead
<1>4. PICK h \in Hash : h = i.end
  BY <1>2 DEF Submission
<1>5. frames \in [0..n -> FrameDoc] /\ frames' = [frames EXCEPT ![n].end = h] /\ n \in 0..n
  BY <1>1, <1>2, <1>3, <1>4 DEF TypeOK, Underway
<1>6. /\ frames' \in [0..n -> FrameDoc]
      /\ \A t \in 0..n : /\ frames'[t].identity = frames[t].identity
                         /\ frames'[t].end = IF t = n THEN h ELSE frames[t].end
  BY <1>5 DEF FrameDoc
<1>7. TypeOK'
  BY <1>1, <1>2, <1>3, <1>6 DEF TypeOK
<1>8. ASSUME SyncInv, torn' = 0
      PROVE  InSync'
  <2>1. HalfSynced(i)
    BY <1>1, <1>2, <1>8
  <2>2. head'.hash = frames'[head'.tick].end
    BY <1>1, <1>3, <1>4, <1>5, <1>6, <2>1 DEF HalfSynced
  <2>3. \A t \in 0..head'.tick : frames'[t].identity.tick = t
    BY <1>1, <1>3, <1>6, <2>1 DEF HalfSynced, Ticked
  <2>4. \A ev \in events' : ev.tick \in 0..head'.tick
    BY <1>1, <2>1 DEF HalfSynced
  <2>5. OrderIndexes'
    BY <1>1, <2>1 DEF HalfSynced, TornPoints, Numbered, InOrder, OrderIndexes
  <2>. QED  BY <2>2, <2>3, <2>4, <2>5 DEF InSync
<1>9. InterInv' /\ (SyncInv => SyncInv')
  BY <1>1, <1>2, <1>7, <1>8, NoSubmissionType, MovesInSync
<1>. QED  BY <1>3, <1>4, <1>5, <1>6, <1>9

\* Nobody uses the run when an intervention begins.
LEMMA SubmitSync ==
    ASSUME ~Overlap, InterInv, NEW u \in Users, Submit(u)
    PROVE  InterInv' /\ (SyncInv => SyncInv')
<1>1. /\ UNCHANGED <<allVars, torn>> /\ asked' = asked + 1 /\ asked < MaxInter
      /\ InterGoto(u, [NoSubmission EXCEPT !.run = head], "load")
      /\ \A s \in Steppers : req[s].pc = "idle"
      /\ \A o \in Operators : tool[o].pc \in Ended
      /\ \A v \in Users : inter[v].pc = "idle"
  BY DEF Submit, RunUnused, At, InterAt
<1>2. UNCHANGED <<world, head, frames, events, entities, req, recVars, torn>>
  BY <1>1 DEF allVars, vars, docs
<1>3. /\ TypeOK /\ LeaseInv /\ inter \in [Users -> Submission] /\ asked \in 0..MaxInter
      /\ torn \in 0..asked /\ MaxInter \in Nat
  BY InterventionAssumption DEF InterInv, ServerTypeOK, LeaseInv, RequestsInv
<1>4. PICK j \in Submission : j = [[NoSubmission EXCEPT !.run = head] EXCEPT !.pc = "load"]
  BY <1>3, NoSubmissionType DEF Submission, InterPoints, TypeOK
<1>5. j.pc = "load" /\ j.run = head /\ j.evts = {}
  BY <1>4, NoSubmissionType DEF Submission, NoSubmission
<1>6. /\ inter' \in [Users -> Submission] /\ inter'[u] = j
      /\ \A v \in Users : v # u => inter'[v] = inter[v]
  BY <1>1, <1>3, <1>4 DEF InterGoto
<1>7. asked' \in 0..MaxInter /\ asked' # 0 /\ torn' \in 0..asked'
  BY <1>1, <1>3
<1>8. LeaseInv'
  BY <1>2, <1>3, RecNextStep, <1>1 DEF Step
<1>9. ServerTypeOK'
  BY <1>6, <1>7, <1>8 DEF ServerTypeOK, LeaseInv
<1>10. Underway(j)'
  BY <1>2, <1>5 DEF Underway, WritePoints, SameRun
<1>11. AloneWithRun'
  BY <1>1, <1>2, <1>6, <1>7, <1>10 DEF AloneWithRun, InterAt, At, Underway, recVars
<1>12. ASSUME SyncInv, torn' = 0
       PROVE  /\ NobodyIntervenes' => InSync'
              /\ \A v \in Users : ~InterAt(v, "idle")' => HalfSynced(inter[v])'
  <2>1. InSync
    BY <1>1, <1>2, <1>12 DEF SyncInv, NobodyIntervenes, InterAt
  <2>2. InSync'
    BY <1>2, <2>1 DEF InSync, OrderIndexes
  <2>3. HalfSynced(j)'
    BY <1>5, <2>2 DEF HalfSynced, TornPoints, InSync, Ticked
  <2>. QED  BY <1>1, <1>6, <2>2, <2>3 DEF InterAt, HalfSynced
<1>. QED  BY <1>8, <1>9, <1>11, <1>12 DEF InterInv, SyncInv

\* Requests, tools and damage, while nobody intervenes.
LEMMA RecSync ==
    ASSUME InterInv, NobodyIntervenes, [RecNext]_allVars, UNCHANGED interVars
    PROVE  InterInv' /\ (SyncInv => SyncInv')
<1>1. LeaseInv' /\ LeaseInv /\ TypeOK /\ RequestsInv
  BY RecNextStep DEF InterInv, Step, LeaseInv, RequestsInv
<1>2. InSync => InSync'
  <2>1. CASE [Next]_vars
    BY <1>1, <2>1, NextInSync
  <2>2. CASE ToolStep
    BY <1>1, <2>2, SameHistoryKeeps DEF ToolStep
  <2>. QED  BY <1>1, <2>1, <2>2, ToolNextStep DEF RecNext, allVars
<1>3. ServerTypeOK' /\ AloneWithRun' /\ NobodyIntervenes'
  BY <1>1 DEF InterInv, ServerTypeOK, AloneWithRun, NobodyIntervenes, InterAt, interVars, LeaseInv
<1>4. SyncInv => SyncInv'
  BY <1>2, <1>3 DEF SyncInv, NobodyIntervenes, interVars
<1>. QED  BY <1>1, <1>3, <1>4 DEF InterInv

LEMMA ServerNextSync ==
    ASSUME ~Overlap
    PROVE  InterInv /\ [ServerNext]_serverVars => InterInv' /\ (SyncInv => SyncInv')
<1>. SUFFICES ASSUME InterInv, [ServerNext]_serverVars
              PROVE  InterInv' /\ (SyncInv => SyncInv')
  OBVIOUS
<1>1. CASE NobodyIntervenes /\ [RecNext]_allVars /\ UNCHANGED interVars
  BY <1>1, RecSync
<1>2. CASE UNCHANGED serverVars
  <2>1. UNCHANGED <<allVars, inter, asked, torn>>
    BY <1>2 DEF serverVars, interVars
  <2>2. UNCHANGED <<world, head, frames, events, entities, req, recVars, inter, asked, torn>>
    BY <2>1 DEF allVars, vars, docs
  <2>3. LeaseInv'
    BY <2>1, RecNextStep DEF InterInv, Step
  <2>4. ServerTypeOK' /\ AloneWithRun'
    BY <2>2, <2>3 DEF InterInv, LeaseInv, ServerTypeOK, AloneWithRun, InterAt, At, Underway,
                      Proposed, SameRun, recVars
  <2>5. InSync <=> InSync'
    BY <2>2 DEF InSync, OrderIndexes
  <2>6. \A i : HalfSynced(i) <=> HalfSynced(i)'
    BY <2>2, <2>5 DEF HalfSynced, Ticked, Numbered, InOrder, FrameAgrees
  <2>7. SyncInv => SyncInv'
    BY <2>2, <2>5, <2>6 DEF SyncInv, NobodyIntervenes, InterAt, HalfSynced
  <2>. QED  BY <2>3, <2>4, <2>7 DEF InterInv
<1>3. ASSUME NEW u \in Users, Submit(u) \/ ContinueInter(u) \/ CrashInter(u)
      PROVE  InterInv' /\ (SyncInv => SyncInv')
  BY <1>3, SubmitSync, PrepareSync, EndSync, InsertSync, SaveSync, HeadSync, FrameSync
     DEF ContinueInter
<1>. QED  BY <1>1, <1>2, <1>3 DEF ServerNext, NobodyIntervenes

LEMMA ServerInitInv == InterInit => InterInv /\ SyncInv
<1>. SUFFICES ASSUME InterInit
              PROVE  InterInv /\ SyncInv
  OBVIOUS
<1>1. LeaseInv /\ IndInv
  BY RecInitInv DEF InterInit, RecInv
<1>2. InSync
  BY <1>1, DocsInvInSync DEF IndInv, RequestsInv, TypeOK, DocsType
<1>3. /\ inter \in [Users -> Submission] /\ \A u \in Users : InterAt(u, "idle")
      /\ asked = 0 /\ torn = 0
  BY NoSubmissionType DEF InterInit, InterAt
<1>4. ServerTypeOK
  BY <1>1, <1>3, InterventionAssumption DEF ServerTypeOK, LeaseInv
<1>. QED  BY <1>1, <1>2, <1>3, <1>4 DEF InterInv, AloneWithRun, SyncInv

LEMMA ServerInvariance ==
    ASSUME ~Overlap
    PROVE  ServerSpec => [](InterInv /\ SyncInv)
<1>1. InterInv /\ SyncInv /\ [ServerNext]_serverVars => (InterInv /\ SyncInv)'
  BY ServerNextSync
<1>. QED  BY <1>1, ServerInitInv, PTL DEF ServerSpec

----------------------------------------------------------------------------
\* What the invariants say, for any number of requests, tools and users.

\* The submissions keep their types, and so do the documents although an intervention
\* writes them without a transaction.
THEOREM ServerTypeCorrect ==
    ASSUME ~Overlap
    PROVE  ServerSpec => []ServerTypeOK
<1>1. InterInv => ServerTypeOK
  BY DEF InterInv
<1>. QED  BY <1>1, ServerInvariance, PTL

\* api_submit_intervention leaves head, newest frame and order indexes in agreement,
\* however many intervene, unless it dies between its writes.
THEOREM HeadStaysInSync ==
    ASSUME ~Overlap
    PROVE  ServerSpec => []HeadInSync
<1>1. InterInv /\ SyncInv => HeadInSync
  BY DEF SyncInv, HeadInSync, Settled, NobodyIntervenes, InSync, OrderIndexes
<1>. QED  BY <1>1, ServerInvariance, PTL

\* The lease stays exclusive beside interventions, which look neither at it nor at the
\* quarantine: they begin only on a run nobody uses.
THEOREM LeaseBesideInterventions ==
    ASSUME ~Overlap
    PROVE  ServerSpec => [](LeaseHeld /\ OneVerdict)
<1>1. InterInv => LeaseHeld /\ OneVerdict
  BY DEF InterInv, LeaseInv, ToolInv, RecordsInv, LeaseHeld, ToolAt
<1>. QED  BY <1>1, ServerInvariance, PTL

----------------------------------------------------------------------------
\* Step requests and tools beside interventions.

\* What an intervention leaves alone: the tick, the frames' identities, requests and tools,
\* none of which is at work.
LEMMA InterventionLeaves ==
    ASSUME ~Overlap, InterInv, NEW u \in Users, Submit(u) \/ ContinueInter(u) \/ CrashInter(u)
    PROVE  /\ UNCHANGED <<req, recVars>> /\ head'.tick = head.tick
           /\ DOMAIN frames' = DOMAIN frames
           /\ \A t \in DOMAIN frames : frames'[t].identity = frames[t].identity
           /\ \A s \in Steppers : req[s].pc = "idle"
           /\ \A o \in Operators : tool[o].pc \in Ended
<1>1. /\ \A s \in Steppers : req[s].pc = "idle"
      /\ \A o \in Operators : tool[o].pc \in Ended
  <2>1. CASE Submit(u)
    BY <2>1 DEF Submit, RunUnused, At
  <2>2. CASE ~InterAt(u, "idle")
    BY <2>2 DEF InterInv, AloneWithRun, At
  <2>. QED  BY <2>1, <2>2
            DEF ContinueInter, LoadForInter, RefuseInter, AcceptInter, RejectInter, InsertEvents,
                SaveEntities, UpdateHead, SyncFrame, CrashInter, InterAt
<1>2. CASE UpdateHead(u)
  <2>1. UNCHANGED <<req, recVars, frames>>
    BY <1>2 DEF UpdateHead
  <2>. QED  BY <1>1, <1>2, <2>1, HeadSync
<1>3. CASE SyncFrame(u)
  <2>1. UNCHANGED <<req, recVars, head>>
    BY <1>3 DEF SyncFrame
  <2>. QED  BY <1>1, <1>3, <2>1, FrameSync
<1>4. CASE InsertEvents(u) \/ SaveEntities(u)
  BY <1>1, <1>4 DEF InsertEvents, SaveEntities
<1>5. CASE UNCHANGED allVars
  BY <1>1, <1>5 DEF allVars, vars, docs
<1>. QED  BY <1>2, <1>3, <1>4, <1>5
          DEF Submit, ContinueInter, CrashInter, LoadForInter, RefuseInter, AcceptInter, RejectInter

\* What the inspections have seen is kept: none is under way while somebody intervenes.
LEMMA ServerNextSeen ==
    ASSUME ~Overlap
    PROVE  InterInv /\ SeenInv /\ [ServerNext]_serverVars => SeenInv'
<1>. SUFFICES ASSUME InterInv, SeenInv, [ServerNext]_serverVars
              PROVE  SeenInv'
  OBVIOUS
<1>1. ASSUME NEW u \in Users, Submit(u) \/ ContinueInter(u) \/ CrashInter(u)
      PROVE  SeenInv'
  BY <1>1, InterventionLeaves DEF SeenInv, Seen, InspectPoints
<1>2. CASE [RecNext]_allVars
  BY <1>2, RecNextSeen DEF InterInv
<1>. QED  BY <1>1, <1>2 DEF ServerNext, serverVars

\* A step is refused for a mismatch only of a run that is inconsistent, or whose head
\* has moved since it was read: other requests may commit, tools rebuild and, before and
\* after, users intervene, some of them being cut off halfway.
THEOREM MismatchBesideInterventions ==
    ASSUME ~Overlap
    PROVE  ServerSpec => NoSpuriousMismatch
<1>. DEFINE Honest == \A s \in Steppers :
              (At(s, "inspectEntities") /\ req'[s].result = "RUN_INTEGRITY_MISMATCH") =>
                  ~StoreConsistent \/ head.rev # req[s].run.rev
<1>1. InterInit => SeenInv
  BY InitSeen DEF InterInit, RecInit
<1>2. InterInv /\ SeenInv /\ [ServerNext]_serverVars => SeenInv'
  BY ServerNextSeen
<1>3. InterInv /\ SeenInv /\ [ServerNext]_serverVars => [Honest]_vars
  <2>. SUFFICES ASSUME InterInv, SeenInv, [ServerNext]_serverVars
                PROVE  Honest
    OBVIOUS
  <2>1. RequestsInv /\ LeaseInv
    BY DEF InterInv, LeaseInv
  <2>2. CASE [Next]_vars
    BY <2>1, <2>2, MismatchTrue
  <2>3. CASE UNCHANGED req
    BY <2>1, <2>3 DEF RequestsInv, RequestInv, At
  <2>. QED  BY <2>1, <2>2, <2>3, RequestsOrTools, InterventionLeaves DEF ServerNext, serverVars
<1>. QED  BY <1>1, <1>2, <1>3, ServerInvariance, PTL DEF ServerSpec, NoSpuriousMismatch

----------------------------------------------------------------------------
\* One client's step requests beside interventions.

\* What the idle request was told stays true, and no tool relies on anything.
LEMMA InterventionKeepsRebuild ==
    ASSUME ~Overlap, InterInv, RebuildInv, NEW u \in Users,
           Submit(u) \/ ContinueInter(u) \/ CrashInter(u)
    PROVE  RebuildInv'
<1>1. /\ UNCHANGED <<req, recVars>> /\ head'.tick = head.tick
      /\ DOMAIN frames' = DOMAIN frames
      /\ \A t \in DOMAIN frames : frames'[t].identity = frames[t].identity
      /\ \A s \in Steppers : req[s].pc = "idle"
      /\ \A o \in Operators : tool[o].pc \in Ended
  BY InterventionLeaves
<1>2. LeaseInv' /\ RequestsInv'
  <2>1. InterInv'
    BY ServerNextSync DEF ServerNext
  <2>. QED  BY <2>1 DEF InterInv, LeaseInv
<1>3. Ticked'
  BY <1>1 DEF RebuildInv, AloneInv, RequestsInv, TypeOK, Ticked
<1>4. ASSUME NEW s \in Steppers
      PROVE  InStep(req[s])'
  <2>1. PICK r : r = req[s]
    OBVIOUS
  <2>2. InStep(r)'
    BY <1>1, <2>1 DEF InStep, InspectPoints, FramePoints
  <2>. QED  BY <1>1, <2>1, <2>2 DEF InStep
<1>5. \A o \in Operators : ToolFaithful(tool[o])'
  BY <1>1 DEF Ended, ToolFaithful, recVars
<1>. QED  BY <1>2, <1>3, <1>4, <1>5 DEF RebuildInv, AloneInv

\* Every step of the server keeps what the only request knows.
LEMMA ServerNextRebuild ==
    ASSUME ~Overlap, NEW one, Steppers = {one}
    PROVE  InterInv /\ RebuildInv /\ [ServerNext]_serverVars => RebuildInv'
<1>1. [ServerNext]_serverVars =>
          \/ [RecNext]_allVars
          \/ \E u \in Users : Submit(u) \/ ContinueInter(u) \/ CrashInter(u)
  BY DEF ServerNext, serverVars
<1>. QED  BY <1>1, RebuildNextInv, InterventionKeepsRebuild

LEMMA AloneInvariance ==
    ASSUME ~Overlap, NEW one, Steppers = {one}
    PROVE  ServerSpec => [](InterInv /\ RebuildInv)
<1>1. InterInit => InterInv /\ RebuildInv
  <2>. SUFFICES ASSUME InterInit
                PROVE  InterInv /\ RebuildInv
    OBVIOUS
  <2>1. InterInv /\ LeaseInv /\ AloneInv
    BY ServerInitInv, InitSerialInv DEF InterInit, RecInit, InterInv, SerialInv
  <2>2. \A o \in Operators : tool[o].pc = "idle"
    BY NoInvocationType DEF InterInit, RecInit
  <2>. QED  BY <2>1, <2>2 DEF RebuildInv, ToolFaithful
<1>2. InterInv /\ RebuildInv /\ [ServerNext]_serverVars => (InterInv /\ RebuildInv)'
  BY ServerNextSync, ServerNextRebuild
<1>. QED  BY <1>1, <1>2, PTL DEF ServerSpec

----------------------------------------------------------------------------
\* What the events give, beside interventions.

LEMMA WholeStays ==
    ASSUME Whole, RebuildInv', UNCHANGED <<head, frames, events, entities>>
    PROVE  Whole'
<1>1. InSync' /\ ReplayFaithful' /\ HeadFaithful' /\ Projected'
  BY DEF Whole, SerialInv, InSync, OrderIndexes, ReplayFaithful, HeadFaithful, Projected,
         Replay, Apply, HashOf
<1>. QED  BY <1>1 DEF Whole, SerialInv, RebuildInv

\* The user who intervenes moves on, with as much of the documents whole as the
\* submission says; if something was torn, the run is whole nevertheless or stuck.
LEMMA MovesWhole ==
    ASSUME ~Overlap, InterInv, WholeInv, NEW u \in Users, ~InterAt(u, "idle"),
           ContinueInter(u) \/ CrashInter(u), NEW j \in Submission, Becomes(u, j),
           asked' = asked, torn # 0 => torn' = torn,
           torn = 0 /\ torn' = 0 => IF j.pc = "idle" THEN Whole' ELSE HalfWhole(j)',
           torn = 0 /\ torn' # 0 => j.pc = "idle" /\ (Whole' \/ Stuck')
    PROVE  WholeInv'
<1>1. RebuildInv'
  BY InterventionKeepsRebuild DEF WholeInv
<1>2. inter \in [Users -> Submission] /\ \A v \in Users : v # u => inter[v].pc = "idle"
  BY DEF InterInv, ServerTypeOK, AloneWithRun, InterAt
<1>3. inter'[u] = j /\ \A v \in Users : v # u => inter'[v].pc = "idle"
  BY <1>2 DEF Becomes
<1>4. torn # 0 => torn # asked
  BY DEF WholeInv, NobodyIntervenes
<1>5. ASSUME torn' = 0
      PROVE  /\ NobodyIntervenes' => Whole'
             /\ \A v \in Users : ~InterAt(v, "idle")' => HalfWhole(inter[v])'
  <2>1. CASE j.pc = "idle"
    BY <1>3, <1>5, <2>1 DEF InterAt
  <2>2. CASE j.pc # "idle"
    <3>1. HalfWhole(j)' /\ ~NobodyIntervenes'
      BY <1>3, <1>5, <2>2 DEF NobodyIntervenes, InterAt
    <3>2. HalfWhole(inter[u])'
      BY <1>3, <3>1 DEF HalfWhole
    <3>. QED  BY <1>3, <3>1, <3>2 DEF InterAt
  <2>. QED  BY <2>1, <2>2
<1>6. ASSUME torn' # 0, torn' = asked'
      PROVE  NobodyIntervenes' /\ (Whole' \/ Stuck')
  BY <1>3, <1>4, <1>6 DEF NobodyIntervenes, InterAt
<1>. QED  BY <1>1, <1>5, <1>6 DEF WholeInv

\* What is whole while somebody intervenes.
LEMMA SubmissionWhole ==
    ASSUME InterInv, SyncInv, WholeInv, NEW u \in Users, ~InterAt(u, "idle"), torn = 0
    PROVE  HalfSynced(inter[u]) /\ HalfWhole(inter[u])
BY DEF SyncInv, WholeInv

\* run_commit_frame works on the entities read, which are what the events give.
LEMMA PrepareWhole ==
    ASSUME ~Overlap, InterInv, SyncInv, WholeInv, NEW u \in Users,
           LoadForInter(u) \/ AcceptInter(u) \/ RejectInter(u)
    PROVE  WholeInv'
<1>. DEFINE i == inter[u]
<1>1. /\ ~InterAt(u, "idle") /\ UNCHANGED <<allVars, asked, torn>> /\ ContinueInter(u)
  BY DEF LoadForInter, AcceptInter, RejectInter, InterAt, ContinueInter
<1>2. UNCHANGED <<head, frames, events, entities>>
  BY <1>1 DEF allVars, vars, docs
<1>3. ServerTypeOK /\ Underway(i) /\ i \in Submission /\ TypeOK
  BY <1>1, SubmissionFacts
<1>4. torn = 0 => HalfWhole(i)
  BY <1>1, SubmissionWhole
<1>5. RebuildInv'
  BY <1>1, InterventionKeepsRebuild DEF WholeInv
<1>6. CASE LoadForInter(u)
  <2>1. PICK j \in Submission : Becomes(u, j) /\ j.pc = "propose" /\ j.view = entities
    BY <1>3, <1>6, LoadEffect
  <2>2. ASSUME torn = 0
        PROVE  HalfWhole(j)'
    <3>1. Whole
      BY <1>4, <1>6, <2>2 DEF HalfWhole, LoadForInter, InterAt
    <3>2. Whole' /\ j.view = Replay(events)
      BY <1>2, <1>5, <2>1, <3>1, WholeStays DEF Whole, Projected
    <3>. QED  BY <1>2, <2>1, <3>2 DEF HalfWhole, WritePoints, TornPoints, Replay, Apply
  <2>. QED  BY <1>1, <2>1, <2>2, MovesWhole
<1>7. CASE AcceptInter(u) \/ RejectInter(u)
  <2>1. PICK j \in Submission :
             /\ Becomes(u, j)
             /\ j.pc = "insertEvents" /\ j.run = i.run
             /\ \/ /\ j.view = Apply(i.view, j.evts)
                   /\ j.end = HashOf(j.run.tick, j.view)
                \/ j.evts = {} /\ j.view = i.view /\ j.end = j.run.hash
    BY <1>3, <1>7, ProposeEffect
  <2>2. ASSUME torn = 0
        PROVE  HalfWhole(j)'
    <3>1. /\ Whole /\ i.view = Replay(events) /\ i.pc = "propose"
      BY <1>4, <1>7, <2>2 DEF HalfWhole, AcceptInter, RejectInter, InterAt
    <3>2. Whole'
      BY <1>2, <1>5, <3>1, WholeStays
    <3>3. j.view = Apply(Replay(events), j.evts) /\ j.end = HashOf(j.run.tick, j.view)
      <4>1. CASE j.view = Apply(i.view, j.evts) /\ j.end = HashOf(j.run.tick, j.view)
        BY <3>1, <4>1
      <4>2. CASE j.evts = {} /\ j.view = i.view /\ j.end = j.run.hash
        <5>1. Apply(Replay(events), {}) = Replay(events)
          BY DEF Replay, Apply
        <5>2. j.run.hash = HashOf(j.run.tick, Replay(events))
          BY <1>3, <2>1, <3>1 DEF Underway, SameRun, Whole, SerialInv, HeadFaithful
        <5>. QED  BY <3>1, <4>2, <5>1, <5>2
      <4>. QED  BY <2>1, <4>1, <4>2
    <3>. QED  BY <1>2, <2>1, <3>2, <3>3
              DEF HalfWhole, WritePoints, TornPoints, Replay, Apply, HashOf
  <2>. QED  BY <1>1, <2>1, <2>2, MovesWhole
<1>. QED  BY <1>6, <1>7

\* The events are added: the newest frame says what was without them.
LEMMA InsertWhole ==
    ASSUME ~Overlap, InterInv, SyncInv, WholeInv, NEW u \in Users, InsertEvents(u)
    PROVE  WholeInv'
<1>. DEFINE i == inter[u]
<1>1. /\ i.pc = "insertEvents" /\ ~InterAt(u, "idle") /\ ContinueInter(u)
      /\ InterGoto(u, i, "saveEntities") /\ events' = events \cup i.evts
      /\ UNCHANGED <<head, frames, entities, asked, torn>>
  BY DEF InsertEvents, InterAt, ContinueInter
<1>2. ServerTypeOK /\ Underway(i) /\ i \in Submission /\ TypeOK
  BY <1>1, SubmissionFacts
<1>3. PICK j \in Submission :
             /\ Becomes(u, j)
             /\ j.pc = "saveEntities" /\ j.run = i.run /\ j.view = i.view
             /\ j.evts = i.evts /\ j.end = i.end
  BY <1>1, <1>2, WriteEffect DEF InterPoints
<1>4. ASSUME torn = 0
      PROVE  HalfWhole(j)'
  <2>1. /\ Whole /\ InSync /\ i.view = Apply(Replay(events), i.evts)
        /\ i.end = HashOf(i.run.tick, i.view)
    BY <1>1, <1>4, SubmissionWhole DEF HalfWhole, WritePoints, Whole, SerialInv
  <2>2. i.evts \cap events = {} /\ (\A ev \in i.evts : ev.tick = head.tick)
    BY <1>1, <1>2, <2>1, ProposedNext
  <2>3. j.view = Replay(events')
    BY <1>1, <1>3, <2>1, ReplayApply
  <2>4. events' \ j.evts = events
    BY <1>1, <1>3, <2>2
  <2>5. ASSUME NEW t \in 0..(head.tick - 1)
        PROVE  frames[t].end = HashOf(t, Replay({ev \in events' : ev.tick <= t}))
    <3>1. head.tick \in Nat /\ t \in 0..head.tick /\ t < head.tick
      BY <1>2, <2>5 DEF TypeOK, RunHead
    <3>2. {ev \in events' : ev.tick <= t} = {ev \in events : ev.tick <= t}
      BY <1>1, <2>2, <3>1
    <3>. QED  BY <2>1, <3>1, <3>2 DEF Whole, SerialInv, ReplayFaithful
  <2>6. frames[head.tick].end = HashOf(head.tick, Replay(events))
    BY <2>1 DEF Whole, SerialInv, HeadFaithful, InSync
  <2>7. entities = Replay(events)
    BY <2>1 DEF Whole, Projected
  <2>8. OlderFaithful'
    BY <1>1, <2>5 DEF OlderFaithful, Replay, Apply, HashOf
  <2>9. NewestGives(events \ j.evts)'
    <3>1. frames'[head'.tick].end = HashOf(head'.tick, Replay(events' \ j.evts))
      BY <1>1, <2>4, <2>6
    <3>. QED  BY <3>1 DEF NewestGives, Replay, Apply, HashOf
  <2>10. entities' = Replay(events' \ j.evts)
    BY <1>1, <2>4, <2>7
  <2>. QED  BY <1>3, <2>1, <2>3, <2>8, <2>9, <2>10 DEF HalfWhole, WritePoints, TornPoints
<1>. QED  BY <1>1, <1>3, <1>4, MovesWhole

\* The touched entities are saved: the projection is of all events.
LEMMA SaveWhole ==
    ASSUME ~Overlap, InterInv, SyncInv, WholeInv, NEW u \in Users, SaveEntities(u)
    PROVE  WholeInv'
<1>. DEFINE i == inter[u]
<1>1. /\ i.pc = "saveEntities" /\ ~InterAt(u, "idle") /\ ContinueInter(u)
      /\ InterGoto(u, i, "updateHead") /\ UNCHANGED <<head, frames, events, asked, torn>>
      /\ entities' = [e \in Entities |-> IF \E ev \in i.evts : e \in ev.touched
                                        THEN i.view[e] ELSE entities[e]]
  BY DEF SaveEntities, InterAt, ContinueInter
<1>2. ServerTypeOK /\ Underway(i) /\ i \in Submission /\ TypeOK
  BY <1>1, SubmissionFacts
<1>3. PICK j \in Submission :
             /\ Becomes(u, j)
             /\ j.pc = "updateHead" /\ j.run = i.run /\ j.view = i.view
             /\ j.evts = i.evts /\ j.end = i.end
  BY <1>1, <1>2, WriteEffect DEF InterPoints
<1>4. ASSUME torn = 0
      PROVE  HalfWhole(j)'
  <2>1. /\ i.view = Replay(events) /\ OlderFaithful /\ NewestGives(events \ i.evts)
        /\ entities = Replay(events \ i.evts) /\ i.end = HashOf(i.run.tick, i.view)
    BY <1>1, <1>4, SubmissionWhole DEF HalfWhole, WritePoints, TornPoints
  <2>2. ASSUME NEW e \in Entities
        PROVE  entities'[e] = Replay(events)[e]
    <3>1. CASE \E ev \in i.evts : e \in ev.touched
      BY <1>1, <2>1, <3>1
    <3>2. CASE ~\E ev \in i.evts : e \in ev.touched
      <4>1. {ev \in events : e \in ev.touched} = {ev \in events \ i.evts : e \in ev.touched}
        BY <3>2
      <4>2. entities'[e] = entities[e]
        BY <1>1, <3>2
      <4>. QED  BY <2>1, <4>1, <4>2 DEF Replay, Apply
    <3>. QED  BY <3>1, <3>2
  <2>3. entities' = Replay(events)
    BY <1>1, <2>2 DEF Replay, Apply
  <2>4. Projected'
    BY <1>1, <2>3 DEF Projected, Replay, Apply
  <2>5. OlderFaithful' /\ NewestGives(events \ j.evts)'
    BY <1>1, <1>3, <2>1 DEF OlderFaithful, NewestGives, Replay, Apply, HashOf
  <2>6. j.view = Replay(events')
    BY <1>1, <1>3, <2>1
  <2>. QED  BY <1>3, <2>1, <2>4, <2>5, <2>6 DEF HalfWhole, WritePoints, TornPoints
<1>. QED  BY <1>1, <1>3, <1>4, MovesWhole

\* The head is written; the newest frame still says what was.
LEMMA HeadWhole ==
    ASSUME ~Overlap, InterInv, SyncInv, WholeInv, NEW u \in Users, UpdateHead(u)
    PROVE  WholeInv'
<1>. DEFINE i == inter[u]
<1>1. /\ i.pc = "updateHead" /\ ~InterAt(u, "idle") /\ ContinueInter(u)
      /\ InterGoto(u, i, "syncFrame") /\ UNCHANGED <<frames, events, entities, asked, torn>>
      /\ head'.tick = head.tick
  BY HeadSync DEF UpdateHead, InterAt, ContinueInter
<1>2. ServerTypeOK /\ Underway(i) /\ i \in Submission /\ TypeOK
  BY <1>1, SubmissionFacts
<1>3. PICK j \in Submission :
             /\ Becomes(u, j)
             /\ j.pc = "syncFrame" /\ j.run = i.run /\ j.view = i.view
             /\ j.evts = i.evts /\ j.end = i.end
  BY <1>1, <1>2, WriteEffect DEF InterPoints
<1>4. ASSUME torn = 0
      PROVE  HalfWhole(j)'
  <2>1. /\ i.view = Replay(events) /\ OlderFaithful /\ NewestGives(events \ i.evts)
        /\ Projected /\ i.end = HashOf(i.run.tick, i.view)
    BY <1>1, <1>4, SubmissionWhole DEF HalfWhole, WritePoints, TornPoints
  <2>2. /\ OlderFaithful' /\ NewestGives(events \ j.evts)' /\ Projected'
        /\ j.view = Replay(events')
    BY <1>1, <1>3, <2>1 DEF OlderFaithful, NewestGives, Projected, Replay, Apply, HashOf
  <2>. QED  BY <1>3, <2>1, <2>2 DEF HalfWhole, WritePoints, TornPoints
<1>. QED  BY <1>1, <1>3, <1>4, MovesWhole

\* The frame is written last, and all is whole again.
LEMMA FrameWhole ==
    ASSUME ~Overlap, InterInv, SyncInv, WholeInv, NEW u \in Users, SyncFrame(u)
    PROVE  WholeInv'
<1>. DEFINE i == inter[u]
<1>1. /\ i.pc = "syncFrame" /\ ~InterAt(u, "idle") /\ ContinueInter(u)
      /\ Becomes(u, NoSubmission) /\ UNCHANGED <<head, events, entities, asked, torn>>
  BY DEF SyncFrame, InterAt, ContinueInter, Becomes
<1>2. /\ InterInv' /\ SyncInv' /\ DOMAIN frames' = DOMAIN frames
      /\ \A t \in DOMAIN frames :
           frames'[t].end = IF t = head.tick THEN i.end ELSE frames[t].end
  BY FrameSync
<1>3. ServerTypeOK /\ Underway(i) /\ i \in Submission /\ TypeOK
  BY <1>1, SubmissionFacts
<1>4. RebuildInv'
  BY <1>1, InterventionKeepsRebuild DEF WholeInv
<1>5. ASSUME torn = 0
      PROVE  Whole'
  <2>1. /\ i.view = Replay(events) /\ OlderFaithful /\ Projected
        /\ i.end = HashOf(i.run.tick, i.view) /\ head.hash = i.end
    BY <1>1, <1>5, SubmissionWhole DEF HalfWhole, HalfSynced, WritePoints, TornPoints
  <2>2. i.run.tick = head.tick /\ head.tick \in Nat /\ DOMAIN frames = 0..head.tick
    BY <1>3 DEF Underway, TypeOK, RunHead
  <2>3. InSync'
    <3>1. NobodyIntervenes'
      BY <1>1, <1>3, NoSubmissionType
         DEF InterInv, AloneWithRun, ServerTypeOK, NobodyIntervenes, InterAt, Becomes
    <3>. QED  BY <1>1, <1>2, <1>5, <3>1 DEF SyncInv
  <2>4. HeadFaithful'
    BY <1>1, <2>1, <2>2 DEF HeadFaithful, Replay, Apply, HashOf
  <2>5. ASSUME NEW t \in 0..head.tick
        PROVE  frames'[t].end = HashOf(t, Replay({ev \in events : ev.tick <= t}))
    <3>1. CASE t = head.tick
      <4>1. HalfSynced(i)
        BY <1>1, <1>5, SubmissionWhole
      <4>2. \A ev \in events : ev.tick \in 0..head.tick
        BY <4>1 DEF HalfSynced
      <4>3. {ev \in events : ev.tick <= t} = events
        BY <2>2, <3>1, <4>2
      <4>. QED  BY <1>2, <2>1, <2>2, <3>1, <4>3
    <3>2. CASE t # head.tick
      <4>1. t \in 0..(head.tick - 1)
        BY <2>2, <3>2
      <4>. QED  BY <1>2, <2>1, <2>2, <3>2, <4>1 DEF OlderFaithful
    <3>. QED  BY <3>1, <3>2
  <2>6. ReplayFaithful'
    BY <1>1, <2>5 DEF ReplayFaithful, Replay, Apply, HashOf
  <2>7. Projected'
    BY <1>1, <2>1 DEF Projected, Replay, Apply
  <2>. QED  BY <1>4, <2>3, <2>4, <2>6, <2>7 DEF Whole, SerialInv, RebuildInv
<1>. QED  BY <1>1, <1>5, NoSubmissionType, MovesWhole

\* An intervention that had written its first document and not its last: a rejected
\* one changed nothing; of an accepted one either the event is beyond the head's order
\* index, or the newest frame has another hash than the head.
LEMMA TornWhole ==
    ASSUME InterInv, RebuildInv, NEW u \in Users, inter[u].pc \in TornPoints,
           HalfSynced(inter[u]), HalfWhole(inter[u])
    PROVE  Whole \/ Stuck
<1>. DEFINE i == inter[u]
<1>1. ~InterAt(u, "idle")
  BY DEF InterAt, TornPoints
<1>2. /\ Underway(i) /\ i \in Submission /\ TypeOK /\ head.tick \in Nat /\ head.order \in Nat
      /\ i.run.tick = head.tick /\ Proposed(i)
  BY <1>1, SubmissionFacts DEF TypeOK, RunHead, Underway, TornPoints, WritePoints
<1>3. /\ i.view = Replay(events) /\ OlderFaithful /\ NewestGives(events \ i.evts)
      /\ i.end = HashOf(head.tick, Replay(events)) /\ i.evts \subseteq events
  BY <1>2 DEF HalfWhole, HalfSynced, WritePoints, TornPoints
<1>4. CASE i.evts = {}
  <2>1. events \ i.evts = events /\ i.next = i.run.order
    BY <1>2, <1>4 DEF Proposed
  <2>2. frames[head.tick].end = HashOf(head.tick, Replay(events))
    BY <1>3, <2>1 DEF NewestGives
  <2>3. head.hash = frames[head.tick].end /\ head.order = i.next
    BY <1>2, <1>3, <2>1, <2>2 DEF HalfSynced, FrameAgrees, TornPoints, Underway, SameRun
  <2>4. Projected
    BY <2>1 DEF HalfWhole, Projected, TornPoints
  <2>5. InSync
    BY <2>3 DEF HalfSynced, InSync, Ticked, TornPoints, Numbered, InOrder, OrderIndexes
  <2>6. ASSUME NEW t \in 0..head.tick
        PROVE  frames[t].end = HashOf(t, Replay({ev \in events : ev.tick <= t}))
    <3>1. CASE t = head.tick
      BY <1>2, <2>2, <2>5, <3>1, AllEvents
    <3>2. CASE t # head.tick
      <4>1. t \in 0..(head.tick - 1)
        BY <1>2, <3>2
      <4>. QED  BY <1>3, <4>1 DEF OlderFaithful
    <3>. QED  BY <3>1, <3>2
  <2>. QED  BY <2>2, <2>3, <2>4, <2>5, <2>6
            DEF Whole, SerialInv, RebuildInv, HeadFaithful, ReplayFaithful
<1>5. CASE i.evts # {}
  <2>1. PICK e \in Entities, new \in events :
            i.evts = {new} /\ new.order = i.run.order /\ e \in new.touched
    <3>1. PICK e \in Entities :
              i.evts = {[tick |-> i.run.tick, order |-> i.run.order, touched |-> {e}]}
      BY <1>2, <1>5 DEF Proposed
    <3>2. PICK new : new = [tick |-> i.run.tick, order |-> i.run.order, touched |-> {e}]
      OBVIOUS
    <3>3. i.evts = {new} /\ new \in events
      BY <1>3, <3>1, <3>2
    <3>4. new.order = i.run.order /\ e \in new.touched
      BY <3>2
    <3>. QED  BY <3>3, <3>4
  <2>2. CASE i.pc # "syncFrame"
    <3>1. new.order = head.order
      BY <1>2, <2>1, <2>2 DEF Underway, SameRun
    <3>. QED  BY <1>1, <1>2, <3>1 DEF Stuck, Agree, InterInv, AloneWithRun, At
  <2>3. CASE i.pc = "syncFrame"
    <3>1. head.hash = HashOf(head.tick, Replay(events))
      BY <1>3, <2>3 DEF HalfSynced
    <3>2. frames[head.tick].end = HashOf(head.tick, Replay(events \ {new}))
      BY <1>3, <2>1 DEF NewestGives
    <3>3. new \in Replay(events)[e] /\ new \notin Replay(events \ {new})[e]
      BY <2>1 DEF Replay, Apply
    <3>4. ~FrameAgrees
      BY <3>1, <3>2, <3>3 DEF FrameAgrees, HashOf
    <3>. QED  BY <1>1, <3>4 DEF Stuck, Agree, InterInv, AloneWithRun, At
  <2>. QED  BY <2>2, <2>3
<1>. QED  BY <1>4, <1>5

\* Nothing to propose, or the server dies.
LEMMA EndWhole ==
    ASSUME ~Overlap, InterInv, SyncInv, WholeInv, NEW u \in Users, RefuseInter(u) \/ CrashInter(u)
    PROVE  WholeInv'
<1>. DEFINE i == inter[u]
<1>1. /\ ~InterAt(u, "idle") /\ Becomes(u, NoSubmission) /\ UNCHANGED <<allVars, asked>>
      /\ ContinueInter(u) \/ CrashInter(u)
      /\ torn # 0 => torn' = torn
      /\ torn = 0 /\ torn' # 0 => i.pc \in TornPoints
      /\ asked # 0 /\ torn' = 0 => torn = 0 /\ i.pc \notin TornPoints
  BY DEF RefuseInter, CrashInter, InterAt, Becomes, TornPoints, ContinueInter
<1>2. i \in Submission /\ asked # 0 /\ (torn = 0 => HalfWhole(i) /\ HalfSynced(i))
  BY <1>1, SubmissionFacts, SubmissionWhole
<1>3. UNCHANGED <<head, frames, events, entities, req>>
  BY <1>1 DEF allVars, vars, docs
<1>4. RebuildInv /\ RebuildInv'
  BY <1>1, InterventionKeepsRebuild DEF WholeInv
<1>5. ASSUME torn = 0, torn' = 0
      PROVE  Whole'
  <2>1. i.pc \in {"load", "propose", "insertEvents"}
    BY <1>1, <1>2, <1>5 DEF Submission, InterPoints, TornPoints, InterAt
  <2>2. Whole
    BY <1>2, <1>5, <2>1 DEF HalfWhole
  <2>. QED  BY <1>3, <1>4, <2>2, WholeStays
<1>6. ASSUME torn = 0, torn' # 0
      PROVE  Whole' \/ Stuck'
  <2>1. Whole \/ Stuck
    BY <1>1, <1>2, <1>4, <1>6, TornWhole
  <2>2. Stuck => Stuck'
    BY <1>3 DEF Stuck, Agree, FrameAgrees
  <2>. QED  BY <1>3, <1>4, <2>1, <2>2, WholeStays
<1>. QED  BY <1>1, <1>5, <1>6, NoSubmissionType, MovesWhole

\* A request that finds the run stuck is refused by its inspection.
LEMMA StuckRequest ==
    ASSUME AloneInv, Stuck, NEW s \in Steppers, BeginStep(s) \/ Continue(s) \/ Crash(s)
    PROVE  /\ UNCHANGED docs
           /\ req' = [req EXCEPT ![s] = req'[s]]
           /\ req'[s].pc \in {"idle", "inspectHead"} \cup InspectPoints
<1>. DEFINE r == req[s]
            Refused == /\ req' = [req EXCEPT ![s] = req'[s]]
                       /\ req'[s].pc \in {"idle", "inspectHead"} \cup InspectPoints
<1>1. /\ req \in [Steppers -> Request] /\ r \in Request /\ InStep(r) /\ ~Agree
      /\ r.pc \in {"idle", "inspectHead"} \cup InspectPoints
  BY DEF AloneInv, RequestsInv, TypeOK, Stuck
<1>2. ASSUME NEW c, "pc" \in DOMAIN c, NEW pc \in {"inspectHead"} \cup InspectPoints, Goto(s, c, pc)
      PROVE  Refused
  BY <1>1, <1>2 DEF Goto
<1>3. ASSUME NEW c, NEW result, Reply(s, c, result)
      PROVE  Refused
  <2>1. PICK a : a = [NoRequest EXCEPT !.frame = c.frame, !.reported = c.reported,
                                       !.result = result]
    OBVIOUS
  <2>2. a.pc = "idle"
    BY <2>1 DEF NoRequest
  <2>. QED  BY <1>1, <1>3, <2>1, <2>2 DEF Reply
<1>4. CASE BeginStep(s)
  <2>1. PICK n \in 1..MaxRequest :
          LET c == [NoRequest EXCEPT !.left = n, !.run = head]
          IN  Reply(s, c, BlockedAs(head)) \/ Goto(s, c, "inspectHead")
    BY <1>4 DEF BeginStep
  <2>2. "pc" \in DOMAIN [NoRequest EXCEPT !.left = n, !.run = head]
    BY DEF NoRequest
  <2>3. UNCHANGED docs
    BY <1>4 DEF BeginStep
  <2>. QED  BY <1>2, <1>3, <2>1, <2>2, <2>3
<1>5. CASE Crash(s)
  <2>1. PICK a : a = [NoRequest EXCEPT !.result = "CRASHED"]
    OBVIOUS
  <2>2. a.pc = "idle"
    BY <2>1 DEF NoRequest
  <2>. QED  BY <1>1, <1>5, <2>1, <2>2 DEF Crash
<1>6. CASE InspectHead(s) \/ InspectFrame(s) \/ InspectEvents(s)
  <2>1. /\ \A h \in RunHead : "pc" \in DOMAIN [r EXCEPT !.run = h]
        /\ \A b : "pc" \in DOMAIN [r EXCEPT !.ok = b]
        /\ head \in RunHead
    BY <1>1 DEF Request, AloneInv, RequestsInv, TypeOK
  <2>2. \/ \E result : Reply(s, r, result)
        \/ \E h \in RunHead : Goto(s, [r EXCEPT !.run = h], "inspectFrame")
        \/ \E b : Goto(s, [r EXCEPT !.ok = b], "inspectEvents")
        \/ \E b : Goto(s, [r EXCEPT !.ok = b], "inspectEntities")
    BY <1>6, <2>1 DEF InspectHead, InspectFrame, InspectEvents
  <2>3. UNCHANGED docs
    BY <1>6 DEF InspectHead, InspectFrame, InspectEvents
  <2>. HIDE DEF r
  <2>. QED  BY <1>2, <1>3, <2>1, <2>2, <2>3 DEF InspectPoints
<1>7. CASE InspectEntities(s)
  <2>1. ~r.ok
    BY <1>1, <1>7 DEF InspectEntities, At, InStep
  <2>. QED  BY <1>3, <1>7, <2>1 DEF InspectEntities
<1>. QED  BY <1>1, <1>4, <1>5, <1>6, <1>7
          DEF InspectPoints, At, Continue, LoadEntities, ReloadHead, ComputeFrame, ExceedCapacity,
              CheckHead, LoseRace, Commit, CommitUnacknowledged, Abort, CheckTransient,
              ResolveFrame, ResolveHead

\* A stuck run stays stuck: nothing but an intervention writes its history.
LEMMA StuckStays ==
    ASSUME NEW one, Steppers = {one}, RebuildInv, Stuck, [RecNext]_allVars
    PROVE  Stuck' /\ head'.tick = head.tick
<1>1. LeaseInv /\ AloneInv /\ TypeOK
  BY DEF RebuildInv, LeaseInv, RequestsInv
<1>2. CASE SameHistory /\ UNCHANGED req
  BY <1>2 DEF SameHistory, Stuck, Agree, FrameAgrees
<1>3. CASE BeginStep(one) \/ Continue(one) \/ Crash(one)
  <2>1. /\ UNCHANGED docs /\ req' = [req EXCEPT ![one] = req'[one]]
        /\ req'[one].pc \in {"idle", "inspectHead"} \cup InspectPoints
    BY <1>1, <1>3, StuckRequest
  <2>. QED  BY <2>1 DEF docs, Stuck, Agree, FrameAgrees
<1>4. CASE Pause \/ UNCHANGED vars
  BY <1>1, <1>2, <1>4, PauseOrStutter
<1>. QED  BY <1>1, <1>2, <1>3, <1>4, ToolNextStep DEF RecNext, Next, allVars, ToolStep

\* Requests and tools beside a whole run, or a stuck one.
LEMMA RecWhole ==
    ASSUME MaxDamage = 0, NEW one, Steppers = {one}, InterInv, WholeInv, NobodyIntervenes,
           [RecNext]_allVars, UNCHANGED interVars
    PROVE  WholeInv'
<1>1. RebuildInv /\ RebuildInv'
  BY RebuildNextInv DEF WholeInv
<1>2. damage' = damage
  BY <1>1 DEF RebuildInv, LeaseInv, RecTypeOK
<1>3. Whole => Whole'
  BY <1>1, <1>2, RebuildNextInv DEF Whole
<1>4. Stuck => Stuck'
  BY <1>1, StuckStays
<1>5. NobodyIntervenes' /\ asked' = asked /\ torn' = torn
  BY DEF NobodyIntervenes, InterAt, interVars
<1>. QED  BY <1>1, <1>3, <1>4, <1>5 DEF WholeInv, NobodyIntervenes

\* An intervention begins on a whole run; or asked is ahead of torn from now on.
LEMMA SubmitWhole ==
    ASSUME ~Overlap, InterInv, WholeInv, NEW u \in Users, Submit(u)
    PROVE  WholeInv'
<1>1. /\ UNCHANGED <<allVars, torn>> /\ asked' = asked + 1 /\ NobodyIntervenes
      /\ InterGoto(u, [NoSubmission EXCEPT !.run = head], "load")
  BY DEF Submit, RunUnused, NobodyIntervenes
<1>2. UNCHANGED <<head, frames, events, entities>>
  BY <1>1 DEF allVars, vars, docs
<1>3. RebuildInv'
  BY InterventionKeepsRebuild DEF WholeInv
<1>4. torn' # asked'
  BY <1>1, InterventionAssumption DEF InterInv, ServerTypeOK
<1>5. PICK j : j = [[NoSubmission EXCEPT !.run = head] EXCEPT !.pc = "load"]
  OBVIOUS
<1>6. j.pc = "load"
  BY <1>5 DEF NoSubmission
<1>7. inter'[u] = j /\ \A v \in Users : v # u => inter'[v].pc = "idle"
  BY <1>1, <1>5 DEF InterGoto, InterInv, ServerTypeOK, NobodyIntervenes, InterAt
<1>8. ASSUME torn' = 0
      PROVE  /\ NobodyIntervenes' => Whole'
             /\ \A v \in Users : ~InterAt(v, "idle")' => HalfWhole(inter[v])'
  <2>1. Whole'
    BY <1>1, <1>2, <1>3, <1>8, WholeStays DEF WholeInv
  <2>2. HalfWhole(inter[u])'
    BY <1>6, <1>7, <2>1 DEF HalfWhole, WritePoints, TornPoints
  <2>. QED  BY <1>7, <2>1, <2>2 DEF InterAt
<1>. QED  BY <1>3, <1>4, <1>8 DEF WholeInv

\* Every step of the server preserves it, and commits only on a whole run unless
\* somebody intervened after a torn intervention.
LEMMA ServerNextWhole ==
    ASSUME ~Overlap, MaxDamage = 0, NEW one, Steppers = {one}
    PROVE  InterInv /\ SyncInv /\ WholeInv /\ [ServerNext]_serverVars =>
             /\ WholeInv'
             /\ head'.tick # head.tick => Whole \/ torn \notin {0, asked}
<1>. SUFFICES ASSUME InterInv, SyncInv, WholeInv, [ServerNext]_serverVars
              PROVE  /\ WholeInv'
                     /\ head'.tick # head.tick => Whole \/ torn \notin {0, asked}
  OBVIOUS
<1>1. CASE NobodyIntervenes /\ [RecNext]_allVars /\ UNCHANGED interVars
  BY <1>1, RecWhole, StuckStays DEF WholeInv
<1>2. CASE UNCHANGED serverVars
  <2>1. UNCHANGED <<allVars, inter, asked, torn>>
    BY <1>2 DEF serverVars, interVars
  <2>2. UNCHANGED <<head, frames, events, entities, req, inter, asked, torn>>
    BY <2>1 DEF allVars, vars, docs
  <2>3. RebuildInv'
    BY <2>1, RebuildNextInv DEF WholeInv
  <2>4. Whole => Whole'
    BY <2>2, <2>3, WholeStays
  <2>5. Stuck => Stuck'
    BY <2>2 DEF Stuck, Agree, FrameAgrees
  <2>6. ASSUME NEW i, HalfWhole(i)
        PROVE  HalfWhole(i)'
    <3>1. Replay(events)' = Replay(events) /\ Replay(events \ i.evts)' = Replay(events \ i.evts)
      BY <2>2 DEF Replay, Apply
    <3>2. Apply(Replay(events), i.evts)' = Apply(Replay(events), i.evts)
      BY <2>2 DEF Replay, Apply
    <3>3. /\ Projected => Projected'
          /\ OlderFaithful => OlderFaithful'
          /\ NewestGives(events \ i.evts) => NewestGives(events \ i.evts)'
      BY <2>2 DEF Projected, OlderFaithful, NewestGives, Replay, Apply, HashOf
    <3>4. entities' = entities
      BY <2>2
    <3>. QED  BY <2>4, <2>6, <3>1, <3>2, <3>3, <3>4 DEF HalfWhole
  <2>8. WholeInv'
    BY <2>2, <2>3, <2>4, <2>5, <2>6 DEF WholeInv, NobodyIntervenes, InterAt, HalfWhole
  <2>. QED  BY <2>2, <2>8
<1>3. ASSUME NEW u \in Users, Submit(u) \/ ContinueInter(u) \/ CrashInter(u)
      PROVE  WholeInv' /\ head'.tick = head.tick
  BY <1>3, SubmitWhole, PrepareWhole, EndWhole, InsertWhole, SaveWhole, HeadWhole, FrameWhole,
     InterventionLeaves DEF ContinueInter
<1>. QED  BY <1>1, <1>2, <1>3 DEF ServerNext, NobodyIntervenes

LEMMA WholeInvariance ==
    ASSUME ~Overlap, MaxDamage = 0, NEW one, Steppers = {one}
    PROVE  ServerSpec => [](InterInv /\ SyncInv /\ WholeInv)
<1>1. InterInit => InterInv /\ SyncInv /\ WholeInv
  <2>. SUFFICES ASSUME InterInit
                PROVE  InterInv /\ SyncInv /\ WholeInv
    OBVIOUS
  <2>1. InterInv /\ SyncInv /\ LeaseInv /\ Whole
    BY ServerInitInv, InitSerialInv DEF InterInit, RecInit, InterInv, Whole
  <2>2. torn = 0 /\ \A u \in Users : InterAt(u, "idle")
    BY NoSubmissionType DEF InterInit, InterAt
  <2>3. \A o \in Operators : tool[o].pc = "idle"
    BY NoInvocationType DEF InterInit, RecInit
  <2>4. RebuildInv
    BY <2>1, <2>3 DEF RebuildInv, ToolFaithful, Whole, SerialInv
  <2>. QED  BY <2>1, <2>2, <2>4 DEF WholeInv
<1>2. /\ InterInv /\ SyncInv /\ WholeInv
      /\ [ServerNext]_serverVars
      => (InterInv /\ SyncInv /\ WholeInv)'
  BY ServerNextSync, ServerNextWhole
<1>. QED  BY <1>1, <1>2, PTL DEF ServerSpec

\* Between interventions every frame replays: verify_replay finds that the events, the
\* exogenous ones among them, give the hash every frame ends in.
THEOREM ReplayBesideInterventions ==
    ASSUME ~Overlap, MaxDamage = 0, NEW one, Steppers = {one}
    PROVE  ServerSpec => []ReplayInSync
<1>1. WholeInv => ReplayInSync
  BY DEF WholeInv, ReplayInSync, Settled, NobodyIntervenes, Whole, SerialInv
<1>. QED  BY <1>1, WholeInvariance, PTL

\* And the entity documents are what the events give and what the head's hash says.
THEOREM ProjectionBesideInterventions ==
    ASSUME ~Overlap, MaxDamage = 0, NEW one, Steppers = {one}
    PROVE  ServerSpec => []ProjectionInSync
<1>1. WholeInv => ProjectionInSync
  BY DEF WholeInv, ProjectionInSync, Settled, NobodyIntervenes, Whole, SerialInv, HeadFaithful,
         Projected, ProjectionFaithful
<1>. QED  BY <1>1, WholeInvariance, PTL

\* A torn intervention is not built upon: a step commits only on a run whose events,
\* projection, frames and head agree, until somebody intervenes after it.
THEOREM CommitsFailClosedCorrect ==
    ASSUME ~Overlap, MaxDamage = 0, NEW one, Steppers = {one}
    PROVE  ServerSpec => CommitsFailClosed
<1>. DEFINE Closed == head'.tick # head.tick => StoreConsistent \/ torn \notin {0, asked}
<1>1. Whole => StoreConsistent
  <2>. SUFFICES ASSUME Whole
                PROVE  StoreConsistent
    OBVIOUS
  <2>1. TypeOK /\ InSync /\ ReplayFaithful /\ HeadFaithful /\ Projected
    BY DEF Whole, SerialInv, AloneInv, RequestsInv
  <2>2. \A ev \in events : ev.order < head.order
    <3>1. head.order \in Nat /\ \A ev \in events : ev.order \in 0..(head.order - 1)
      BY <2>1 DEF InSync, OrderIndexes, TypeOK, RunHead
    <3>. QED  BY <3>1
  <2>. QED  BY <2>1, <2>2
            DEF InSync, HeadFaithful, Projected, ProjectionFaithful, StoreConsistent
<1>2. InterInv /\ SyncInv /\ WholeInv /\ [ServerNext]_serverVars => [Closed]_serverVars
  BY <1>1, ServerNextWhole
<1>. QED  BY <1>2, WholeInvariance, PTL DEF ServerSpec, CommitsFailClosed
=============================================================================
