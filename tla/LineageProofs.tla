---------------------------- MODULE LineageProofs ----------------------------
(* Proofs about Lineage, for any runs, entities, worlds and number of fork     *)
(* requests: no siblings, truthful answers, and nothing made of partial runs;  *)
(* then exact continuation.                                                    *)
(*                                                                             *)
(* The second part compares no two runs with each other.  A seed and its world *)
(* determine one stream, and StreamInv says that every complete run stands on  *)
(* it, of whichever run it was forked.  The stream is as long as the run that  *)
(* is furthest ahead, and grows when that one is stepped: so its existence is  *)
(* part of the invariant and takes no recursion.                               *)
EXTENDS Lineage, WellFoundedInduction, TLAPS

\* A stored run has the fields of one.
IsRun(r) ==
    r = [kind |-> r.kind, parent |-> r.parent, lineage |-> r.lineage, command |-> r.command,
         genesis |-> r.genesis, floor |-> r.floor, anchors |-> r.anchors, tick |-> r.tick,
         next |-> r.next, hash |-> r.hash, events |-> r.events, entities |-> r.entities,
         frames |-> r.frames]

Complete(r) == DOMAIN r.entities = Entities

\* Hashes are of all entities, and frames are written when all entities are.
HashInv(r) ==
    /\ DOMAIN r.hash.entities = Entities
    /\ \A t \in DOMAIN r.frames : DOMAIN r.frames[t].entities = Entities
    /\ ~Complete(r) => r.tick = 0 /\ DOMAIN r.frames = {}

\* The lineage of a fork, and its command, say where it comes from.
OriginInv(r) ==
    r.kind = "fork" =>
        /\ r.lineage = r.command.identity /\ r.parent = r.command.parent
        /\ r.genesis = r.lineage.tick

RunInv(r) == IsRun(r) /\ HashInv(r) /\ OriginInv(r)

\* Only what is complete has forks.
ParentInv ==
    \A c \in ForkRuns : run[c].parent \in DOMAIN run /\ Complete(run[run[c].parent])

\* r is the fork that q asks for.
Fulfils(r, q) == r.parent = q.parent /\ r.genesis = q.tick /\ r.lineage.branch = q.branch

\* What a request has seen, is about to insert or was told.
RequestInv(a) ==
    /\ a.pc = "again" => a.q.parent \in DOMAIN run
    /\ a.pc = "write" =>
          /\ RunInv(a.child) /\ a.child.kind = "fork" /\ Complete(a.child)
          /\ Fulfils(a.child, a.q)
          /\ a.q.parent \in DOMAIN run /\ Complete(run[a.q.parent])
    /\ a.pc = "idle" /\ a.got # None =>
          a.got \in DOMAIN run /\ Fulfils(run[a.got], a.q)

\* The inductive invariant.
LineageInv ==
    /\ run = [r \in DOMAIN run |-> run[r]]
    /\ ask = [c \in Slots |-> ask[c]]
    /\ \A r \in DOMAIN run : RunInv(run[r])
    /\ NoSiblings
    /\ ParentInv
    /\ \A c \in Slots : RequestInv(ask[c])

-----------------------------------------------------------------------------
\* The genesis of a seed has all entities.

LEMMA AllOfGenesis ==
    DOMAIN GenesisHash.entities = Entities /\ DOMAIN Reconstruct(Genesis) = Entities
<1>1. GenesisHash.entities = Reconstruct(Genesis)
  BY DEF GenesisHash, HashOf
<1>2. DOMAIN Reconstruct(Genesis) = UNION {ev.touched : ev \in Genesis}
  BY DEF Reconstruct
<1>3. DOMAIN Spawned = 1..Len(Spawned)
  BY LineageAssumption
<1>4. ASSUME NEW e \in Entities
      PROVE  e \in DOMAIN Reconstruct(Genesis)
  <2>1. PICK i \in 1..Len(Spawned) : e = Spawned[i]
    BY <1>3 DEF Entities
  <2>. DEFINE ev == Event(0, i - 1, {Spawned[i]}, None, <<>>)
  <2>2. ev \in Genesis
    BY DEF Genesis, Spawns
  <2>3. e \in ev.touched
    BY <2>1 DEF Event
  <2>. QED  BY <1>2, <2>2, <2>3
<1>5. ASSUME NEW e \in DOMAIN Reconstruct(Genesis)
      PROVE  e \in Entities
  <2>1. PICK ev \in Genesis : e \in ev.touched
    BY <1>2
  <2>2. PICK i \in 1..Len(Spawned) : ev = Event(0, i - 1, {Spawned[i]}, None, <<>>)
    BY DEF Genesis, Spawns
  <2>. QED  BY <1>3, <2>1, <2>2 DEF Event, Entities
<1>6. DOMAIN Reconstruct(Genesis) = Entities
  BY <1>4, <1>5
<1>. QED  BY <1>1, <1>6

-----------------------------------------------------------------------------
\* Runs change, requests do not: origins are kept, and what is complete stays so.

Kept ==
    \A r \in DOMAIN run :
        /\ r \in DOMAIN run'
        /\ run'[r].kind = run[r].kind /\ run'[r].parent = run[r].parent
        /\ run'[r].lineage = run[r].lineage /\ run'[r].genesis = run[r].genesis
        /\ Complete(run[r]) => Complete(run'[r])

LEMMA RequestsKept ==
    ASSUME Kept, NEW c \in Slots, RequestInv(ask[c]), ask'[c] = ask[c]
    PROVE  RequestInv(ask[c])'
BY DEF Kept, RequestInv, Fulfils, RunInv, IsRun, HashInv, OriginInv, Complete

LEMMA ChangeRun ==
    ASSUME LineageInv, NEW r \in DOMAIN run, NEW d, run' = [run EXCEPT ![r] = d], ask' = ask,
           RunInv(d), d.kind = run[r].kind, d.parent = run[r].parent, d.lineage = run[r].lineage,
           d.genesis = run[r].genesis, Complete(run[r]) => Complete(d)
    PROVE  LineageInv'
<1>1. /\ DOMAIN run' = DOMAIN run /\ run' = [x \in DOMAIN run' |-> run'[x]]
      /\ run'[r] = d /\ \A x \in DOMAIN run : x # r => run'[x] = run[x]
  BY DEF LineageInv
<1>2. Kept
  BY <1>1 DEF Kept
<1>3. \A x \in DOMAIN run' : RunInv(run'[x])
  BY <1>1 DEF LineageInv
<1>4. ForkRuns' = ForkRuns
  BY <1>1, <1>2 DEF ForkRuns, Kept
<1>5. NoSiblings'
  BY <1>2, <1>4 DEF LineageInv, NoSiblings, Kept, ForkRuns
<1>6. ParentInv'
  BY <1>1, <1>2, <1>4 DEF LineageInv, ParentInv, Kept, ForkRuns
<1>7. \A c \in Slots : RequestInv(ask[c])'
  BY <1>2, RequestsKept DEF LineageInv
<1>8. ask' = [c \in Slots |-> ask'[c]]
  BY DEF LineageInv
<1>9. (\A x \in DOMAIN run : RunInv(run[x]))'
  BY <1>3 DEF RunInv, IsRun, HashInv, OriginInv, Complete
<1>. QED  BY <1>1, <1>5, <1>6, <1>7, <1>8, <1>9 DEF LineageInv

-----------------------------------------------------------------------------
\* create_run and step_run.

LEMMA InsertRunStep ==
    ASSUME LineageInv, NEW r \in Roots, InsertRun(r)
    PROVE  LineageInv'
<1>1. r \notin DOMAIN run /\ run' = With(run, r, NewRun) /\ ask' = ask
  BY DEF InsertRun
<1>2. /\ DOMAIN run' = DOMAIN run \cup {r} /\ run' = [x \in DOMAIN run' |-> run'[x]]
      /\ run'[r] = NewRun /\ \A x \in DOMAIN run : run'[x] = run[x]
  BY <1>1 DEF With
<1>3. Kept
  BY <1>2 DEF Kept
<1>4. RunInv(NewRun)
  <2>1. IsRun(NewRun) /\ NewRun.hash = GenesisHash /\ NewRun.tick = 0 /\ NewRun.frames = <<>>
        /\ NewRun.kind = "world"
    BY DEF NewRun, IsRun
  <2>2. DOMAIN NewRun.frames = {}
    BY <2>1
  <2>. QED  BY <2>1, <2>2, AllOfGenesis DEF RunInv, HashInv, OriginInv
<1>5. (\A x \in DOMAIN run : RunInv(run[x]))'
  BY <1>2, <1>4 DEF LineageInv, RunInv, IsRun, HashInv, OriginInv, Complete
<1>6. ForkRuns' = ForkRuns
  BY <1>2 DEF ForkRuns, NewRun
<1>7. NoSiblings' /\ ParentInv'
  BY <1>2, <1>6 DEF LineageInv, NoSiblings, ParentInv, ForkRuns
<1>8. \A c \in Slots : RequestInv(ask[c])'
  BY <1>1, <1>3, RequestsKept DEF LineageInv
<1>9. (ask = [c \in Slots |-> ask[c]])'
  BY <1>1 DEF LineageInv
<1>. QED  BY <1>2, <1>5, <1>7, <1>8, <1>9 DEF LineageInv

LEMMA InsertEventsStep ==
    ASSUME LineageInv, NEW r \in Roots, InsertEvents(r)
    PROVE  LineageInv'
<1>1. PICK n \in DOMAIN Spawned : run' = [run EXCEPT ![r].events = Spawns(n)]
  BY DEF InsertEvents
<1>. DEFINE d == [run[r] EXCEPT !.events = Spawns(n)]
<1>2. r \in DOMAIN run /\ run' = [run EXCEPT ![r] = d] /\ ask' = ask
  BY <1>1 DEF InsertEvents
<1>3. RunInv(run[r])
  BY <1>2 DEF LineageInv
<1>4. /\ IsRun(d) /\ d.hash = run[r].hash /\ d.frames = run[r].frames /\ d.tick = run[r].tick
      /\ d.entities = run[r].entities /\ d.kind = run[r].kind /\ d.parent = run[r].parent
      /\ d.lineage = run[r].lineage /\ d.genesis = run[r].genesis /\ d.command = run[r].command
  BY <1>3 DEF RunInv, IsRun
<1>. HIDE DEF d
<1>5. RunInv(d) /\ (Complete(run[r]) => Complete(d))
  BY <1>3, <1>4 DEF RunInv, HashInv, OriginInv, Complete
<1>. QED  BY <1>2, <1>4, <1>5, ChangeRun

LEMMA InsertEntitiesStep ==
    ASSUME LineageInv, NEW r \in Roots, InsertEntities(r)
    PROVE  LineageInv'
<1>1. PICK n \in DOMAIN Spawned :
        LET part == {Spawned[i] : i \in 1..n} IN
        /\ DOMAIN run[r].entities \subseteq part /\ DOMAIN run[r].entities # part
        /\ run' = [run EXCEPT ![r].entities = [e \in part |-> Reconstruct(Genesis)[e]]]
  BY DEF InsertEntities
<1>. DEFINE part == {Spawned[i] : i \in 1..n}
            d == [run[r] EXCEPT !.entities = [e \in part |-> Reconstruct(Genesis)[e]]]
<1>2. r \in DOMAIN run /\ run' = [run EXCEPT ![r] = d] /\ ask' = ask
  BY <1>1 DEF InsertEntities
<1>3. RunInv(run[r])
  BY <1>2 DEF LineageInv
<1>4. /\ IsRun(d) /\ d.hash = run[r].hash /\ d.frames = run[r].frames /\ d.tick = run[r].tick
      /\ d.entities = [e \in part |-> Reconstruct(Genesis)[e]] /\ d.kind = run[r].kind
      /\ d.parent = run[r].parent
      /\ d.lineage = run[r].lineage /\ d.genesis = run[r].genesis /\ d.command = run[r].command
  BY <1>3 DEF RunInv, IsRun
<1>. HIDE DEF d
<1>5. ~Complete(run[r])
  <2>1. DOMAIN Spawned = 1..Len(Spawned) /\ Len(Spawned) \in Nat
    BY LineageAssumption
  <2>2. part \subseteq Entities
    BY <2>1 DEF Entities
  <2>. QED  BY <1>1, <2>2 DEF Complete
<1>6. RunInv(d)
  BY <1>3, <1>4, <1>5 DEF RunInv, HashInv, OriginInv
<1>. QED  BY <1>2, <1>4, <1>5, <1>6, ChangeRun

LEMMA InsertFrameStep ==
    ASSUME LineageInv, NEW r \in Roots, InsertFrame(r)
    PROVE  LineageInv'
<1>. DEFINE d == [run[r] EXCEPT !.frames = With(@, 0, GenesisHash)]
<1>1. r \in DOMAIN run /\ run' = [run EXCEPT ![r] = d] /\ ask' = ask
  BY DEF InsertFrame
<1>2. RunInv(run[r]) /\ Complete(run[r]) /\ 0 \notin DOMAIN run[r].frames
  BY <1>1 DEF LineageInv, InsertFrame, Complete
<1>3. /\ IsRun(d) /\ d.hash = run[r].hash /\ d.frames = With(run[r].frames, 0, GenesisHash)
      /\ d.tick = run[r].tick
      /\ d.entities = run[r].entities /\ d.kind = run[r].kind /\ d.parent = run[r].parent
      /\ d.lineage = run[r].lineage /\ d.genesis = run[r].genesis /\ d.command = run[r].command
  BY <1>2 DEF RunInv, IsRun
<1>. HIDE DEF d
<1>4. \A t \in DOMAIN d.frames : DOMAIN d.frames[t].entities = Entities
  <2>. SUFFICES ASSUME NEW t \in DOMAIN d.frames
                PROVE  DOMAIN d.frames[t].entities = Entities
    OBVIOUS
  <2>1. CASE t # 0
    BY <1>2, <1>3, <2>1 DEF With, RunInv, HashInv
  <2>2. CASE t = 0
    BY <1>3, <2>2, AllOfGenesis DEF With
  <2>. QED  BY <2>1, <2>2
<1>5. RunInv(d) /\ Complete(d)
  BY <1>2, <1>3, <1>4 DEF RunInv, HashInv, OriginInv, Complete
<1>. QED  BY <1>1, <1>3, <1>5, ChangeRun

LEMMA StepRunStep ==
    ASSUME LineageInv, NEW r \in DOMAIN run, StepRun(r)
    PROVE  LineageInv'
<1>. DEFINE p == run[r]
            d == Stepped(p)
<1>1. run' = [run EXCEPT ![r] = d] /\ ask' = ask
  BY DEF StepRun
<1>2. RunInv(p)
  BY DEF LineageInv
<1>3. Complete(p)
  <2>1. HashOf(p.lineage, p.tick, p.entities) = p.hash
    BY DEF StepRun, Inspects
  <2>2. p.hash.entities = p.entities
    BY <2>1 DEF HashOf
  <2>. QED  BY <1>2, <2>2 DEF RunInv, HashInv, Complete
<1>. DEFINE t == p.tick + 1
            new == TickEvents(t, p.next)
            view == [e \in DOMAIN p.entities |->
                       LET by == {ev \in new : e \in ev.touched}
                       IN  IF by = {} THEN p.entities[e] ELSE Id(Last(by))]
            hash == HashOf(p.lineage, t, view)
<1>4. /\ d = [p EXCEPT !.tick = t, !.next = p.next + Len(world[t]), !.hash = hash,
                      !.events = p.events \cup new, !.entities = view,
                      !.frames = With(p.frames, t, hash)]
      /\ DOMAIN view = DOMAIN p.entities /\ hash.entities = view
  BY DEF Stepped, HashOf
<1>. HIDE DEF t, new, view, hash
<1>5. /\ IsRun(d) /\ d.hash = hash /\ d.frames = With(p.frames, t, hash)
      /\ d.entities = view /\ d.kind = p.kind /\ d.parent = p.parent
      /\ d.lineage = p.lineage /\ d.genesis = p.genesis /\ d.command = p.command
  BY <1>2, <1>4 DEF RunInv, IsRun
<1>. HIDE DEF d
<1>6. Complete(d) /\ DOMAIN d.hash.entities = Entities
  BY <1>3, <1>4, <1>5 DEF Complete
<1>7. \A u \in DOMAIN d.frames : DOMAIN d.frames[u].entities = Entities
  <2>. SUFFICES ASSUME NEW u \in DOMAIN d.frames
                PROVE  DOMAIN d.frames[u].entities = Entities
    OBVIOUS
  <2>1. CASE u # t
    BY <1>2, <1>5, <2>1 DEF With, RunInv, HashInv
  <2>2. CASE u = t
    BY <1>5, <1>6, <2>2 DEF With
  <2>. QED  BY <2>1, <2>2
<1>8. RunInv(d)
  BY <1>2, <1>5, <1>6, <1>7 DEF RunInv, HashInv, OriginInv
<1>. QED  BY <1>1, <1>5, <1>6, <1>8, ChangeRun

-----------------------------------------------------------------------------
\* Requests move, runs do not.

LEMMA MoveRequest ==
    ASSUME LineageInv, NEW c \in Slots, NEW a, ask' = [ask EXCEPT ![c] = a], run' = run,
           RequestInv(a)
    PROVE  LineageInv'
<1>1. /\ ask' = [x \in Slots |-> ask'[x]] /\ ask'[c] = a
      /\ \A x \in Slots : x # c => ask'[x] = ask[x]
  BY DEF LineageInv
<1>2. ASSUME NEW x \in Slots
      PROVE  RequestInv(ask[x])'
  <2>1. Kept
    BY DEF Kept
  <2>2. CASE x # c
    BY <1>1, <2>1, <2>2, RequestsKept DEF LineageInv
  <2>3. CASE x = c
    <3>1. ask'[x] = a
      BY <1>1, <2>3
    <3>. QED  BY <3>1 DEF RequestInv, Fulfils, RunInv, IsRun, HashInv, OriginInv, Complete
  <2>. QED  BY <2>2, <2>3
<1>3. NoSiblings' /\ ParentInv'
  BY DEF LineageInv, NoSiblings, ParentInv, ForkRuns
<1>4. (run = [r \in DOMAIN run |-> run[r]])' /\ (\A r \in DOMAIN run : RunInv(run[r]))'
  BY DEF LineageInv, RunInv, IsRun, HashInv, OriginInv, Complete
<1>. QED  BY <1>1, <1>2, <1>3, <1>4 DEF LineageInv

LEMMA IdleInv == RequestInv(Idle)
BY DEF Idle, RequestInv

\* _fork_run_transaction up to its writes.
LEMMA LookedInv ==
    ASSUME LineageInv, NEW q, q.parent \in DOMAIN run, NEW again
    PROVE  RequestInv(Looked(q, again))
<1>. DEFINE p == run[q.parent]
            child == Child(q)
            held == Reconstruct(Upto(p.events, q.tick))
<1>1. RunInv(p)
  BY DEF LineageInv
<1>2. CASE OutOfRange(q) \/ Broken(q) \/ Unexpected(q)
  BY <1>2, IdleInv DEF Looked
<1>3. CASE ~(OutOfRange(q) \/ Broken(q) \/ Unexpected(q)) /\ Alike(child) # {}
  <2>1. Looked(q, again) = Existing(q)
    BY <1>3 DEF Looked
  <2>. DEFINE same == {r \in Alike(child) \cap ForkRuns : run[r].command = Command(q)}
  <2>2. CASE same = {}
    BY <2>1, <2>2, IdleInv DEF Existing
  <2>3. CASE same # {}
    <3>1. PICK r \in same : Existing(q) = Answered(q, r)
      BY <2>3 DEF Existing
    <3>2. r \in DOMAIN run /\ run[r].kind = "fork" /\ run[r].command = Command(q)
      BY <3>1 DEF ForkRuns
    <3>3. OriginInv(run[r])
      BY <3>2 DEF LineageInv, RunInv
    <3>4. /\ Command(q).parent = q.parent /\ Command(q).identity.tick = q.tick
          /\ Command(q).identity.branch = q.branch
      BY DEF Command, Identity
    <3>5. Fulfils(run[r], q)
      BY <3>2, <3>3, <3>4 DEF OriginInv, Fulfils
    <3>. QED  BY <2>1, <3>1, <3>2, <3>5 DEF Answered, RequestInv
  <2>. QED  BY <2>2, <2>3
<1>4. CASE ~(OutOfRange(q) \/ Broken(q) \/ Unexpected(q)) /\ Alike(child) = {}
  <2>1. Looked(q, again) = [pc |-> "write", q |-> q, again |-> again, child |-> child]
    BY <1>4 DEF Looked
  <2>2. q.tick \in DOMAIN p.frames /\ HashOf(p.lineage, q.tick, held) = p.frames[q.tick]
    BY <1>4 DEF Broken
  <2>3. DOMAIN held = Entities /\ Complete(p)
    <3>1. p.frames[q.tick].entities = held
      BY <2>2 DEF HashOf
    <3>. QED  BY <1>1, <2>2, <3>1 DEF RunInv, HashInv
  <2>. HIDE DEF held
  <2>4. /\ IsRun(child) /\ child.kind = "fork" /\ child.parent = q.parent
        /\ child.lineage = Identity(q) /\ child.command = Command(q) /\ child.genesis = q.tick
        /\ child.entities = held /\ child.hash = HashOf(Identity(q), q.tick, held)
        /\ child.frames = [t \in {q.tick} |-> HashOf(Identity(q), q.tick, held)]
    BY DEF Child, IsRun, held
  <2>. HIDE DEF child
  <2>5. Command(q).parent = q.parent /\ Command(q).identity = Identity(q)
    BY DEF Command
  <2>6. Identity(q).tick = q.tick /\ Identity(q).branch = q.branch
    BY DEF Identity
  <2>7. HashInv(child) /\ Complete(child)
    BY <2>3, <2>4 DEF HashInv, Complete, HashOf
  <2>8. RunInv(child) /\ Fulfils(child, q)
    BY <2>4, <2>5, <2>6, <2>7 DEF RunInv, OriginInv, Fulfils
  <2>. QED  BY <2>1, <2>3, <2>4, <2>7, <2>8 DEF RequestInv
<1>. QED  BY <1>2, <1>3, <1>4

LEMMA RequestStep ==
    ASSUME LineageInv, NEW c \in Slots, Ask(c) \/ MeetDuplicate(c) \/ LookAgain(c) \/ Fail(c)
    PROVE  LineageInv'
<1>1. CASE Ask(c)
  <2>1. PICK p \in DOMAIN run : \E q \in Requests(p) :
            ask' = [ask EXCEPT ![c] = Looked(q, FALSE)] /\ run' = run
    BY <1>1 DEF Ask
  <2>2. PICK q \in Requests(p) : ask' = [ask EXCEPT ![c] = Looked(q, FALSE)] /\ run' = run
    BY <2>1
  <2>3. q.parent \in DOMAIN run
    BY <2>1, <2>2 DEF Requests
  <2>. QED  BY <2>2, <2>3, LookedInv, MoveRequest
<1>2. CASE MeetDuplicate(c)
  <2>1. /\ ask' = [ask EXCEPT ![c] = [pc |-> "again", q |-> ask[c].q]] /\ run' = run
        /\ ask[c].pc = "write"
    BY <1>2 DEF MeetDuplicate
  <2>2. RequestInv([pc |-> "again", q |-> ask[c].q])
    BY <2>1 DEF LineageInv, RequestInv
  <2>. QED  BY <2>1, <2>2, MoveRequest
<1>3. CASE LookAgain(c)
  <2>1. /\ ask' = [ask EXCEPT ![c] = Looked(ask[c].q, TRUE)] /\ run' = run
        /\ ask[c].pc = "again"
    BY <1>3 DEF LookAgain
  <2>2. ask[c].q.parent \in DOMAIN run
    BY <2>1 DEF LineageInv, RequestInv
  <2>. QED  BY <2>1, <2>2, LookedInv, MoveRequest
<1>4. CASE Fail(c)
  BY <1>4, IdleInv, MoveRequest DEF Fail
<1>. QED  BY <1>1, <1>2, <1>3, <1>4

\* The writes of a fork.
LEMMA WriteStep ==
    ASSUME LineageInv, NEW c \in Slots, Write(c)
    PROVE  LineageInv'
<1>. PICK child, id, q : child = ask[c].child /\ id = child.command /\ q = ask[c].q
  OBVIOUS
<1>1. /\ ~Taken(child) /\ run' = With(run, id, child)
      /\ ask' \in {[ask EXCEPT ![c] = Answered(q, id)], [ask EXCEPT ![c] = Idle]}
  BY DEF Write
<1>2. id \notin DOMAIN run /\ \A r \in ForkRuns : run[r].lineage # child.lineage
  BY <1>1 DEF Taken, Alike, ForkRuns
<1>3. /\ RunInv(child) /\ child.kind = "fork" /\ Complete(child) /\ Fulfils(child, q)
      /\ q.parent \in DOMAIN run /\ Complete(run[q.parent])
  BY DEF Write, LineageInv, RequestInv
<1>4. /\ DOMAIN run' = DOMAIN run \cup {id} /\ run' = [x \in DOMAIN run' |-> run'[x]]
      /\ run'[id] = child /\ \A x \in DOMAIN run : run'[x] = run[x]
  BY <1>1, <1>2 DEF With
<1>5. Kept
  BY <1>4 DEF Kept
<1>6. (\A x \in DOMAIN run : RunInv(run[x]))'
  BY <1>3, <1>4 DEF LineageInv, RunInv, IsRun, HashInv, OriginInv, Complete
<1>7. ForkRuns' = ForkRuns \cup {id} /\ id \notin ForkRuns
  BY <1>2, <1>3, <1>4 DEF ForkRuns
<1>8. NoSiblings'
  BY <1>2, <1>4, <1>7 DEF LineageInv, NoSiblings, ForkRuns
<1>9. ParentInv'
  <2>1. child.parent \in DOMAIN run /\ Complete(run[child.parent])
    BY <1>3 DEF Fulfils
  <2>. QED  BY <1>4, <1>7, <2>1 DEF LineageInv, ParentInv, ForkRuns, Complete
<1>10. /\ ask' = [x \in Slots |-> ask'[x]] /\ ask'[c] \in {Answered(q, id), Idle}
       /\ \A x \in Slots : x # c => ask'[x] = ask[x]
  BY <1>1 DEF LineageInv
<1>11. RequestInv(Answered(q, id))' /\ RequestInv(Idle)'
  BY <1>3, <1>4 DEF Answered, Idle, RequestInv, Fulfils
<1>12. ASSUME NEW x \in Slots
       PROVE  RequestInv(ask[x])'
  <2>1. CASE x # c
    BY <1>5, <1>10, <2>1, RequestsKept DEF LineageInv
  <2>2. CASE x = c
    BY <1>10, <1>11, <2>2
  <2>. QED  BY <2>1, <2>2
<1>. QED  BY <1>4, <1>6, <1>8, <1>9, <1>10, <1>12 DEF LineageInv

-----------------------------------------------------------------------------
LEMMA InitLineage == Init => LineageInv
<1>. SUFFICES ASSUME Init
              PROVE  LineageInv
  OBVIOUS
<1>1. DOMAIN run = {} /\ run = [r \in DOMAIN run |-> run[r]]
  BY DEF Init
<1>2. ask = [c \in Slots |-> ask[c]] /\ \A c \in Slots : ask[c] = Idle
  BY DEF Init
<1>. QED  BY <1>1, <1>2, IdleInv DEF LineageInv, NoSiblings, ParentInv, ForkRuns

LEMMA LineageStep == LineageInv /\ [Next]_vars => LineageInv'
<1>. SUFFICES ASSUME LineageInv, [Next]_vars
              PROVE  LineageInv'
  OBVIOUS
<1>1. CASE UNCHANGED vars
  BY <1>1 DEF vars, LineageInv, NoSiblings, ParentInv, ForkRuns, RequestInv, Fulfils, RunInv, IsRun,
              HashInv, OriginInv, Complete
<1>. QED  BY <1>1, InsertRunStep, InsertEventsStep, InsertEntitiesStep, InsertFrameStep,
             StepRunStep, RequestStep, WriteStep DEF Next

\* The inductive invariant, for any interleaving of creations, steps and forks.
THEOREM LineageInvariance == Spec => []LineageInv
<1>. QED  BY InitLineage, LineageStep, PTL DEF Spec

\* fork_run never creates a sibling, however many requests race for an identity.
THEOREM SiblingsCorrect == Spec => []NoSiblings
<1>1. LineageInv => NoSiblings
  BY DEF LineageInv
<1>. QED  BY <1>1, LineageInvariance, PTL

\* create_run that stops half-way leaves a run that is neither stepped nor forked
\* before its entities are all there.
THEOREM PartialCorrect == Spec => []PartialRunsInert
<1>1. LineageInv => PartialRunsInert
  BY DEF LineageInv, PartialRunsInert, ParentInv, RunInv, HashInv, Complete
<1>. QED  BY <1>1, LineageInvariance, PTL

\* fork_run answers with the fork it was asked for, although another parent of the
\* same lineage may have a fork of the same identity.
THEOREM AnswersCorrect == Spec => []AnsweredTrue
<1>1. LineageInv => AnsweredTrue
  BY DEF LineageInv, AnsweredTrue, RequestInv, Fulfils
<1>. QED  BY <1>1, LineageInvariance, PTL

-----------------------------------------------------------------------------
\* The stream of a seed.

\* A name that is no record: the ids that create_run draws, and None.
Atomic(x) == \A f : x # [k \in DOMAIN f |-> f[k]]

\* Every scenario spawns something, and the ids of roots are drawn apart from those of forks.
Seeded == Spawned # <<>> /\ Atomic(None) /\ \A r \in Roots : Atomic(r)

\* What the events of a tick make of a view.
Touched(view, evts) ==
    [e \in DOMAIN view |-> LET by == {ev \in evts : e \in ev.touched}
                           IN  IF by = {} THEN view[e] ELSE Id(Last(by))]

Successor(s, t) ==
    [next |-> s.next + Len(world[t]), view |-> Touched(s.view, TickEvents(t, s.next))]

Origin == [next |-> Len(Spawned), view |-> Reconstruct(Genesis)]

\* S is what the seed makes of its world up to tick n: after each tick the next order
\* index, and the event that last touched each entity.
Stream(S, n) ==
    /\ S[0] = Origin
    /\ \A t \in 1..n : S[t] = Successor(S[t - 1], t)
    /\ \A t \in 0..n : S[t].next \in Nat /\ DOMAIN S[t].view = Entities

\* By its events, the run was at s after tick t.
WasAt(r, t, s) ==
    LET evts == Upto(r.events, t) IN
    /\ evts # {}
    /\ Reconstruct(evts) = s.view
    /\ \A ev \in evts : ev.order \in 0..(s.next - 1)
    /\ r.floor <= s.next /\ Consumed(evts) = r.floor..(s.next - 1)
    /\ \A e \in Entities : s.view[e] \in Ids(evts) \cup r.anchors

\* A run that has all its entities follows the stream.
Follows(r, S) ==
    /\ r.genesis \in Nat /\ r.tick \in Nat /\ r.genesis <= r.tick /\ r.floor \in Nat
    /\ r.entities = S[r.tick].view /\ r.next = S[r.tick].next
    /\ r.hash = HashOf(r.lineage, r.tick, S[r.tick].view)
    /\ DOMAIN r.frames \subseteq r.genesis..r.tick
    /\ (r.genesis + 1)..r.tick \subseteq DOMAIN r.frames
    /\ \A t \in DOMAIN r.frames : r.frames[t] = HashOf(r.lineage, t, S[t].view)
    /\ \A ev \in r.events : ev.tick \in r.genesis..r.tick
    /\ \A t \in r.genesis..r.tick : WasAt(r, t, S[t])

\* A run that create_run is not done with.
Unfinished(r) ==
    /\ r.tick = 0 /\ r.next = Len(Spawned) /\ r.hash = GenesisHash
    /\ DOMAIN r.frames = {} /\ r.events \subseteq Genesis

StreamOf(r, S, n) ==
    /\ r.kind \in {"world", "fork"}
    /\ r.kind = "world" =>
          /\ r.genesis = 0 /\ r.lineage = Seed /\ r.floor = 0 /\ r.anchors = {}
          /\ Complete(r) => Genesis \subseteq r.events
          /\ ~Complete(r) => Unfinished(r)
    /\ r.kind = "fork" =>
          Complete(r) /\ r.command = [k \in DOMAIN r.command |-> r.command[k]]
    /\ Complete(r) => r.tick <= n /\ Follows(r, S)

\* All runs, and those about to be stored, follow one stream.
Streams(S, n) ==
    /\ Stream(S, n)
    /\ \A r \in DOMAIN run : StreamOf(run[r], S, n)
    /\ \A c \in Slots : ask[c].pc = "write" => StreamOf(ask[c].child, S, n)

StreamInv ==
    /\ world \in Worlds
    /\ \A r \in ForkRuns : r = run[r].command
    /\ \E n, S : n \in 0..MaxTick /\ Streams(S, n)

-----------------------------------------------------------------------------

\* A bounded set of numbers has a largest.
LEMMA Largest ==
    ASSUME NEW X \in SUBSET Nat, X # {}, NEW n \in Nat, \A x \in X : x <= n
    PROVE  \E m \in X : \A x \in X : x <= m
<1>. DEFINE Y == {n - x : x \in X}
            Less == {ss \in Nat \X Nat : ss[1] < ss[2]}
<1>1. Y \subseteq Nat /\ Y # {}
  <2>1. \A x \in X : n - x \in Nat
    OBVIOUS
  <2>2. PICK x \in X : TRUE
    OBVIOUS
  <2>3. n - x \in Y
    BY <2>2
  <2>. QED  BY <2>1, <2>3
<1>2. IsWellFoundedOn(Less, Nat)
  BY NatLessThanWellFounded DEF OpToRel
<1>. HIDE DEF Y, Less
<1>3. PICK y \in Y : \A z \in Y : ~ (<<z, y>> \in Less)
  BY <1>1, <1>2, WFMin
<1>4. \A z \in Y : ~ (z < y)
  BY <1>1, <1>3 DEF Less
<1>5. PICK m \in X : y = n - m
  BY DEF Y
<1>6. ASSUME NEW x \in X
      PROVE  x <= m
  <2>1. n - x \in Y
    BY DEF Y
  <2>2. ~ (n - x < n - m)
    BY <1>4, <1>5, <2>1
  <2>. QED  BY <2>2
<1>. QED  BY <1>6

\* A replay of events ends with one of them.
LEMMA LastExists ==
    ASSUME NEW X, X # {}, NEW a \in Nat, NEW b \in Nat,
           \A ev \in X : ev.tick \in 0..a /\ ev.order \in 0..b
    PROVE  /\ Last(X) \in X
           /\ \A other \in X : \/ other.tick < Last(X).tick
                               \/ other.tick = Last(X).tick /\ other.order <= Last(X).order
<1>. DEFINE T == {ev.tick : ev \in X}
<1>1. PICK t \in T : \A u \in T : u <= t
  <2>1. T \in SUBSET Nat /\ T # {} /\ \A u \in T : u <= a
    OBVIOUS
  <2>. HIDE DEF T
  <2>. QED  BY <2>1, Largest
<1>. DEFINE O == {ev.order : ev \in {x \in X : x.tick = t}}
<1>2. PICK o \in O : \A u \in O : u <= o
  <2>1. O \in SUBSET Nat /\ O # {} /\ \A u \in O : u <= b
    BY <1>1
  <2>. HIDE DEF O
  <2>. QED  BY <2>1, Largest
<1>3. PICK m \in X : m.tick = t /\ m.order = o
  BY <1>2
<1>4. \A other \in X : other.tick < m.tick \/ (other.tick = m.tick /\ other.order <= m.order)
  <2>. SUFFICES ASSUME NEW other \in X, ~(other.tick < m.tick)
                PROVE  other.tick = m.tick /\ other.order <= m.order
    OBVIOUS
  <2>1. other.tick = t
    <3>1. other.tick \in T /\ m.tick \in 0..a /\ other.tick \in 0..a
      OBVIOUS
    <3>2. other.tick <= t
      BY <1>1, <3>1
    <3>. QED  BY <1>3, <3>1, <3>2
  <2>2. other.order \in O
    BY <2>1
  <2>. QED  BY <1>2, <1>3, <2>1, <2>2
<1>5. /\ Last(X) \in X
      /\ \A other \in X : \/ other.tick < Last(X).tick
                          \/ other.tick = Last(X).tick /\ other.order <= Last(X).order
  BY <1>4, Zenon DEF Last
<1>. QED  BY <1>5

\* The events of a tick, numbered from k.
LEMMA TickEventsFacts ==
    ASSUME world \in Worlds, NEW t \in 1..MaxTick, NEW k \in Nat
    PROVE  /\ Len(world[t]) \in Nat
           /\ \A ev \in TickEvents(t, k) :
                 /\ ev.tick = t /\ ev.fork = None /\ ev.touched \subseteq Entities
                 /\ ev.order \in k..(k + Len(world[t]) - 1)
           /\ \A a, b \in TickEvents(t, k) : a.order = b.order => a = b
           /\ {ev.order : ev \in TickEvents(t, k)} = k..(k + Len(world[t]) - 1)
<1>. DEFINE len == Len(world[t])
            new(i) == Event(t, k + i - 1, world[t][i], None, <<>>)
<1>1. len \in Nat /\ \A i \in 1..len : world[t][i] \subseteq Entities
  <2>1. world[t] \in Seq(SUBSET Entities)
    BY LineageAssumption
  <2>. QED  BY <2>1
<1>2. TickEvents(t, k) = {new(i) : i \in 1..len}
  BY DEF TickEvents
<1>3. \A i \in 1..len : /\ new(i).tick = t /\ new(i).fork = None
                        /\ new(i).touched = world[t][i] /\ new(i).order = k + i - 1
  BY DEF Event
<1>. HIDE DEF new, len
<1>4. \A ev \in TickEvents(t, k) : ev.order \in k..(k + len - 1)
  BY <1>1, <1>2, <1>3
<1>5. ASSUME NEW o \in k..(k + len - 1)
      PROVE  \E ev \in TickEvents(t, k) : ev.order = o
  <2>1. o - k + 1 \in 1..len /\ k + (o - k + 1) - 1 = o
    BY <1>1
  <2>2. new(o - k + 1).order = o
    BY <1>3, <2>1
  <2>. QED  BY <1>2, <2>1, <2>2
<1>6. {ev.order : ev \in TickEvents(t, k)} = k..(k + len - 1)
  BY <1>4, <1>5
<1>7. \A a, b \in TickEvents(t, k) : a.order = b.order => a = b
  BY <1>1, <1>2, <1>3
<1>8. \A ev \in TickEvents(t, k) : ev.tick = t /\ ev.fork = None /\ ev.touched \subseteq Entities
  BY <1>1, <1>2, <1>3
<1>. QED  BY <1>1, <1>4, <1>6, <1>7, <1>8 DEF len

\* Events of a tick: the last of those that touch an entity.
LEMMA LastOfTick ==
    ASSUME world \in Worlds, NEW t \in 1..MaxTick, NEW k \in Nat,
           NEW X \in SUBSET TickEvents(t, k), X # {}
    PROVE  /\ Last(X) \in X /\ \A ev \in X : ev.order <= Last(X).order
<1>1. Len(world[t]) \in Nat /\ t \in Nat
  BY TickEventsFacts, LineageAssumption
<1>2. \A ev \in X : ev.tick = t /\ ev.order \in 0..(k + Len(world[t]))
  <2>1. \A ev \in X : ev.tick = t /\ ev.order \in k..(k + Len(world[t]) - 1)
    BY TickEventsFacts
  <2>. QED  BY <1>1, <2>1
<1>3. k + Len(world[t]) \in Nat /\ \A ev \in X : ev.tick \in 0..t
  BY <1>1, <1>2
<1>4. /\ Last(X) \in X
      /\ \A other \in X : \/ other.tick < Last(X).tick
                          \/ other.tick = Last(X).tick /\ other.order <= Last(X).order
  BY <1>1, <1>2, <1>3, LastExists
<1>. QED  BY <1>1, <1>2, <1>4

\* What a tick makes of a replay, step_run makes of the entities.
LEMMA ReconstructTick ==
    ASSUME world \in Worlds, NEW t \in 1..MaxTick, NEW k \in Nat, NEW evts,
           \A ev \in evts : ev.tick \in 0..(t - 1), DOMAIN Reconstruct(evts) = Entities
    PROVE  Reconstruct(evts \cup TickEvents(t, k)) = Touched(Reconstruct(evts), TickEvents(t, k))
<1>. DEFINE new == TickEvents(t, k)
            all == evts \cup new
            of(X, e) == {ev \in X : e \in ev.touched}
<1>1. DOMAIN Reconstruct(evts) = UNION {ev.touched : ev \in evts}
  BY DEF Reconstruct
<1>2. \A ev \in new : ev.touched \subseteq Entities /\ ev.tick = t /\ ev.fork = None
  BY TickEventsFacts
<1>3. UNION {ev.touched : ev \in all} = Entities
  BY <1>1, <1>2
<1>4. ASSUME NEW e \in Entities, of(new, e) = {}
      PROVE  of(all, e) = of(evts, e)
  BY <1>4
<1>5. ASSUME NEW e \in Entities, of(new, e) # {}
      PROVE  /\ Last(of(all, e)) = Last(of(new, e))
             /\ Last(of(new, e)) \in new
  <2>. DEFINE m == Last(of(new, e))
              Top(ev) == \A other \in of(all, e) :
                           other.tick < ev.tick \/ (other.tick = ev.tick /\ other.order <= ev.order)
  <2>1. m \in of(new, e) /\ \A ev \in of(new, e) : ev.order <= m.order
    BY <1>5, LastOfTick
  <2>2. m \in of(all, e) /\ m.tick = t
    BY <1>2, <2>1
  <2>3. t \in Nat /\ \A ev \in evts : ev.tick < t
    BY LineageAssumption
  <2>4. Top(m)
    BY <1>2, <2>1, <2>2, <2>3
  <2>5. ASSUME NEW x \in of(all, e), Top(x)
        PROVE  x = m
    <3>1. x \in new
      BY <2>2, <2>3, <2>5
    <3>2. x.tick = t /\ x.order = m.order
      <4>1. x.tick = t /\ x \in of(new, e) /\ x.order <= m.order
        BY <1>2, <2>1, <3>1
      <4>2. m.order <= x.order
        BY <2>2, <2>3, <2>5, <4>1
      <4>3. x.order \in Int /\ m.order \in Int
        <5>1. Len(world[t]) \in Nat /\ \A ev \in new : ev.order \in k..(k + Len(world[t]) - 1)
          BY TickEventsFacts
        <5>. QED  BY <2>1, <3>1, <5>1
      <4>. QED  BY <4>1, <4>2, <4>3
    <3>. QED  BY <2>1, <3>1, <3>2, TickEventsFacts
  <2>6. Last(of(all, e)) = CHOOSE ev \in of(all, e) : Top(ev)
    BY DEF Last
  <2>. HIDE DEF m, of, all, new, Top
  <2>7. (CHOOSE ev \in of(all, e) : Top(ev)) = m
    BY <2>2, <2>4, <2>5
  <2>. QED  BY <2>1, <2>6, <2>7 DEF m, of
<1>. DEFINE A(e) == LET ev == Last(of(all, e)) IN IF ev.fork = None THEN Id(ev) ELSE ev.held[e]
            B(e) == LET ev == Last(of(evts, e)) IN IF ev.fork = None THEN Id(ev) ELSE ev.held[e]
<1>6. Reconstruct(all) = [e \in Entities |-> A(e)]
  BY <1>3 DEF Reconstruct
<1>7. Reconstruct(evts) = [e \in Entities |-> B(e)]
  BY <1>1 DEF Reconstruct
<1>8. Touched(Reconstruct(evts), new) =
          [e \in Entities |-> IF of(new, e) = {} THEN B(e) ELSE Id(Last(of(new, e)))]
  BY <1>7 DEF Touched
<1>9. \A e \in Entities : A(e) = IF of(new, e) = {} THEN B(e) ELSE Id(Last(of(new, e)))
  <2>. SUFFICES ASSUME NEW e \in Entities
                PROVE  A(e) = IF of(new, e) = {} THEN B(e) ELSE Id(Last(of(new, e)))
    OBVIOUS
  <2>1. CASE of(new, e) = {}
    BY <1>4, <2>1
  <2>2. CASE of(new, e) # {}
    BY <1>2, <1>5, <2>2
  <2>. QED  BY <2>1, <2>2
<1>. HIDE DEF A, B, of, all
<1>. QED  BY <1>6, <1>8, <1>9 DEF all

\* What a tick makes of a point of the stream is one.
LEMMA SuccessorType ==
    ASSUME world \in Worlds, NEW t \in 1..MaxTick, NEW s, s.next \in Nat, DOMAIN s.view = Entities
    PROVE  LET z == Successor(s, t) IN
           /\ z.next = s.next + Len(world[t]) /\ z.next \in Nat
           /\ z.view = Touched(s.view, TickEvents(t, s.next)) /\ DOMAIN z.view = Entities
<1>1. Len(world[t]) \in Nat
  BY TickEventsFacts
<1>. QED  BY <1>1 DEF Successor, Touched

\* A committed tick carries a run along the stream.
LEMMA WasAtNext ==
    ASSUME world \in Worlds, NEW t \in 1..MaxTick, NEW s, s.next \in Nat, DOMAIN s.view = Entities,
           NEW r, NEW d, WasAt(r, t - 1, s), r.floor \in Nat,
           \A ev \in r.events : ev.tick \in 0..(t - 1),
           d.events = r.events \cup TickEvents(t, s.next), d.floor = r.floor, d.anchors = r.anchors
    PROVE  WasAt(d, t, Successor(s, t))
<1>. DEFINE new == TickEvents(t, s.next)
            z == Successor(s, t)
            len == Len(world[t])
<1>1. /\ len \in Nat /\ t \in Nat
      /\ \A ev \in new : ev.tick = t /\ ev.fork = None /\ ev.order \in s.next..(s.next + len - 1)
      /\ {ev.order : ev \in new} = s.next..(s.next + len - 1)
  BY TickEventsFacts, LineageAssumption
<1>2. z.next = s.next + len /\ z.view = Touched(s.view, new)
  BY SuccessorType
<1>3. Upto(r.events, t - 1) = r.events /\ Upto(d.events, t) = r.events \cup new
  BY <1>1 DEF Upto
<1>4. /\ r.events # {} /\ Reconstruct(r.events) = s.view
      /\ \A ev \in r.events : ev.order \in 0..(s.next - 1)
      /\ r.floor <= s.next /\ Consumed(r.events) = r.floor..(s.next - 1)
      /\ \A e \in Entities : s.view[e] \in Ids(r.events) \cup r.anchors
  BY <1>3 DEF WasAt
<1>. HIDE DEF new, z, len
<1>5. Reconstruct(r.events \cup new) = z.view
  BY <1>2, <1>4, ReconstructTick DEF new
<1>6. \A ev \in r.events \cup new : ev.order \in 0..(z.next - 1)
  BY <1>1, <1>2, <1>4
<1>7. Consumed(r.events \cup new) = r.floor..(z.next - 1)
  <2>1. Consumed(r.events \cup new) = Consumed(r.events) \cup {ev.order : ev \in new}
    BY <1>1 DEF Consumed
  <2>2. \A a, b, l \in Nat : a <= b => (a..(b - 1)) \cup (b..(b + l - 1)) = a..(b + l - 1)
    OBVIOUS
  <2>3. (r.floor..(s.next - 1)) \cup (s.next..(s.next + len - 1)) = r.floor..(s.next + len - 1)
    BY <1>1, <1>4, <2>2
  <2>4. Consumed(r.events \cup new) = r.floor..(s.next + len - 1)
    <3>1. {ev.order : ev \in new} = s.next..(s.next + len - 1)
      BY <1>1
    <3>2. Consumed(r.events) = r.floor..(s.next - 1)
      BY <1>4
    <3>. QED  BY <2>1, <2>3, <3>1, <3>2, Zenon
  <2>5. s.next + len - 1 = z.next - 1
    BY <1>1, <1>2
  <2>. QED  BY <2>4, <2>5
<1>8. ASSUME NEW e \in Entities
      PROVE  z.view[e] \in Ids(r.events \cup new) \cup r.anchors
  <2>. DEFINE by == {ev \in new : e \in ev.touched}
  <2>1. z.view[e] = IF by = {} THEN s.view[e] ELSE Id(Last(by))
    BY <1>2 DEF Touched
  <2>2. by # {} => Last(by) \in new
    BY LastOfTick DEF new
  <2>. QED  BY <1>4, <2>1, <2>2 DEF Ids
<1>9. r.floor <= z.next
  BY <1>1, <1>2, <1>4
<1>. QED  BY <1>3, <1>4, <1>5, <1>6, <1>7, <1>8, <1>9 DEF WasAt, z

\* The stream goes on, and whoever followed it still does.
LEMMA Longer ==
    ASSUME world \in Worlds, NEW S, NEW n \in 0..MaxTick, n < MaxTick, Stream(S, n)
    PROVE  \E Z : Stream(Z, n + 1) /\ \A t \in 0..n : Z[t] = S[t]
<1>. DEFINE Z == [t \in 0..(n + 1) |-> IF t <= n THEN S[t] ELSE Successor(S[n], n + 1)]
<1>1. n \in Nat /\ n + 1 \in 1..MaxTick
  BY LineageAssumption
<1>2. /\ \A t \in 0..n : Z[t] = S[t]
      /\ Z[n + 1] = Successor(S[n], n + 1)
  BY <1>1
<1>. HIDE DEF Z
<1>3. Z[0] = Origin
  BY <1>1, <1>2 DEF Stream
<1>4. ASSUME NEW t \in 1..(n + 1)
      PROVE  Z[t] = Successor(Z[t - 1], t)
  <2>1. t - 1 \in 0..n
    BY <1>1
  <2>2. CASE t = n + 1
    <3>1. t - 1 = n
      BY <1>1, <2>2
    <3>. QED  BY <1>2, <2>1, <2>2, <3>1
  <2>3. CASE t # n + 1
    <3>1. t \in 1..n
      BY <1>1, <2>3
    <3>. QED  BY <1>2, <2>1, <3>1 DEF Stream
  <2>. QED  BY <2>2, <2>3
<1>5. Z[n + 1].next \in Nat /\ DOMAIN Z[n + 1].view = Entities
  <2>1. S[n].next \in Nat /\ DOMAIN S[n].view = Entities
    BY <1>1 DEF Stream
  <2>. QED  BY <1>1, <1>2, <2>1, SuccessorType
<1>6. \A t \in 0..(n + 1) : t = n + 1 \/ t \in 0..n
  BY <1>1
<1>7. \A t \in 0..(n + 1) : Z[t].next \in Nat /\ DOMAIN Z[t].view = Entities
  BY <1>2, <1>5, <1>6 DEF Stream
<1>. QED  BY <1>2, <1>3, <1>4, <1>7 DEF Stream

\* A stream that goes on is followed like the one it continues.
LEMMA FollowsLonger ==
    ASSUME NEW n \in Nat, NEW S, NEW Z, \A t \in 0..n : Z[t] = S[t], NEW r, StreamOf(r, S, n)
    PROVE  StreamOf(r, Z, n + 1)
<1>1. ASSUME Complete(r)
      PROVE  r.tick <= n + 1 /\ Follows(r, Z)
  <2>1. r.tick <= n /\ Follows(r, S) /\ r.tick \in Nat /\ r.genesis \in Nat
    BY <1>1 DEF StreamOf, Follows
  <2>2. \A t \in r.genesis..r.tick : Z[t] = S[t]
    BY <2>1
  <2>3. r.tick \in r.genesis..r.tick /\ DOMAIN r.frames \subseteq r.genesis..r.tick
    BY <2>1 DEF Follows
  <2>. QED  BY <2>1, <2>2, <2>3 DEF Follows
<1>. QED  BY <1>1 DEF StreamOf

\* There is always a stream that reaches to the next tick of a run.
LEMMA StreamReaches ==
    ASSUME StreamInv, NEW r \in DOMAIN run, Complete(run[r]), run[r].tick < MaxTick
    PROVE  \E n, S : n \in 0..MaxTick /\ Streams(S, n) /\ run[r].tick < n
<1>1. PICK n, S : n \in 0..MaxTick /\ Streams(S, n)
  BY DEF StreamInv
<1>2. n \in Nat /\ run[r].tick \in Nat /\ run[r].tick <= n
  <2>1. StreamOf(run[r], S, n)
    BY <1>1 DEF Streams
  <2>2. Follows(run[r], S) /\ run[r].tick <= n
    BY <2>1 DEF StreamOf
  <2>. QED  BY <1>1, <2>2 DEF Follows
<1>3. CASE run[r].tick < n
  BY <1>1, <1>3
<1>4. CASE run[r].tick = n
  <2>1. n < MaxTick /\ n + 1 \in 0..MaxTick /\ run[r].tick < n + 1
    BY <1>2, <1>4, LineageAssumption
  <2>2. PICK Z : Stream(Z, n + 1) /\ \A t \in 0..n : Z[t] = S[t]
    BY <1>1, <2>1, Longer DEF StreamInv, Streams
  <2>3. Streams(Z, n + 1)
    BY <1>1, <1>2, <2>2, FollowsLonger DEF Streams
  <2>. QED  BY <2>1, <2>3
<1>. QED  BY <1>2, <1>3, <1>4

-----------------------------------------------------------------------------
\* Runs of a seed.

\* The events of a genesis, one for each entity.
LEMMA GenesisFacts ==
    ASSUME Seeded
    PROVE  /\ Genesis # {} /\ Consumed(Genesis) = 0..(Len(Spawned) - 1)
           /\ \A ev \in Genesis : ev.tick = 0 /\ ev.order \in 0..(Len(Spawned) - 1)
           /\ \A n \in DOMAIN Spawned : Spawns(n) \subseteq Genesis
           /\ \A e \in Entities : Reconstruct(Genesis)[e] \in Ids(Genesis)
           /\ Len(Spawned) \in Nat
<1>. DEFINE len == Len(Spawned)
            spawn(i) == Event(0, i - 1, {Spawned[i]}, None, <<>>)
<1>1. len \in Nat /\ len # 0 /\ DOMAIN Spawned = 1..len
  BY LineageAssumption DEF Seeded
<1>2. \A n : Spawns(n) = {spawn(i) : i \in 1..n}
  BY DEF Spawns
<1>3. Genesis = {spawn(i) : i \in 1..len}
  BY DEF Genesis, Spawns
<1>4. \A i \in 1..len : spawn(i).tick = 0 /\ spawn(i).order = i - 1 /\ spawn(i).fork = None
  BY DEF Event
<1>. HIDE DEF spawn, len
<1>5. Genesis # {}
  <2>1. spawn(1) \in Genesis
    BY <1>1, <1>3
  <2>. QED  BY <2>1
<1>6. \A ev \in Genesis : ev.tick = 0 /\ ev.order \in 0..(len - 1) /\ ev.fork = None
  BY <1>1, <1>3, <1>4
<1>7. Consumed(Genesis) = 0..(len - 1)
  <2>1. Consumed(Genesis) = {ev.order : ev \in Genesis}
    BY <1>6 DEF Consumed
  <2>2. ASSUME NEW o \in 0..(len - 1)
        PROVE  \E ev \in Genesis : ev.order = o
    <3>1. o + 1 \in 1..len /\ o + 1 - 1 = o
      BY <1>1
    <3>. QED  BY <1>3, <1>4, <3>1
  <2>. QED  BY <1>6, <2>1, <2>2
<1>8. \A n \in DOMAIN Spawned : Spawns(n) \subseteq Genesis
  BY <1>1, <1>2, <1>3
<1>9. ASSUME NEW e \in Entities
      PROVE  Reconstruct(Genesis)[e] \in Ids(Genesis)
  <2>. DEFINE of == {ev \in Genesis : e \in ev.touched}
  <2>1. e \in UNION {ev.touched : ev \in Genesis}
    BY AllOfGenesis DEF Reconstruct
  <2>2. of # {} /\ \A ev \in of : ev.tick \in 0..0 /\ ev.order \in 0..len
    BY <1>1, <1>6, <2>1
  <2>. HIDE DEF of
  <2>3. Last(of) \in of
    BY <1>1, <2>2, LastExists
  <2>4. Last(of) \in Genesis /\ Last(of).fork = None
    BY <1>6, <2>3 DEF of
  <2>5. Reconstruct(Genesis)[e] = Id(Last(of))
    BY <2>1, <2>4 DEF Reconstruct, of
  <2>. QED  BY <2>4, <2>5 DEF Ids
<1>. QED  BY <1>1, <1>5, <1>6, <1>7, <1>8, <1>9 DEF len

\* Where the stream begins, so does a world.
LEMMA GenesisWas ==
    ASSUME Seeded, NEW r, r.events = Genesis, r.floor = 0
    PROVE  WasAt(r, 0, Origin)
<1>1. Upto(Genesis, 0) = Genesis
  BY GenesisFacts DEF Upto
<1>. QED  BY <1>1, GenesisFacts DEF WasAt, Origin

\* Most is the largest, where there is one.
LEMMA MostIs ==
    ASSUME NEW X \in SUBSET Int, NEW m \in X, \A k \in X : k <= m, NEW default
    PROVE  Most(X, default) = m
<1>1. X # {} /\ \A k \in X : (\A j \in X : j <= k) => k = m
  OBVIOUS
<1>2. (CHOOSE k \in X : \A j \in X : j <= k) = m
  BY <1>1
<1>. QED  BY <1>1, <1>2 DEF Most

\* next_order_index, which rebuild and fork compute anew, is what the head has.
LEMMA NextOrderFollows ==
    ASSUME NEW r, NEW t, NEW s, WasAt(r, t, s), r.floor \in Nat, s.next \in Nat
    PROVE  NextOrder(r.floor, Upto(r.events, t)) = s.next
<1>. DEFINE orders == Consumed(Upto(r.events, t))
            top == Most(orders, -1)
<1>1. orders = r.floor..(s.next - 1) /\ r.floor <= s.next
  BY DEF WasAt
<1>. HIDE DEF orders
<1>3. CASE r.floor = s.next
  <2>1. top = -1
    BY <1>1, <1>3 DEF Most
  <2>2. Most({r.floor, top + 1}, 0) = r.floor
    <3>1. top + 1 = 0
      BY <2>1
    <3>. HIDE DEF top
    <3>2. r.floor \in {r.floor, top + 1} /\ {r.floor, top + 1} \in SUBSET Int
          /\ \A k \in {r.floor, top + 1} : k <= r.floor
      BY <3>1
    <3>. QED  BY <3>2, MostIs
  <2>. QED  BY <1>3, <2>2 DEF NextOrder, orders
<1>4. CASE r.floor # s.next
  <2>1. top = s.next - 1
    <3>1. s.next - 1 \in orders /\ orders \in SUBSET Int /\ \A k \in orders : k <= s.next - 1
      BY <1>1, <1>4
    <3>. QED  BY <3>1, MostIs
  <2>2. Most({r.floor, top + 1}, 0) = s.next
    <3>1. top + 1 = s.next
      BY <2>1
    <3>. HIDE DEF top
    <3>2. s.next \in {r.floor, top + 1} /\ {r.floor, top + 1} \in SUBSET Int
          /\ \A k \in {r.floor, top + 1} : k <= s.next
      BY <1>1, <3>1
    <3>. QED  BY <3>2, MostIs
  <2>. QED  BY <2>2 DEF NextOrder, orders
<1>. QED  BY <1>3, <1>4

-----------------------------------------------------------------------------
\* One run, or one request, changes.

LEMMA SameStream ==
    ASSUME NEW S, NEW n, Stream(S, n), world' = world
    PROVE  Stream(S, n)'
<1>1. ASSUME NEW s, NEW t
      PROVE  Successor(s, t)' = Successor(s, t)
  BY DEF Successor, TickEvents
<1>. QED  BY <1>1 DEF Stream

LEMMA RunChanges ==
    ASSUME LineageInv, StreamInv, NEW n \in 0..MaxTick, NEW S, Streams(S, n), NEW r \in DOMAIN run,
           NEW d, run' = [run EXCEPT ![r] = d], ask' = ask, world' = world,
           d.kind = run[r].kind, d.command = run[r].command, StreamOf(d, S, n)
    PROVE  StreamInv'
<1>1. /\ DOMAIN run' = DOMAIN run /\ run'[r] = d
      /\ \A x \in DOMAIN run : x # r => run'[x] = run[x]
  BY DEF LineageInv
<1>2. \A x \in DOMAIN run' : StreamOf(run'[x], S, n)
  BY <1>1 DEF Streams
<1>3. Streams(S, n)'
  <2>1. (\A x \in DOMAIN run : StreamOf(run[x], S, n))'
    BY <1>2
  <2>2. (\A c \in Slots : ask[c].pc = "write" => StreamOf(ask[c].child, S, n))'
    BY DEF Streams
  <2>. QED  BY <2>1, <2>2, SameStream DEF Streams
<1>4. \A x \in DOMAIN run' : run'[x].kind = run[x].kind /\ run'[x].command = run[x].command
  BY <1>1
<1>5. \A x \in ForkRuns' : x = run'[x].command
  BY <1>1, <1>4 DEF StreamInv, ForkRuns
<1>. QED  BY <1>3, <1>5 DEF StreamInv

LEMMA RequestChanges ==
    ASSUME LineageInv, StreamInv, NEW n \in 0..MaxTick, NEW S, Streams(S, n), NEW c \in Slots,
           NEW a, ask' = [ask EXCEPT ![c] = a], run' = run, world' = world,
           a.pc = "write" => StreamOf(a.child, S, n)
    PROVE  StreamInv'
<1>1. ask'[c] = a /\ \A x \in Slots : x # c => ask'[x] = ask[x]
  BY DEF LineageInv
<1>2. \A x \in Slots : ask'[x].pc = "write" => StreamOf(ask'[x].child, S, n)
  BY <1>1 DEF Streams
<1>3. Streams(S, n)'
  <2>1. (\A x \in DOMAIN run : StreamOf(run[x], S, n))'
    BY DEF Streams
  <2>2. (\A x \in Slots : ask[x].pc = "write" => StreamOf(ask[x].child, S, n))'
    BY <1>2
  <2>. QED  BY <2>1, <2>2, SameStream DEF Streams
<1>4. \A x \in ForkRuns' : x = run'[x].command
  BY DEF StreamInv, ForkRuns
<1>5. (\E m, Z : m \in 0..MaxTick /\ Streams(Z, m))'
  BY <1>3
<1>. QED  BY <1>4, <1>5 DEF StreamInv

\* A root is a world: ids of forks are records.
LEMMA RootsAreWorlds ==
    ASSUME Seeded, StreamInv, NEW n, NEW S, Streams(S, n), NEW r \in Roots, r \in DOMAIN run
    PROVE  run[r].kind = "world"
<1>1. StreamOf(run[r], S, n)
  BY DEF Streams
<1>2. CASE run[r].kind = "fork"
  <2>1. r = run[r].command /\ run[r].command = [k \in DOMAIN run[r].command |-> run[r].command[k]]
    BY <1>1, <1>2 DEF StreamInv, ForkRuns, StreamOf
  <2>. QED  BY <2>1 DEF Seeded, Atomic
<1>. QED  BY <1>1, <1>2 DEF StreamOf

LEMMA InsertRunStream ==
    ASSUME Seeded, LineageInv, StreamInv, NEW r \in Roots, InsertRun(r)
    PROVE  StreamInv'
<1>1. r \notin DOMAIN run /\ run' = With(run, r, NewRun) /\ ask' = ask /\ world' = world
  BY DEF InsertRun
<1>2. /\ DOMAIN run' = DOMAIN run \cup {r} /\ run'[r] = NewRun
      /\ \A x \in DOMAIN run : run'[x] = run[x]
  BY <1>1 DEF With
<1>3. PICK n, S : n \in 0..MaxTick /\ Streams(S, n)
  BY DEF StreamInv
<1>4. StreamOf(NewRun, S, n)
  <2>1. /\ NewRun.kind = "world" /\ NewRun.genesis = 0 /\ NewRun.lineage = Seed
        /\ NewRun.floor = 0 /\ NewRun.anchors = {} /\ NewRun.tick = 0
        /\ NewRun.next = Len(Spawned) /\ NewRun.hash = GenesisHash /\ NewRun.events = {}
        /\ NewRun.entities = <<>> /\ NewRun.frames = <<>>
    BY DEF NewRun
  <2>2. Spawned[1] \in Entities
    BY LineageAssumption DEF Seeded, Entities
  <2>3. DOMAIN NewRun.frames = {} /\ ~Complete(NewRun)
    BY <2>1, <2>2 DEF Complete
  <2>. QED  BY <2>1, <2>3 DEF StreamOf, Unfinished
<1>5. Streams(S, n)'
  <2>1. (\A x \in DOMAIN run : StreamOf(run[x], S, n))'
    BY <1>2, <1>3, <1>4 DEF Streams
  <2>2. (\A c \in Slots : ask[c].pc = "write" => StreamOf(ask[c].child, S, n))'
    BY <1>1, <1>3 DEF Streams
  <2>. QED  BY <1>1, <1>3, <2>1, <2>2, SameStream DEF Streams
<1>6. (\A x \in ForkRuns : x = run[x].command)'
  <2>1. NewRun.kind # "fork"
    BY DEF NewRun
  <2>. QED  BY <1>2, <2>1 DEF StreamInv, ForkRuns
<1>7. (\E m, Z : m \in 0..MaxTick /\ Streams(Z, m))'
  BY <1>3, <1>5
<1>. QED  BY <1>1, <1>6, <1>7 DEF StreamInv

LEMMA InsertEventsStream ==
    ASSUME Seeded, LineageInv, StreamInv, NEW r \in Roots, InsertEvents(r)
    PROVE  StreamInv'
<1>1. PICK k \in DOMAIN Spawned :
        /\ run[r].events \subseteq Spawns(k) /\ run[r].events # Spawns(k)
        /\ run' = [run EXCEPT ![r].events = Spawns(k)]
  BY DEF InsertEvents
<1>. DEFINE p == run[r]
            d == [p EXCEPT !.events = Spawns(k)]
<1>2. r \in DOMAIN run /\ run' = [run EXCEPT ![r] = d] /\ ask' = ask /\ world' = world
  BY <1>1 DEF InsertEvents
<1>3. IsRun(p)
  BY <1>2 DEF LineageInv, RunInv
<1>4. /\ d.kind = p.kind /\ d.command = p.command /\ d.genesis = p.genesis
      /\ d.lineage = p.lineage /\ d.floor = p.floor /\ d.anchors = p.anchors /\ d.tick = p.tick
      /\ d.next = p.next /\ d.hash = p.hash /\ d.events = Spawns(k)
      /\ d.entities = p.entities /\ d.frames = p.frames
  BY <1>3 DEF IsRun
<1>. HIDE DEF d
<1>5. PICK n, S : n \in 0..MaxTick /\ Streams(S, n)
  BY DEF StreamInv
<1>6. p.kind = "world" /\ StreamOf(p, S, n)
  BY <1>2, <1>5, RootsAreWorlds DEF Streams
<1>7. Spawns(k) \subseteq Genesis
  BY GenesisFacts
<1>8. ~Complete(p)
  BY <1>1, <1>6, <1>7 DEF StreamOf
<1>9. StreamOf(d, S, n)
  BY <1>4, <1>6, <1>7, <1>8 DEF StreamOf, Unfinished, Complete
<1>. QED  BY <1>2, <1>4, <1>5, <1>9, RunChanges

LEMMA InsertEntitiesStream ==
    ASSUME Seeded, LineageInv, StreamInv, NEW r \in Roots, InsertEntities(r)
    PROVE  StreamInv'
<1>1. PICK k \in DOMAIN Spawned :
        LET part == {Spawned[i] : i \in 1..k} IN
        /\ DOMAIN run[r].entities \subseteq part /\ DOMAIN run[r].entities # part
        /\ run' = [run EXCEPT ![r].entities = [e \in part |-> Reconstruct(Genesis)[e]]]
  BY DEF InsertEntities
<1>. DEFINE p == run[r]
            part == {Spawned[i] : i \in 1..k}
            d == [p EXCEPT !.entities = [e \in part |-> Reconstruct(Genesis)[e]]]
<1>2. /\ r \in DOMAIN run /\ run' = [run EXCEPT ![r] = d] /\ ask' = ask /\ world' = world
      /\ Genesis \subseteq p.events
  BY <1>1 DEF InsertEntities
<1>3. IsRun(p)
  BY <1>2 DEF LineageInv, RunInv
<1>4. /\ d.kind = p.kind /\ d.command = p.command /\ d.genesis = p.genesis
      /\ d.lineage = p.lineage /\ d.floor = p.floor /\ d.anchors = p.anchors /\ d.tick = p.tick
      /\ d.next = p.next /\ d.hash = p.hash /\ d.events = p.events
      /\ d.entities = [e \in part |-> Reconstruct(Genesis)[e]] /\ d.frames = p.frames
  BY <1>3 DEF IsRun
<1>. HIDE DEF d
<1>5. PICK n, S : n \in 0..MaxTick /\ Streams(S, n)
  BY DEF StreamInv
<1>6. p.kind = "world" /\ StreamOf(p, S, n)
  BY <1>2, <1>5, RootsAreWorlds DEF Streams
<1>7. ~Complete(p)
  <2>1. DOMAIN Spawned = 1..Len(Spawned) /\ Len(Spawned) \in Nat
    BY LineageAssumption
  <2>2. part \subseteq Entities
    BY <2>1 DEF Entities
  <2>. QED  BY <1>1, <2>2 DEF Complete
<1>8. Unfinished(p) /\ p.events = Genesis
  BY <1>2, <1>6, <1>7 DEF StreamOf, Unfinished
<1>9. ASSUME Complete(d)
      PROVE  d.tick <= n /\ Follows(d, S)
  <2>1. d.entities = Reconstruct(Genesis)
    <3>1. part = Entities
      BY <1>4, <1>9 DEF Complete
    <3>2. Reconstruct(Genesis) = [e \in Entities |-> Reconstruct(Genesis)[e]]
      BY AllOfGenesis DEF Reconstruct
    <3>. QED  BY <1>4, <3>1, <3>2
  <2>2. S[0] = Origin /\ n \in Nat
    BY <1>5 DEF Streams, Stream
  <2>3. /\ d.genesis = 0 /\ d.tick = 0 /\ d.floor = 0 /\ d.next = Len(Spawned)
        /\ d.hash = HashOf(d.lineage, 0, Reconstruct(Genesis)) /\ DOMAIN d.frames = {}
        /\ d.events = Genesis
    BY <1>4, <1>6, <1>8 DEF StreamOf, Unfinished, GenesisHash
  <2>4. WasAt(d, 0, S[0])
    BY <2>2, <2>3, GenesisWas
  <2>5. \A ev \in d.events : ev.tick \in 0..0
    BY <2>3, GenesisFacts
  <2>. QED  BY <2>1, <2>2, <2>3, <2>4, <2>5 DEF Follows, Origin
<1>10. StreamOf(d, S, n)
  BY <1>4, <1>6, <1>8, <1>9 DEF StreamOf, Unfinished
<1>. QED  BY <1>2, <1>4, <1>5, <1>10, RunChanges

LEMMA InsertFrameStream ==
    ASSUME Seeded, LineageInv, StreamInv, NEW r \in Roots, InsertFrame(r)
    PROVE  StreamInv'
<1>. DEFINE p == run[r]
            d == [p EXCEPT !.frames = With(@, 0, GenesisHash)]
<1>1. /\ r \in DOMAIN run /\ run' = [run EXCEPT ![r] = d] /\ ask' = ask /\ world' = world
      /\ Complete(p)
  BY DEF InsertFrame, Complete
<1>2. IsRun(p)
  BY <1>1 DEF LineageInv, RunInv
<1>3. /\ d.kind = p.kind /\ d.command = p.command /\ d.genesis = p.genesis
      /\ d.lineage = p.lineage /\ d.floor = p.floor /\ d.anchors = p.anchors /\ d.tick = p.tick
      /\ d.next = p.next /\ d.hash = p.hash /\ d.events = p.events
      /\ d.entities = p.entities /\ d.frames = With(p.frames, 0, GenesisHash)
  BY <1>2 DEF IsRun
<1>. HIDE DEF d
<1>4. PICK n, S : n \in 0..MaxTick /\ Streams(S, n)
  BY DEF StreamInv
<1>5. p.kind = "world" /\ StreamOf(p, S, n)
  BY <1>1, <1>4, RootsAreWorlds DEF Streams
<1>6. Follows(p, S) /\ p.tick <= n /\ p.genesis = 0 /\ p.lineage = Seed
  BY <1>1, <1>5 DEF StreamOf
<1>7. /\ DOMAIN d.frames = DOMAIN p.frames \cup {0} /\ d.frames[0] = GenesisHash
      /\ \A t \in DOMAIN p.frames : t # 0 => d.frames[t] = p.frames[t]
  BY <1>3 DEF With
<1>8. GenesisHash = HashOf(Seed, 0, S[0].view)
  BY <1>4 DEF Streams, Stream, Origin, GenesisHash
<1>9. \A t \in p.genesis..p.tick : WasAt(d, t, S[t])
  BY <1>3, <1>6 DEF Follows, WasAt
<1>10. /\ DOMAIN d.frames \subseteq p.genesis..p.tick
       /\ (p.genesis + 1)..p.tick \subseteq DOMAIN d.frames
       /\ \A t \in DOMAIN d.frames : d.frames[t] = HashOf(p.lineage, t, S[t].view)
  BY <1>6, <1>7, <1>8 DEF Follows
<1>11. Follows(d, S)
  BY <1>3, <1>6, <1>9, <1>10 DEF Follows
<1>12. StreamOf(d, S, n)
  BY <1>1, <1>3, <1>5, <1>6, <1>11 DEF StreamOf, Complete
<1>. QED  BY <1>1, <1>3, <1>4, <1>12, RunChanges

LEMMA StepRunStream ==
    ASSUME Seeded, LineageInv, StreamInv, NEW r \in DOMAIN run, StepRun(r)
    PROVE  StreamInv'
<1>. DEFINE p == run[r]
            d == Stepped(p)
            t == p.tick + 1
<1>1. run' = [run EXCEPT ![r] = d] /\ ask' = ask /\ world' = world /\ p.tick < MaxTick
  BY DEF StepRun
<1>2. RunInv(p) /\ IsRun(p)
  BY DEF LineageInv, RunInv
<1>3. Complete(p)
  <2>1. HashOf(p.lineage, p.tick, p.entities) = p.hash
    BY DEF StepRun, Inspects
  <2>2. p.hash.entities = p.entities
    BY <2>1 DEF HashOf
  <2>. QED  BY <1>2, <2>2 DEF RunInv, HashInv, Complete
<1>4. PICK n, S : n \in 0..MaxTick /\ Streams(S, n) /\ p.tick < n
  BY <1>1, <1>3, StreamReaches
<1>5. StreamOf(p, S, n) /\ Stream(S, n)
  BY <1>4 DEF Streams
<1>6. Follows(p, S)
  BY <1>3, <1>5 DEF StreamOf
<1>. PICK s : s = S[p.tick]
  OBVIOUS
<1>7. /\ t \in 1..MaxTick /\ t \in 1..n /\ t \in Nat /\ t - 1 = p.tick
      /\ p.tick \in 0..n /\ p.tick \in Nat /\ p.genesis \in Nat /\ p.genesis <= p.tick
  BY <1>1, <1>4, <1>6, LineageAssumption DEF Follows
<1>8. s.next \in Nat /\ DOMAIN s.view = Entities /\ S[t] = Successor(s, t)
  BY <1>5, <1>7 DEF Stream
<1>. DEFINE new == TickEvents(t, p.next)
            view == Touched(p.entities, new)
            hash == HashOf(p.lineage, t, view)
<1>9. d = [p EXCEPT !.tick = t, !.next = p.next + Len(world[t]), !.hash = hash,
                    !.events = p.events \cup new, !.entities = view,
                    !.frames = With(p.frames, t, hash)]
  BY DEF Stepped, Touched
<1>. HIDE DEF t, new, view, hash, d
<1>10. /\ d.kind = p.kind /\ d.command = p.command /\ d.genesis = p.genesis
       /\ d.lineage = p.lineage /\ d.floor = p.floor /\ d.anchors = p.anchors /\ d.tick = t
       /\ d.next = p.next + Len(world[t]) /\ d.hash = hash /\ d.events = p.events \cup new
       /\ d.entities = view /\ d.frames = With(p.frames, t, hash)
  BY <1>2, <1>9 DEF IsRun
<1>11. p.next = s.next /\ p.entities = s.view /\ new = TickEvents(t, s.next)
  BY <1>6 DEF Follows, new
<1>12. /\ view = S[t].view /\ d.next = S[t].next /\ hash = HashOf(p.lineage, t, S[t].view)
       /\ DOMAIN view = Entities
  BY <1>7, <1>8, <1>10, <1>11, SuccessorType DEF StreamInv, view, hash
<1>13. \A ev \in new : ev.tick = t
  BY <1>7, <1>8, <1>11, TickEventsFacts DEF StreamInv
<1>14. \A ev \in p.events : ev.tick \in p.genesis..p.tick
  BY <1>6 DEF Follows
<1>15. WasAt(d, t, S[t])
  <2>1. WasAt(p, t - 1, s) /\ p.floor \in Nat
    BY <1>6, <1>7 DEF Follows
  <2>2. \A ev \in p.events : ev.tick \in 0..(t - 1)
    BY <1>7, <1>14
  <2>. QED  BY <1>7, <1>8, <1>10, <1>11, <2>1, <2>2, WasAtNext DEF StreamInv
<1>16. ASSUME NEW u \in p.genesis..p.tick
       PROVE  WasAt(d, u, S[u])
  <2>1. WasAt(p, u, S[u])
    BY <1>6 DEF Follows
  <2>2. Upto(d.events, u) = Upto(p.events, u)
    <3>1. ~(t <= u)
      BY <1>7
    <3>. QED  BY <1>10, <1>13, <3>1 DEF Upto
  <2>. QED  BY <1>10, <2>1, <2>2 DEF WasAt
<1>17. \A u \in p.genesis..t : WasAt(d, u, S[u])
  BY <1>7, <1>15, <1>16
<1>18. /\ DOMAIN d.frames = DOMAIN p.frames \cup {t} /\ d.frames[t] = hash
       /\ \A u \in DOMAIN p.frames : u # t => d.frames[u] = p.frames[u]
  BY <1>10 DEF With
<1>19. /\ DOMAIN d.frames \subseteq p.genesis..t
       /\ (p.genesis + 1)..t \subseteq DOMAIN d.frames
       /\ \A u \in DOMAIN d.frames : d.frames[u] = HashOf(p.lineage, u, S[u].view)
  BY <1>6, <1>7, <1>12, <1>18 DEF Follows
<1>20. \A ev \in d.events : ev.tick \in p.genesis..t
  BY <1>7, <1>10, <1>13, <1>14
<1>21. Follows(d, S)
  BY <1>6, <1>7, <1>10, <1>12, <1>17, <1>19, <1>20 DEF Follows
<1>22. StreamOf(d, S, n)
  <2>1. Complete(d) /\ t <= n
    BY <1>7, <1>10, <1>12 DEF Complete
  <2>. QED  BY <1>3, <1>5, <1>10, <1>21, <2>1 DEF StreamOf
<1>. QED  BY <1>1, <1>4, <1>10, <1>22, RunChanges

\* The child of a complete run goes on with the stream from the tick it is of.
LEMMA ChildFollows ==
    ASSUME Seeded, LineageInv, StreamInv, NEW n \in 0..MaxTick, NEW S, Streams(S, n),
           NEW q, q.parent \in DOMAIN run, ~OutOfRange(q), ~Broken(q)
    PROVE  StreamOf(Child(q), S, n)
<1>. DEFINE p == run[q.parent]
            evts == Upto(p.events, q.tick)
            held == Reconstruct(evts)
            child == Child(q)
<1>1. /\ q.tick \in p.genesis..p.tick /\ q.tick \in DOMAIN p.frames /\ evts # {}
      /\ HashOf(p.lineage, q.tick, held) = p.frames[q.tick]
      /\ Referenced(q) \subseteq Anchorable(q)
  BY DEF OutOfRange, Broken
<1>2. Complete(p)
  BY <1>1 DEF LineageInv, RunInv, HashInv
<1>3. Follows(p, S) /\ p.tick <= n
  BY <1>2 DEF Streams, StreamOf
<1>. PICK s : s = S[q.tick]
  OBVIOUS
<1>4. /\ q.tick \in Nat /\ q.tick <= n /\ q.tick \in 0..n /\ p.floor \in Nat
      /\ \A ev \in p.events : ev.tick \in Nat
  BY <1>1, <1>3 DEF Follows
<1>5. s.next \in Nat /\ DOMAIN s.view = Entities
  BY <1>4 DEF Streams, Stream
<1>6. WasAt(p, q.tick, s)
  BY <1>1, <1>3 DEF Follows
<1>7. held = s.view /\ \A ev \in evts : ev.order \in 0..(s.next - 1)
  BY <1>6 DEF WasAt
<1>8. held = [e \in Entities |-> held[e]]
  <2>1. DOMAIN held = Entities
    BY <1>5, <1>7
  <2>. QED  BY <2>1 DEF Reconstruct
<1>9. BoundaryOrder(q) \in 0..(s.next - 1)
  <2>1. \A ev \in evts : ev.tick \in 0..q.tick /\ ev.order \in 0..s.next
    BY <1>4, <1>5, <1>7 DEF Upto
  <2>2. Last(evts) \in evts
    BY <1>1, <1>4, <1>5, <2>1, LastExists
  <2>. QED  BY <1>7, <2>2 DEF BoundaryOrder
<1>10. NextOrder(p.floor, evts) = s.next
  BY <1>4, <1>5, <1>6, NextOrderFollows
<1>11. \A e \in Entities : held[e] \in Anchors(q)
  BY <1>1, <1>8 DEF Anchors, Referenced
<1>. DEFINE id == Identity(q)
            root == Event(q.tick, BoundaryOrder(q), Entities, id, held)
            hash == HashOf(id, q.tick, held)
<1>12. id # None
  <2>1. id = [k \in DOMAIN id |-> id[k]]
    BY DEF Identity
  <2>. QED  BY <2>1 DEF Seeded, Atomic
<1>. HIDE DEF id, held, evts
<1>13. /\ root.tick = q.tick /\ root.order = BoundaryOrder(q) /\ root.touched = Entities
       /\ root.fork = id /\ root.held = held
  BY DEF Event
<1>. HIDE DEF root, hash
<1>14. /\ child.kind = "fork" /\ child.genesis = q.tick /\ child.tick = q.tick
       /\ child.floor = s.next /\ child.next = s.next /\ child.lineage = id
       /\ child.command = Command(q) /\ child.anchors = Anchors(q) /\ child.hash = hash
       /\ child.events = {root} /\ child.entities = held
       /\ child.frames = [t \in {q.tick} |-> hash]
  BY <1>10 DEF Child, id, held, evts, root, hash
<1>. HIDE DEF child
<1>15. Reconstruct({root}) = held
  <2>1. UNION {ev.touched : ev \in {root}} = Entities
    BY <1>13
  <2>2. ASSUME NEW e \in Entities
        PROVE  {ev \in {root} : e \in ev.touched} = {root}
    BY <1>13
  <2>3. Last({root}) = root
    BY DEF Last
  <2>4. Reconstruct({root}) = [e \in Entities |-> held[e]]
    BY <1>12, <1>13, <2>1, <2>2, <2>3 DEF Reconstruct
  <2>. QED  BY <1>8, <2>4
<1>16. WasAt(child, q.tick, s)
  <2>1. Upto(child.events, q.tick) = {root}
    BY <1>4, <1>13, <1>14 DEF Upto
  <2>2. Consumed({root}) = s.next..(s.next - 1)
    <3>1. Consumed({root}) = {}
      BY <1>12, <1>13 DEF Consumed
    <3>2. \A x : x \notin s.next..(s.next - 1)
      BY <1>5
    <3>. QED  BY <3>1, <3>2
  <2>3. \A ev \in {root} : ev.order \in 0..(s.next - 1)
    BY <1>9, <1>13
  <2>4. Reconstruct({root}) = s.view
    BY <1>7, <1>15
  <2>5. child.floor <= s.next /\ Consumed({root}) = child.floor..(s.next - 1)
    <3>1. child.floor = s.next
      BY <1>14
    <3>2. s.next <= s.next
      BY <1>5
    <3>. QED  BY <2>2, <3>1, <3>2, Zenon
  <2>6. \A e \in Entities : s.view[e] \in Ids({root}) \cup child.anchors
    BY <1>7, <1>11, <1>14
  <2>. QED  BY <2>1, <2>3, <2>4, <2>5, <2>6 DEF WasAt
<1>17. Follows(child, S)
  <2>1. q.tick..q.tick = {q.tick} /\ (q.tick + 1)..q.tick = {}
    BY <1>4
  <2>2. /\ DOMAIN child.frames = {q.tick} /\ child.frames[q.tick] = hash
        /\ hash = HashOf(child.lineage, q.tick, s.view)
    BY <1>7, <1>14 DEF hash
  <2>3. \A ev \in child.events : ev.tick \in q.tick..q.tick
    BY <1>13, <1>14, <2>1
  <2>. QED  BY <1>4, <1>5, <1>7, <1>14, <1>16, <2>1, <2>2, <2>3 DEF Follows
<1>18. Complete(child) /\ child.command = [k \in DOMAIN child.command |-> child.command[k]]
  <2>1. DOMAIN held = Entities
    BY <1>5, <1>7
  <2>. QED  BY <1>14, <2>1 DEF Complete, Command
<1>. QED  BY <1>4, <1>14, <1>17, <1>18 DEF StreamOf, child

LEMMA LookedStream ==
    ASSUME Seeded, LineageInv, StreamInv, NEW n \in 0..MaxTick, NEW S, Streams(S, n),
           NEW q, q.parent \in DOMAIN run, NEW again, Looked(q, again).pc = "write"
    PROVE  StreamOf(Looked(q, again).child, S, n)
<1>1. CASE OutOfRange(q) \/ Broken(q) \/ Unexpected(q)
  BY <1>1 DEF Looked, Idle
<1>2. CASE ~(OutOfRange(q) \/ Broken(q) \/ Unexpected(q)) /\ Alike(Child(q)) # {}
  BY <1>2 DEF Looked, Existing, Answered, Idle
<1>3. CASE ~(OutOfRange(q) \/ Broken(q) \/ Unexpected(q)) /\ Alike(Child(q)) = {}
  <2>1. Looked(q, again).child = Child(q)
    BY <1>3 DEF Looked
  <2>. QED  BY <1>3, <2>1, ChildFollows
<1>. QED  BY <1>1, <1>2, <1>3

LEMMA RequestStream ==
    ASSUME Seeded, LineageInv, StreamInv, NEW c \in Slots,
           Ask(c) \/ MeetDuplicate(c) \/ LookAgain(c) \/ Fail(c)
    PROVE  StreamInv'
<1>1. PICK n, S : n \in 0..MaxTick /\ Streams(S, n)
  BY DEF StreamInv
<1>2. run' = run /\ world' = world
  BY DEF Ask, MeetDuplicate, LookAgain, Fail
<1>3. CASE Ask(c)
  <2>. PICK r \in DOMAIN run : \E q \in Requests(r) : ask' = [ask EXCEPT ![c] = Looked(q, FALSE)]
    BY <1>3 DEF Ask
  <2>1. PICK q \in Requests(r) : ask' = [ask EXCEPT ![c] = Looked(q, FALSE)]
    OBVIOUS
  <2>2. q.parent \in DOMAIN run
    BY DEF Requests
  <2>. QED  BY <1>1, <1>2, <2>1, <2>2, LookedStream, RequestChanges
<1>4. CASE MeetDuplicate(c)
  <2>1. ask' = [ask EXCEPT ![c] = [pc |-> "again", q |-> ask[c].q]]
    BY <1>4 DEF MeetDuplicate
  <2>2. [pc |-> "again", q |-> ask[c].q].pc # "write"
    OBVIOUS
  <2>. QED  BY <1>1, <1>2, <2>1, <2>2, RequestChanges
<1>5. CASE LookAgain(c)
  <2>1. ask' = [ask EXCEPT ![c] = Looked(ask[c].q, TRUE)] /\ ask[c].pc = "again"
    BY <1>5 DEF LookAgain
  <2>2. ask[c].q.parent \in DOMAIN run
    BY <2>1 DEF LineageInv, RequestInv
  <2>. QED  BY <1>1, <1>2, <2>1, <2>2, LookedStream, RequestChanges
<1>6. CASE Fail(c)
  <2>1. Idle.pc # "write"
    BY DEF Idle
  <2>. QED  BY <1>1, <1>2, <1>6, <2>1, RequestChanges DEF Fail
<1>. QED  BY <1>3, <1>4, <1>5, <1>6

LEMMA WriteStream ==
    ASSUME Seeded, LineageInv, StreamInv, NEW c \in Slots, Write(c)
    PROVE  StreamInv'
<1>. PICK child, id, q : child = ask[c].child /\ id = child.command /\ q = ask[c].q
  OBVIOUS
<1>1. /\ ~Taken(child) /\ run' = With(run, id, child) /\ world' = world /\ ask[c].pc = "write"
      /\ ask' \in {[ask EXCEPT ![c] = Answered(q, id)], [ask EXCEPT ![c] = Idle]}
  BY DEF Write
<1>2. id \notin DOMAIN run
  BY <1>1 DEF Taken, Alike
<1>3. PICK n, S : n \in 0..MaxTick /\ Streams(S, n)
  BY DEF StreamInv
<1>4. StreamOf(child, S, n)
  BY <1>1, <1>3 DEF Streams
<1>5. /\ DOMAIN run' = DOMAIN run \cup {id} /\ run'[id] = child
      /\ \A x \in DOMAIN run : run'[x] = run[x]
  BY <1>1, <1>2 DEF With
<1>6. /\ ask'[c] \in {Answered(q, id), Idle}
      /\ \A x \in Slots : x # c => ask'[x] = ask[x]
  BY <1>1 DEF LineageInv
<1>7. ask'[c].pc # "write"
  BY <1>6 DEF Answered, Idle
<1>8. Streams(S, n)'
  <2>1. (\A x \in DOMAIN run : StreamOf(run[x], S, n))'
    BY <1>3, <1>4, <1>5 DEF Streams
  <2>2. \A x \in Slots : ask'[x].pc = "write" => StreamOf(ask'[x].child, S, n)
    BY <1>3, <1>6, <1>7 DEF Streams
  <2>3. (\A x \in Slots : ask[x].pc = "write" => StreamOf(ask[x].child, S, n))'
    BY <2>2
  <2>. QED  BY <1>1, <1>3, <2>1, <2>3, SameStream DEF Streams
<1>9. (\A x \in ForkRuns : x = run[x].command)'
  BY <1>5 DEF StreamInv, ForkRuns
<1>10. (\E m, Z : m \in 0..MaxTick /\ Streams(Z, m))'
  BY <1>3, <1>8
<1>. QED  BY <1>1, <1>9, <1>10 DEF StreamInv

LEMMA InitStream ==
    ASSUME Seeded, Init
    PROVE  StreamInv
<1>1. DOMAIN run = {} /\ world \in Worlds /\ \A c \in Slots : ask[c].pc = "idle"
  BY DEF Init, Idle
<1>2. PICK S : S = [t \in {0} |-> Origin]
  OBVIOUS
<1>3. Stream(S, 0)
  <2>1. S[0] = Origin /\ 0..0 = {0} /\ 1..0 = {}
    BY <1>2
  <2>2. Origin.next \in Nat /\ DOMAIN Origin.view = Entities
    BY GenesisFacts, AllOfGenesis DEF Origin
  <2>. QED  BY <2>1, <2>2 DEF Stream
<1>4. Streams(S, 0) /\ 0 \in 0..MaxTick
  BY <1>1, <1>3, LineageAssumption DEF Streams
<1>. QED  BY <1>1, <1>4 DEF StreamInv, ForkRuns

LEMMA NextStream ==
    ASSUME Seeded, LineageInv, StreamInv, [Next]_vars
    PROVE  StreamInv'
<1>1. CASE UNCHANGED vars
  <2>1. PICK n, S : n \in 0..MaxTick /\ Streams(S, n)
    BY DEF StreamInv
  <2>2. Streams(S, n)'
    BY <1>1, <2>1, SameStream DEF Streams, vars
  <2>3. (\E m, Z : m \in 0..MaxTick /\ Streams(Z, m))'
    BY <2>1, <2>2
  <2>4. (world \in Worlds /\ \A x \in ForkRuns : x = run[x].command)'
    BY <1>1 DEF StreamInv, ForkRuns, vars
  <2>. QED  BY <2>3, <2>4 DEF StreamInv
<1>. QED  BY <1>1, InsertRunStream, InsertEventsStream, InsertEntitiesStream, InsertFrameStream,
             StepRunStream, RequestStream, WriteStream DEF Next

LEMMA StreamInvariance ==
    ASSUME Seeded
    PROVE  Spec => [](LineageInv /\ StreamInv)
<1>1. Init => LineageInv /\ StreamInv
  BY InitLineage, InitStream
<1>2. LineageInv /\ StreamInv /\ [Next]_vars => (LineageInv /\ StreamInv)'
  BY LineageStep, NextStream
<1>. QED  BY <1>1, <1>2, PTL DEF Spec

\* What has been created to the end follows the stream.
LEMMA WholeFollows ==
    ASSUME LineageInv, NEW n, NEW S, Streams(S, n), NEW r \in DOMAIN run, Whole(r)
    PROVE  /\ Complete(run[r]) /\ Follows(run[r], S) /\ run[r].tick <= n
           /\ run[r].genesis..run[r].tick \subseteq DOMAIN run[r].frames
<1>1. run[r].genesis \in DOMAIN run[r].frames
  BY DEF Whole
<1>2. Complete(run[r])
  BY <1>1 DEF LineageInv, RunInv, HashInv
<1>3. Follows(run[r], S) /\ run[r].tick <= n
  BY <1>2 DEF Streams, StreamOf
<1>4. ASSUME NEW t \in run[r].genesis..run[r].tick
      PROVE  t \in DOMAIN run[r].frames
  <2>1. run[r].genesis \in Nat /\ run[r].tick \in Nat
    BY <1>3 DEF Follows
  <2>2. t = run[r].genesis \/ t \in (run[r].genesis + 1)..run[r].tick
    BY <2>1
  <2>. QED  BY <1>1, <1>3, <2>2 DEF Follows
<1>. QED  BY <1>2, <1>3, <1>4

\* Exact continuation: whatever was forked of what, at which tick and however far ahead
\* either was, the runs of a seed agree on every tick they share and go on alike.
THEOREM ContinuationCorrect ==
    ASSUME Seeded
    PROVE  Spec => []ExactContinuation
<1>1. LineageInv /\ StreamInv => ExactContinuation
  <2>. SUFFICES ASSUME LineageInv, StreamInv, NEW a \in DOMAIN run, NEW b \in DOMAIN run,
                       Whole(a), Whole(b)
                PROVE  /\ \A t \in (run[a].genesis..run[a].tick)
                                    \cap (run[b].genesis..run[b].tick) :
                             ViewAt(a, t) = ViewAt(b, t)
                       /\ run[a].tick = run[b].tick => run[a].next = run[b].next
    BY DEF ExactContinuation
  <2>1. PICK n, S : n \in 0..MaxTick /\ Streams(S, n)
    BY DEF StreamInv
  <2>2. Follows(run[a], S) /\ Follows(run[b], S)
    BY <2>1, WholeFollows
  <2>. QED  BY <2>2 DEF Follows, WasAt, ViewAt
<1>. QED  BY <1>1, StreamInvariance, PTL

\* A run created to the end is stepped and forked at every tick without complaint: the
\* inspection passes, and every cause an entity refers to is its own or anchored.
THEOREM UsableCorrect ==
    ASSUME Seeded
    PROVE  Spec => []WholeRunsUsable
<1>1. LineageInv /\ StreamInv => WholeRunsUsable
  <2>. SUFFICES ASSUME LineageInv, StreamInv, NEW r \in DOMAIN run, Whole(r)
                PROVE  /\ Inspects(run[r]) /\ CausesKnown(run[r])
                       /\ \A t \in run[r].genesis..run[r].tick :
                            ~Broken([parent |-> r, tick |-> t, branch |-> "any", expected |-> None])
    BY DEF WholeRunsUsable
  <2>. DEFINE p == run[r]
  <2>1. PICK n, S : n \in 0..MaxTick /\ Streams(S, n)
    BY DEF StreamInv
  <2>2. /\ Complete(p) /\ Follows(p, S) /\ p.genesis..p.tick \subseteq DOMAIN p.frames
        /\ p.tick <= n /\ n \in Nat
    BY <2>1, WholeFollows
  <2>3. /\ p.tick \in Nat /\ p.genesis \in Nat /\ p.tick \in p.genesis..p.tick
        /\ DOMAIN p.frames \subseteq p.genesis..p.tick
    BY <2>2 DEF Follows
  <2>4. \A t \in p.genesis..p.tick : S[t].next \in Nat /\ DOMAIN S[t].view = Entities
    <3>1. \A t \in p.genesis..p.tick : t \in 0..n
      BY <2>2, <2>3
    <3>. QED  BY <2>1, <3>1 DEF Streams, Stream
  <2>5. Upto(p.events, p.tick) = p.events
    BY <2>2, <2>3 DEF Follows, Upto
  <2>6. WasAt(p, p.tick, S[p.tick])
    BY <2>2, <2>3 DEF Follows
  <2>7. Inspects(p)
    <3>1. Most(DOMAIN p.frames, 0) = p.tick /\ DOMAIN p.frames # {}
      BY <2>2, <2>3, MostIs
    <3>2. p.frames[p.tick] = p.hash
      BY <2>2, <2>3 DEF Follows
    <3>3. \A ev \in p.events : ev.order < p.next
      <4>1. p.next = S[p.tick].next /\ S[p.tick].next \in Nat
        BY <2>2, <2>3, <2>4 DEF Follows
      <4>2. \A ev \in p.events : ev.order \in 0..(S[p.tick].next - 1)
        BY <2>5, <2>6 DEF WasAt
      <4>. QED  BY <4>1, <4>2
    <3>4. HashOf(p.lineage, p.tick, p.entities) = p.hash
      BY <2>2 DEF Follows
    <3>. QED  BY <3>1, <3>2, <3>3, <3>4 DEF Inspects
  <2>8. CausesKnown(p)
    <3>1. p.entities = S[p.tick].view
      BY <2>2 DEF Follows
    <3>. QED  BY <2>2, <2>5, <2>6, <3>1 DEF CausesKnown, WasAt, Complete
  <2>9. ASSUME NEW t \in p.genesis..p.tick
        PROVE  ~Broken([parent |-> r, tick |-> t, branch |-> "any", expected |-> None])
    <3>. PICK q : q = [parent |-> r, tick |-> t, branch |-> "any", expected |-> None]
      OBVIOUS
    <3>1. q.parent = r /\ q.tick = t
      OBVIOUS
    <3>. DEFINE evts == Upto(p.events, t)
                held == Reconstruct(evts)
    <3>2. /\ WasAt(p, t, S[t]) /\ t \in DOMAIN p.frames
          /\ p.frames[t] = HashOf(p.lineage, t, S[t].view)
      BY <2>2 DEF Follows
    <3>3. evts # {} /\ held = S[t].view /\ \A e \in Entities : held[e] \in Ids(evts) \cup p.anchors
      BY <3>2 DEF WasAt
    <3>4. BoundaryId(q) \in Ids(evts) \cup {None}
      <4>1. \A ev \in evts : ev.tick \in 0..t /\ ev.order \in 0..S[t].next
        <5>1. \A ev \in evts : ev.tick \in Nat /\ ev.tick <= t
          BY <2>2, <2>3 DEF Follows, Upto
        <5>2. \A ev \in evts : ev.order \in 0..(S[t].next - 1)
          BY <3>2 DEF WasAt
        <5>. QED  BY <2>3, <2>4, <5>1, <5>2
      <4>2. AtBoundary(q) \subseteq evts
        <5>1. AtBoundary(q) = {ev \in p.events : ev.tick = t}
          BY <3>1 DEF AtBoundary
        <5>. QED  BY <2>3, <5>1 DEF Upto
      <4>3. t \in Nat /\ S[t].next \in Nat
        BY <2>3, <2>4
      <4>4. AtBoundary(q) # {} => Last(AtBoundary(q)) \in AtBoundary(q)
        <5>. HIDE DEF evts
        <5>. QED  BY <4>1, <4>2, <4>3, LastExists
      <4>. HIDE DEF evts
      <4>. QED  BY <4>2, <4>4 DEF BoundaryId, Ids
    <3>5. Referenced(q) \subseteq Anchorable(q)
      <4>1. DOMAIN held = Entities
        BY <2>4, <3>3
      <4>2. Referenced(q) = {held[e] : e \in DOMAIN held} \cup ({BoundaryId(q)} \ {None})
        BY <3>1 DEF Referenced
      <4>3. Anchorable(q) = Ids(evts) \cup p.anchors
        BY <3>1 DEF Anchorable
      <4>. HIDE DEF evts, held
      <4>. QED  BY <3>3, <3>4, <4>1, <4>2, <4>3
    <3>. QED  BY <3>1, <3>2, <3>3, <3>5 DEF Broken
  <2>. QED  BY <2>7, <2>8, <2>9
<1>. QED  BY <1>1, StreamInvariance, PTL

\* rebuild_run_projections, which computes entities, tick, hash and order index anew,
\* finds what is stored, also of a fork that has no event of its own.
THEOREM RebuildCorrect ==
    ASSUME Seeded
    PROVE  Spec => []RebuildChangesNothing
<1>1. LineageInv /\ StreamInv => RebuildChangesNothing
  <2>. SUFFICES ASSUME LineageInv, StreamInv, NEW r \in DOMAIN run, Whole(r)
                PROVE  Rebuilt(run[r]) = run[r]
    BY DEF RebuildChangesNothing
  <2>. DEFINE p == run[r]
  <2>1. PICK n, S : n \in 0..MaxTick /\ Streams(S, n)
    BY DEF StreamInv
  <2>2. /\ Complete(p) /\ Follows(p, S) /\ p.genesis..p.tick \subseteq DOMAIN p.frames
        /\ p.tick <= n /\ n \in Nat
    BY <2>1, WholeFollows
  <2>3. /\ p.tick \in Nat /\ p.genesis \in Nat /\ p.tick \in p.genesis..p.tick
        /\ DOMAIN p.frames \subseteq p.genesis..p.tick /\ p.floor \in Nat
    BY <2>2 DEF Follows
  <2>4. Most(DOMAIN p.frames, 0) = p.tick
    BY <2>2, <2>3, MostIs
  <2>5. Upto(p.events, p.tick) = p.events /\ WasAt(p, p.tick, S[p.tick])
    BY <2>2, <2>3 DEF Follows, Upto
  <2>6. S[p.tick].next \in Nat
    BY <2>1, <2>2, <2>3 DEF Streams, Stream
  <2>7. Reconstruct(p.events) = p.entities /\ p.frames[p.tick] = p.hash
    BY <2>2, <2>3, <2>5 DEF Follows, WasAt
  <2>8. NextOrder(p.floor, p.events) = p.next
    BY <2>2, <2>3, <2>5, <2>6, NextOrderFollows DEF Follows
  <2>9. IsRun(p)
    BY DEF LineageInv, RunInv
  <2>. QED  BY <2>4, <2>7, <2>8, <2>9 DEF Rebuilt, IsRun
<1>. QED  BY <1>1, StreamInvariance, PTL
=============================================================================
