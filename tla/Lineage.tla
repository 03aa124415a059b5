------------------------------ MODULE Lineage ------------------------------
(* The runs of one seed: created by create_run in four separate writes, grown  *)
(* a tick at a time, and forked by transactions that race with both and with   *)
(* each other (core/run_service.py, core/forking.py, the indexes of            *)
(* core/db.py).                                                                *)
(*                                                                             *)
(* A hash is what is hashed (canonical_hash is taken as injective), and so is  *)
(* an id that is derived from one.  An entity is the id of the event that last *)
(* touched it, its last_event_id.  A committed tick is one step: that is what  *)
(* TickStore shows.                                                            *)
EXTENDS Integers, Sequences, FiniteSets

CONSTANTS
    Roots,        \* runs that create_run may create, all of one seed
    Seed,         \* its lineage key
    Slots,        \* fork requests under way at a time
    Branches,     \* branch keys
    Spawned,      \* the entities of the seed, in the order of their genesis
    Worlds,       \* what the seed may make each tick do, as in TickStore
    MaxTick,      \* bound: no frame beyond this tick
    MaxChildren,  \* bound: forks stored
    None

Entities == {Spawned[i] : i \in DOMAIN Spawned}

ASSUME LineageAssumption ==
    /\ Spawned \in Seq(Entities)
    /\ MaxTick \in Nat /\ MaxChildren \in Nat
    /\ Worlds \subseteq [1..MaxTick -> Seq(SUBSET Entities)]

VARIABLES
    world,   \* the world of the seed
    run,     \* every run stored, by its id: its document and what belongs to it
    ask      \* the fork requests

vars == <<world, run, ask>>

-----------------------------------------------------------------------------
\* A document inserted, or overwritten, under its key.
With(docs, key, doc) ==
    [k \in DOMAIN docs \cup {key} |-> IF k = key THEN doc ELSE docs[k]]

\* Events and states.

\* An accepted event.  fork: of which fork it is the genesis; held: the entities
\* such an event carries.
Event(tick, order, touched, fork, held) ==
    [tick |-> tick, order |-> order, touched |-> touched, fork |-> fork, held |-> held]

\* evt-tick-order-content, evt-fork-identity: neither names the run.
Id(ev) == [tick |-> ev.tick, order |-> ev.order, touched |-> ev.touched, fork |-> ev.fork]
Ids(evts) == {Id(ev) : ev \in evts}

Upto(evts, t) == {ev \in evts : ev.tick <= t}

\* The one with which a replay, sorted by time and order, ends.
Last(evts) ==
    CHOOSE ev \in evts : \A other \in evts :
        other.tick < ev.tick \/ (other.tick = ev.tick /\ other.order <= ev.order)

\* Mutant: the genesis of a fork passes for the last event of all it carries.
ReconstructAnew(evts) ==
    [e \in UNION {ev.touched : ev \in evts} |-> Id(Last({other \in evts : e \in other.touched}))]

\* reconstruct_entities.  The genesis of a fork leaves every last_event_id as it was.
Reconstruct(evts) ==
    [e \in UNION {ev.touched : ev \in evts} |->
        LET ev == Last({other \in evts : e \in other.touched})
        IN  IF ev.fork = None THEN Id(ev) ELSE ev.held[e]]

HashOf(lineage, tick, entities) == [lineage |-> lineage, tick |-> tick, entities |-> entities]

\* The largest of some numbers, or the default.
Most(S, default) == IF S = {} THEN default ELSE CHOOSE m \in S : \A n \in S : n <= m

\* The orders of the events that consume one.
Consumed(evts) == {ev.order : ev \in {other \in evts : other.fork = None}}

\* Mutant: what a fork inherits is not a floor.
NextOrderOwn(floor, evts) == Most(Consumed(evts), -1) + 1

\* next_order_index after some events.
NextOrder(floor, evts) == Most({floor, Most(Consumed(evts), -1) + 1}, 0)

-----------------------------------------------------------------------------
\* create_run: document, events, entities and genesis frame, one write after another.

\* The first n events of a genesis, one for each entity.
Spawns(n) == {Event(0, i - 1, {Spawned[i]}, None, <<>>) : i \in 1..n}
Genesis == Spawns(Len(Spawned))
GenesisHash == HashOf(Seed, 0, Reconstruct(Genesis))

NewRun ==
    [kind |-> "world", parent |-> None, lineage |-> Seed, command |-> None,
     genesis |-> 0, floor |-> 0, anchors |-> {}, tick |-> 0, next |-> Len(Spawned),
     hash |-> GenesisHash,
     events |-> {}, entities |-> <<>>, frames |-> <<>>]

\* A request that is not under way and was not answered with a run.
Idle == [pc |-> "idle", got |-> None]

Init ==
    /\ world \in Worlds
    /\ run = <<>>
    /\ ask = [c \in Slots |-> Idle]

InsertRun(r) ==
    /\ r \notin DOMAIN run
    /\ run' = With(run, r, NewRun)
    /\ UNCHANGED <<world, ask>>

\* insert_many, or what of it was done when the server died.
InsertEvents(r) ==
    /\ r \in DOMAIN run
    /\ \E n \in DOMAIN Spawned :
        /\ run[r].events \subseteq Spawns(n) /\ run[r].events # Spawns(n)
        /\ run' = [run EXCEPT ![r].events = Spawns(n)]
    /\ UNCHANGED <<world, ask>>

\* The same, of the entities.
InsertEntities(r) ==
    /\ r \in DOMAIN run /\ Genesis \subseteq run[r].events
    /\ \E n \in DOMAIN Spawned :
        LET part == {Spawned[i] : i \in 1..n} IN
        /\ DOMAIN run[r].entities \subseteq part /\ DOMAIN run[r].entities # part
        /\ run' = [run EXCEPT ![r].entities = [e \in part |-> Reconstruct(Genesis)[e]]]
    /\ UNCHANGED <<world, ask>>

InsertFrame(r) ==
    /\ r \in DOMAIN run /\ DOMAIN run[r].entities = Entities /\ 0 \notin DOMAIN run[r].frames
    /\ run' = [run EXCEPT ![r].frames = With(@, 0, GenesisHash)]
    /\ UNCHANGED <<world, ask>>

-----------------------------------------------------------------------------
\* step_run, of a run that nobody else steps meanwhile.

\* Mutant: the projection is not compared with the head.
InspectsHead(r) ==
    /\ IF DOMAIN r.frames = {} THEN r.tick = 0
       ELSE LET t == Most(DOMAIN r.frames, 0) IN t = r.tick /\ r.frames[t] = r.hash
    /\ \A ev \in r.events : ev.order < r.next

\* inspect_projection_integrity: a run without any frame passes at tick 0.
Inspects(r) ==
    /\ IF DOMAIN r.frames = {} THEN r.tick = 0
       ELSE LET t == Most(DOMAIN r.frames, 0) IN t = r.tick /\ r.frames[t] = r.hash
    /\ \A ev \in r.events : ev.order < r.next
    /\ HashOf(r.lineage, r.tick, r.entities) = r.hash

\* _valid_causal_parent_ids finds every event an entity refers to.
CausesKnown(r) ==
    \A e \in DOMAIN r.entities : r.entities[e] \in Ids(r.events) \cup r.anchors

TickEvents(t, order) ==
    {Event(t, order + i - 1, world[t][i], None, <<>>) : i \in 1..Len(world[t])}

\* run_tick and the frame of the next tick.
Stepped(r) ==
    LET t    == r.tick + 1
        evts == TickEvents(t, r.next)
        view == [e \in DOMAIN r.entities |->
                    LET by == {ev \in evts : e \in ev.touched}
                    IN  IF by = {} THEN r.entities[e] ELSE Id(Last(by))]
        hash == HashOf(r.lineage, t, view)
    IN  [r EXCEPT !.tick = t, !.next = @ + Len(world[t]), !.hash = hash,
                  !.events = @ \cup evts, !.entities = view, !.frames = With(@, t, hash)]

StepRun(r) ==
    /\ run[r].tick < MaxTick
    /\ Inspects(run[r]) /\ CausesKnown(run[r])
    /\ run' = [run EXCEPT ![r] = Stepped(@)]
    /\ UNCHANGED <<world, ask>>

-----------------------------------------------------------------------------
\* fork_run.  A request q: parent, tick, branch, and the boundary event it expects.

AtBoundary(q) == {ev \in run[q.parent].events : ev.tick = q.tick}

BoundaryId(q) == IF AtBoundary(q) = {} THEN None ELSE Id(Last(AtBoundary(q)))

\* The order of the boundary event, or of the last event before an empty frame.
BoundaryOrder(q) == Last(Upto(run[q.parent].events, q.tick)).order

\* fork_lineage_input: it names the lineage of the parent and not the parent, but
\* for an empty frame, whose id does.
Identity(q) ==
    [lineage |-> run[q.parent].lineage, tick |-> q.tick, branch |-> q.branch,
     boundary |-> IF BoundaryId(q) # None THEN BoundaryId(q)
                  ELSE [run |-> q.parent, tick |-> q.tick]]

\* creation_command_hash, from which the id of the child is derived.
Command(q) == [parent |-> q.parent, identity |-> Identity(q), expected |-> q.expected]

\* The events that entities and boundary refer to.
Referenced(q) ==
    LET held == Reconstruct(Upto(run[q.parent].events, q.tick))
    IN  {held[e] : e \in DOMAIN held} \cup ({BoundaryId(q)} \ {None})

\* Mutant: anchors are not handed on to the forks of a fork.
AnchorableOwn(q) == Ids(Upto(run[q.parent].events, q.tick))

\* build_external_anchor_manifest finds them in the parent or among its anchors.
Anchorable(q) == Ids(Upto(run[q.parent].events, q.tick)) \cup run[q.parent].anchors

Anchors(q) == Referenced(q) \cap Anchorable(q)

\* Why a request is refused before it looks for an existing child.
OutOfRange(q) == q.tick \notin run[q.parent].genesis..run[q.parent].tick
Unexpected(q) == q.expected \notin {None, BoundaryId(q)}
Broken(q) ==
    LET p == run[q.parent]  evts == Upto(p.events, q.tick) IN
    \/ q.tick \notin DOMAIN p.frames
    \/ evts = {}
    \/ HashOf(p.lineage, q.tick, Reconstruct(evts)) # p.frames[q.tick]
    \/ ~(Referenced(q) \subseteq Anchorable(q))

\* The child, with its fork_genesis event, which consumes no order, and its frame.
Child(q) ==
    LET p    == run[q.parent]
        evts == Upto(p.events, q.tick)
        held == Reconstruct(evts)
        next == NextOrder(p.floor, evts)
        hash == HashOf(Identity(q), q.tick, held)
    IN  [kind |-> "fork", parent |-> q.parent, lineage |-> Identity(q),
         command |-> Command(q), genesis |-> q.tick, floor |-> next, anchors |-> Anchors(q),
         tick |-> q.tick, next |-> next, hash |-> hash,
         events |-> {Event(q.tick, BoundaryOrder(q), Entities, Identity(q), held)},
         entities |-> held, frames |-> [t \in {q.tick} |-> hash]]

ForkRuns == {r \in DOMAIN run : run[r].kind = "fork"}

\* Runs with the identity of a child, by id or fork_identity_hash.
Alike(child) ==
    {r \in DOMAIN run : r = child.command} \cup {r \in ForkRuns : run[r].lineage = child.lineage}

-----------------------------------------------------------------------------
\* Requests.

\* A client may expect the boundary to be the last event it saw of the run.
Requests(p) ==
    LET seen == {ev \in run[p].events : ev = Last(run[p].events)}
    IN  [parent : {p}, tick : 0..run[p].tick, branch : Branches, expected : {None} \cup Ids(seen)]

\* What a request becomes: answered with a child, or refused.
Answered(q, child) == [pc |-> "idle", q |-> q, got |-> child]

\* Mutant: any child of the same identity will do.
ExistingAny(q) == Answered(q, CHOOSE r \in Alike(Child(q)) : TRUE)

\* "existing": the child of this very command is returned, another is a conflict.
Existing(q) ==
    LET same == {r \in Alike(Child(q)) \cap ForkRuns : run[r].command = Command(q)}
    IN  IF same # {} THEN Answered(q, CHOOSE r \in same : TRUE) ELSE Idle

\* _fork_run_transaction up to its writes, all of it from one snapshot.
Looked(q, again) ==
    IF OutOfRange(q) \/ Broken(q) \/ Unexpected(q) THEN Idle
    ELSE IF Alike(Child(q)) # {} THEN Existing(q)
    ELSE [pc |-> "write", q |-> q, again |-> again, child |-> Child(q)]

\* A client asks, again if it likes.
Ask(c) ==
    /\ ask[c].pc = "idle"
    /\ \E p \in DOMAIN run : \E q \in Requests(p) :
        ask' = [ask EXCEPT ![c] = Looked(q, FALSE)]
    /\ UNCHANGED <<world, run>>

\* Mutant: only the id of a run is unique.
TakenId(child) == child.command \in DOMAIN run

\* The unique indexes on id, creation_command_hash, fork_identity_hash and
\* child_lineage_key.
Taken(child) == Alike(child) # {}

\* Lineage record, run, event, entities and frame are inserted, and the transaction
\* commits; the answer may be lost.
Write(c) ==
    /\ ask[c].pc = "write"
    /\ LET child == ask[c].child IN
        /\ ~Taken(child)
        /\ Cardinality(ForkRuns) < MaxChildren
        /\ run' = With(run, child.command, child)
        /\ ask' \in {[ask EXCEPT ![c] = Answered(ask[c].q, child.command)], [ask EXCEPT ![c] = Idle]}
    /\ UNCHANGED world

\* DuplicateKeyError: once more from the start, under a new snapshot.
MeetDuplicate(c) ==
    /\ ask[c].pc = "write" /\ Taken(ask[c].child) /\ ~ask[c].again
    /\ ask' = [ask EXCEPT ![c] = [pc |-> "again", q |-> ask[c].q]]
    /\ UNCHANGED <<world, run>>

LookAgain(c) ==
    /\ ask[c].pc = "again"
    /\ ask' = [ask EXCEPT ![c] = Looked(ask[c].q, TRUE)]
    /\ UNCHANGED <<world, run>>

\* The transaction aborts: a second duplicate, a write conflict, no connection, no
\* server any more.
Fail(c) ==
    /\ ask[c].pc # "idle"
    /\ ask' = [ask EXCEPT ![c] = Idle]
    /\ UNCHANGED <<world, run>>

Next ==
    \/ \E r \in Roots : InsertRun(r) \/ InsertEvents(r) \/ InsertEntities(r) \/ InsertFrame(r)
    \/ \E r \in DOMAIN run : StepRun(r)
    \/ \E c \in Slots : Ask(c) \/ Write(c) \/ MeetDuplicate(c) \/ LookAgain(c) \/ Fail(c)

Spec == Init /\ [][Next]_vars
-----------------------------------------------------------------------------
\* Properties.

\* What a run, by its events, was at a tick.
ViewAt(r, t) == Reconstruct(Upto(run[r].events, t))
Whole(r) == run[r].genesis \in DOMAIN run[r].frames

\* "It never creates a sibling" (ADR-001, 8): two forks never share a lineage,
\* however many requests looked before either had written.
NoSiblings ==
    \A a, b \in ForkRuns : run[a].lineage = run[b].lineage => a = b

\* "Exact continuation" (ADR-001, 3): any two runs of the seed, root or fork of a
\* fork, whichever was ahead when the other was forked from it, agree on every tick
\* both have, down to the ids, hence the order indexes, of the events; and where
\* they are at the same tick they go on with the same index.
ExactContinuation ==
    \A a, b \in {r \in DOMAIN run : Whole(r)} :
        /\ \A t \in (run[a].genesis..run[a].tick) \cap (run[b].genesis..run[b].tick) :
              ViewAt(a, t) = ViewAt(b, t)
        /\ run[a].tick = run[b].tick => run[a].next = run[b].next

\* A run that was created to the end can be stepped, and forked at every tick it has:
\* hashes, entities and order agree, and each cause is its own or anchored, also in
\* the fork of a fork whose entities nobody has touched since.
WholeRunsUsable ==
    \A r \in DOMAIN run : Whole(r) =>
        /\ Inspects(run[r]) /\ CausesKnown(run[r])
        /\ \A t \in run[r].genesis..run[r].tick :
              ~Broken([parent |-> r, tick |-> t, branch |-> "any", expected |-> None])

\* Nothing comes of a run whose creation stopped before its entities were all
\* there: it is never stepped and never forked.
PartialRunsInert ==
    \A r \in DOMAIN run : DOMAIN run[r].entities # Entities =>
        run[r].tick = 0 /\ \A c \in ForkRuns : run[c].parent # r

\* rebuild_run_projections makes of events and frames what is stored already: also
\* of a fork without an event of its own, whose order index is inherited.
Rebuilt(r) ==
    LET t == Most(DOMAIN r.frames, 0)
    IN  [r EXCEPT !.entities = Reconstruct(r.events), !.tick = t, !.hash = r.frames[t],
                  !.next = NextOrder(r.floor, r.events)]
RebuildChangesNothing == \A r \in DOMAIN run : Whole(r) => Rebuilt(run[r]) = run[r]

\* Whoever is answered with a run is answered with the fork asked for: of that parent,
\* tick and branch, although a twin of the parent may have a fork of the same identity.
AnsweredTrue ==
    \A c \in Slots : ask[c].pc = "idle" /\ ask[c].got # None =>
        LET child == run[ask[c].got]  q == ask[c].q IN
        /\ child.parent = q.parent /\ child.genesis = q.tick
        /\ child.lineage.branch = q.branch

\* verify_replay wants a frame for every tick from the genesis on
\* (replay_service.py:194-198).
EveryTickHasFrame ==
    \A r \in DOMAIN run : run[r].tick > run[r].genesis =>
        run[r].genesis..run[r].tick \subseteq DOMAIN run[r].frames
=============================================================================
