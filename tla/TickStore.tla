----------------------------- MODULE TickStore -----------------------------
(***************************************************************************)
(* The documents of one simulation run in MongoDB and the step requests    *)
(* that advance it: core/run_service.py (step_run) on top of               *)
(* core/storage/frame_transaction.py.  Each action is what a request does  *)
(* between two awaits; a multi-document transaction is one action whose    *)
(* outcome, and whether the server reports it, is chosen by the network.   *)
(*                                                                         *)
(* An entity document is abstracted to the set of accepted events it       *)
(* reflects, so a document computed from a stale copy lacks an event.  A   *)
(* state hash is the state itself: canonical_hash is taken as injective.   *)
(***************************************************************************)
EXTENDS Integers, Sequences, FiniteSets

CONSTANTS Steppers,    \* concurrent POST /runs/{id}/step requests
          Entities,    \* entity ids of the run
          Worlds,      \* what the seed may make each tick do, see WorldAssumption
          MaxTick,     \* bound: no frame beyond this tick
          MaxRequest,  \* bound: most ticks in a request (api_step_run clamps to 50)
          MaxAttempts, \* TX_MAX_ATTEMPTS
          None         \* Python's None

\* run_tick is deterministic: in a world, a tick is the sequence of the entity
\* sets its accepted events touch, in commit order.
WorldAssumption == Worlds \subseteq [1..MaxTick -> Seq(SUBSET Entities)]

BoundsAssumption ==
    /\ MaxTick \in Nat
    /\ MaxRequest \in Nat
    /\ MaxAttempts \in Nat \ {0}

ASSUME StoreAssumption == WorldAssumption /\ BoundsAssumption /\ None \notin Nat

VARIABLES world,     \* the world of the run's seed, fixed at creation
          head,      \* the kernel_runs document
          frames,    \* commit_frames: tick -> frame document
          events,    \* accepted_events
          entities,  \* entities: the projection documents
          req        \* the step requests

docs == <<head, frames, events, entities>>
vars == <<world, docs, req>>

----------------------------------------------------------------------------
\* Documents

Event   == [tick : Nat, order : Nat, touched : SUBSET Entities]
View    == [Entities -> SUBSET Event]
Hash    == [tick : Nat, view : View]

\* canonical_hash(snapshot_for_hash(entities, tick, lineage_key))
HashOf(tick, view) == [tick |-> tick, view |-> view]

\* apply_mutation over a set of events, in whatever order they carry.
Apply(view, evts) ==
    [e \in Entities |-> view[e] \cup {ev \in evts : e \in ev.touched}]

\* reconstruct_entities: the entities the events alone give.
Replay(evts) == Apply([e \in Entities |-> {}], evts)

GenesisEvent == [tick |-> 0, order |-> 0, touched |-> Entities]
GenesisView  == Replay({GenesisEvent})
GenesisHash  == HashOf(0, GenesisView)

Statuses == {"paused", "running", "maintenance", "quarantined"}

RunHead == [tick : Nat, hash : Hash, order : Nat, rev : Nat, maint : BOOLEAN,
            quar : BOOLEAN, op : Nat \cup {None}, status : Statuses]

GenesisHead ==
    [tick |-> 0, hash |-> GenesisHash, order |-> 1, rev |-> 0, maint |-> FALSE,
     quar |-> FALSE, op |-> None, status |-> "paused"]

\* PrecomputedFrame; all its fields enter frame_identity_hash.  view is the
\* entities after the tick, of which only the touched ones are written.
Frame == [tick : Nat, rev : Nat, start : Hash, end : Hash, order : Nat,
          next : Nat, evts : SUBSET Event, view : View]

GenesisFrame ==
    [tick |-> 0, rev |-> 0, start |-> GenesisHash, end |-> GenesisHash,
     order |-> 0, next |-> 1, evts |-> {GenesisEvent}, view |-> GenesisView]

\* A commit_frames document: its hashes, and the identity it was written with.
FrameDoc == [start : Hash, end : Hash, identity : Frame]

DocOf(f) == [start |-> f.start, end |-> f.end, identity |-> f]

\* A request's program counter: the await it is suspended in.
Points == {"idle", "inspectHead", "inspectFrame", "inspectEvents",
           "inspectEntities", "load", "reload", "compute", "check",
           "transaction", "transient", "resolveFrame", "resolveHead"}

Results == {"none", "OK", "CRASHED", "CONCURRENT_MODIFICATION",
            "COMMIT_STATUS_UNKNOWN", "RUN_UNDER_MAINTENANCE", "RUN_QUARANTINED",
            "RUN_INTEGRITY_MISMATCH", "FRAME_CAPACITY_EXCEEDED", "DB_TX_FAILURE"}

ReportOf(f) == [tick |-> f.tick, end |-> f.end]

\* run: the head the request works from; view: the entities it holds in memory;
\* ok: no issue found by inspection; stored: what resolve_commit_status has
\* seen of the frame; why: what made it ask; reported: frames_summary.
Request ==
    [pc : Points, left : Nat, run : RunHead, view : View, ok : BOOLEAN,
     frame : Frame, attempt : Nat, stored : BOOLEAN,
     why : {"stale", "unknown", "transient"},
     reported : Seq([tick : Nat, end : Hash]), result : Results]

NoRequest ==
    [pc |-> "idle", left |-> 0, run |-> GenesisHead, view |-> GenesisView,
     ok |-> TRUE, frame |-> GenesisFrame, attempt |-> 0, stored |-> FALSE,
     why |-> "stale", reported |-> <<>>, result |-> "none"]

Init ==
    /\ world \in Worlds
    /\ head = GenesisHead
    /\ frames = [t \in {0} |-> DocOf(GenesisFrame)]
    /\ events = {GenesisEvent}
    /\ entities = GenesisView
    /\ req = [s \in Steppers |-> NoRequest]

----------------------------------------------------------------------------
\* How a request goes on

\* The request moves to its next await.
Goto(s, r, pc) == req' = [req EXCEPT ![s] = [r EXCEPT !.pc = pc]]

\* The request is answered; what it held in memory is gone.
Reply(s, r, result) ==
    req' = [req EXCEPT ![s] = [NoRequest EXCEPT !.frame = r.frame,
                                                !.reported = r.reported,
                                                !.result = result]]

At(s, pc) == req[s].pc = pc

\* Mutant: the maintenance flag is forgotten.
BlockedByQuarantineOnly(h) == h.quar

\* maintenance_mode is looked at before quarantined, everywhere.
Blocked(h) == h.maint \/ h.quar
BlockedAs(h) == IF h.maint THEN "RUN_UNDER_MAINTENANCE" ELSE "RUN_QUARANTINED"

----------------------------------------------------------------------------
\* Gate: get_run, assert_run_steppable and inspect_projection_integrity

\* get_run, then the flags of the document it returned.
BeginStep(s) ==
    /\ At(s, "idle")
    /\ head.tick < MaxTick
    /\ \E n \in 1..MaxRequest :
         LET r == [NoRequest EXCEPT !.left = n, !.run = head]
         IN  IF Blocked(head) THEN Reply(s, r, BlockedAs(head))
                              ELSE Goto(s, r, "inspectHead")
    /\ UNCHANGED <<world, docs>>

\* The inspection reads the head again and judges everything against that copy.
InspectHead(s) ==
    /\ At(s, "inspectHead")
    /\ IF Blocked(head) THEN Reply(s, req[s], BlockedAs(head))
                        ELSE Goto(s, [req[s] EXCEPT !.run = head], "inspectFrame")
    /\ UNCHANGED <<world, docs>>

LatestTick == CHOOSE t \in DOMAIN frames : \A u \in DOMAIN frames : u <= t

InspectFrame(s) ==
    /\ At(s, "inspectFrame")
    /\ LET r == req[s]
       IN  Goto(s, [r EXCEPT !.ok = /\ LatestTick = r.run.tick
                                    /\ frames[LatestTick].end = r.run.hash],
                "inspectEvents")
    /\ UNCHANGED <<world, docs>>

\* Mutant: the bound is one too low.
InspectEventsOffByOne(s) ==
    /\ At(s, "inspectEvents")
    /\ LET r == req[s]
       IN  Goto(s, [r EXCEPT !.ok = @ /\ \A ev \in events : ev.order + 1 < r.run.order],
                "inspectEntities")
    /\ UNCHANGED <<world, docs>>

\* Mutant: order indexes are not inspected.
SkipEvents(s) ==
    /\ At(s, "inspectEvents")
    /\ Goto(s, req[s], "inspectEntities")
    /\ UNCHANGED <<world, docs>>

\* next_order_index must lie beyond every event.
InspectEvents(s) ==
    /\ At(s, "inspectEvents")
    /\ LET r == req[s]
       IN  Goto(s, [r EXCEPT !.ok = @ /\ \A ev \in events : ev.order < r.run.order],
                "inspectEntities")
    /\ UNCHANGED <<world, docs>>

InspectEntities(s) ==
    /\ At(s, "inspectEntities")
    /\ LET r == req[s]
       IN  IF r.ok /\ HashOf(r.run.tick, entities) = r.run.hash
           THEN Goto(s, r, "load")
           ELSE Reply(s, r, "RUN_INTEGRITY_MISMATCH")
    /\ UNCHANGED <<world, docs>>

----------------------------------------------------------------------------
\* step_run: the entities are loaded once, the head before every tick

LoadEntities(s) ==
    /\ At(s, "load")
    /\ Goto(s, [req[s] EXCEPT !.view = entities], "reload")
    /\ UNCHANGED <<world, docs>>

ReloadHead(s) ==
    /\ At(s, "reload")
    /\ IF Blocked(head) THEN Reply(s, req[s], BlockedAs(head))
                        ELSE Goto(s, [req[s] EXCEPT !.run = head], "compute")
    /\ UNCHANGED <<world, docs>>

\* Mutant: numbering starts one too high.
TickEventsFromNext(t, o) ==
    {[tick |-> t, order |-> o + i, touched |-> world[t][i]] : i \in 1..Len(world[t])}

\* The accepted events of tick t, numbered from order index o.
TickEvents(t, o) ==
    {[tick |-> t, order |-> o + i - 1, touched |-> world[t][i]] :
        i \in 1..Len(world[t])}

\* run_tick, _frame_hash and build_precomputed_frame from a head and a view.
FrameFrom(run, view) ==
    LET t     == run.tick + 1
        evts  == TickEvents(t, run.order)
        after == Apply(view, evts)
    IN  [tick |-> t, rev |-> run.rev, start |-> run.hash,
         end |-> HashOf(t, after), order |-> run.order,
         next |-> run.order + Len(world[t]), evts |-> evts, view |-> after]

\* Mutant: the request keeps the entities it loaded, not those it computed.
ComputeFrameKeepsView(s) ==
    /\ At(s, "compute")
    /\ req[s].run.tick < MaxTick
    /\ LET f == FrameFrom(req[s].run, req[s].view)
       IN  Goto(s, [req[s] EXCEPT !.frame = f, !.attempt = 0], "check")
    /\ UNCHANGED <<world, docs>>

\* The tick is computed in memory, on the entities the request holds.
ComputeFrame(s) ==
    /\ At(s, "compute")
    /\ req[s].run.tick < MaxTick
    /\ LET f == FrameFrom(req[s].run, req[s].view)
       IN  Goto(s, [req[s] EXCEPT !.frame = f, !.view = f.view, !.attempt = 0],
                "check")
    /\ UNCHANGED <<world, docs>>

\* validate_frame_capacity refuses the frame before the database is asked.
ExceedCapacity(s) ==
    /\ At(s, "compute")
    /\ Reply(s, req[s], "FRAME_CAPACITY_EXCEEDED")
    /\ UNCHANGED <<world, docs>>

----------------------------------------------------------------------------
\* commit_frame_atomically

HeadMatches(h, f) ==
    /\ h.rev = f.rev
    /\ h.tick + 1 = f.tick
    /\ h.hash = f.start
    /\ h.order = f.order
    /\ ~Blocked(h)

\* The frame is durable: report it, then the next tick or the answer.
Succeed(s) ==
    LET r == [req[s] EXCEPT !.reported = Append(@, ReportOf(req[s].frame)),
                            !.left = @ - 1]
    IN  IF r.left = 0 THEN Reply(s, r, "OK") ELSE Goto(s, r, "reload")

\* resolve_commit_status is asked, because of why.
Resolve(s, why) == Goto(s, [req[s] EXCEPT !.why = why], "resolveFrame")

\* Mutant: every retry starts counting its attempts afresh.
RetryForever(s) == Goto(s, [req[s] EXCEPT !.attempt = 0], "check")

\* Another attempt with the same frame, unless three were made or the deadline
\* of fifteen seconds, which may pass at any attempt, is over.
RetryOrGiveUp(s) ==
    \/ req[s].attempt < MaxAttempts /\ Goto(s, req[s], "check")
    \/ Reply(s, req[s], "DB_TX_FAILURE")

\* Mutant: a head that has moved is taken for the frame's own commit.
CheckHeadOptimistic(s) ==
    /\ At(s, "check")
    /\ IF HeadMatches(head, req[s].frame)
       THEN Goto(s, [req[s] EXCEPT !.attempt = @ + 1], "transaction")
       ELSE Succeed(s)
    /\ UNCHANGED <<world, docs>>

\* Revalidation outside the transaction, at the start of every attempt.
CheckHead(s) ==
    /\ At(s, "check")
    /\ IF HeadMatches(head, req[s].frame)
       THEN Goto(s, [req[s] EXCEPT !.attempt = @ + 1], "transaction")
       ELSE Resolve(s, "stale")
    /\ UNCHANGED <<world, docs>>

\* Mutant: the head keeps its next_order_index.
WriteFrameSameOrder(f) ==
    /\ HeadMatches(head, f)
    /\ events' = events \cup f.evts
    /\ entities' = f.view
    /\ frames' = [t \in DOMAIN frames \cup {f.tick} |->
                    IF t = f.tick THEN DocOf(f) ELSE frames[t]]
    /\ head' = [head EXCEPT !.tick = f.tick, !.hash = f.end, !.rev = @ + 1,
                            !.status = "running"]

\* Mutant: an entity that several events touch is saved as the first left it.
WriteFrameFirstTouch(f) ==
    /\ HeadMatches(head, f)
    /\ events' = events \cup f.evts
    /\ entities' = [e \in Entities |->
                      LET touching == {ev \in f.evts : e \in ev.touched}
                      IN  entities[e] \cup {ev \in touching :
                                              \A other \in touching : ev.order <= other.order}]
    /\ frames' = [t \in DOMAIN frames \cup {f.tick} |->
                    IF t = f.tick THEN DocOf(f) ELSE frames[t]]
    /\ head' = [head EXCEPT !.tick = f.tick, !.hash = f.end, !.order = f.next,
                            !.rev = @ + 1, !.status = "running"]

\* _write_frame_body: events, touched entities, frame document, head CAS.
WriteFrame(f) ==
    /\ HeadMatches(head, f)
    /\ events' = events \cup f.evts
    /\ entities' = [e \in Entities |->
                      IF \E ev \in f.evts : e \in ev.touched THEN f.view[e]
                                                             ELSE entities[e]]
    /\ frames' = [t \in DOMAIN frames \cup {f.tick} |->
                    IF t = f.tick THEN DocOf(f) ELSE frames[t]]
    /\ head' = [head EXCEPT !.tick = f.tick, !.hash = f.end, !.order = f.next,
                            !.rev = @ + 1, !.status = "running"]

\* The head changed before the transaction's snapshot: no resolution is asked.
LoseRace(s) ==
    /\ At(s, "transaction")
    /\ ~HeadMatches(head, req[s].frame)
    /\ Reply(s, req[s], "CONCURRENT_MODIFICATION")
    /\ UNCHANGED <<world, docs>>

Commit(s) ==
    /\ At(s, "transaction")
    /\ WriteFrame(req[s].frame)
    /\ Succeed(s)
    /\ UNCHANGED world

\* The commit is durable, the acknowledgement is lost: the driver raises an
\* unknown commit result, or a connection failure that counts as transient.
CommitUnacknowledged(s) ==
    /\ At(s, "transaction")
    /\ WriteFrame(req[s].frame)
    /\ \/ Resolve(s, "unknown")
       \/ Goto(s, req[s], "transient")
    /\ UNCHANGED world

\* Mutant: the events are inserted outside the session and survive the abort.
AbortKeepsEvents(s) ==
    /\ At(s, "transaction")
    /\ events' = events \cup req[s].frame.evts
    /\ Goto(s, req[s], "transient")
    /\ UNCHANGED <<world, head, frames, entities>>

\* Nothing was written: a write conflict or lost connection, a commit whose
\* result the driver cannot tell, or an error that is not worth a retry.
Abort(s) ==
    /\ At(s, "transaction")
    /\ \/ Goto(s, req[s], "transient")
       \/ HeadMatches(head, req[s].frame) /\ Resolve(s, "unknown")
       \/ Reply(s, req[s], "DB_TX_FAILURE")
    /\ UNCHANGED <<world, docs>>

\* Mutant: a head that has moved means somebody else won.
CheckTransientPessimistic(s) ==
    /\ At(s, "transient")
    /\ IF HeadMatches(head, req[s].frame) THEN RetryOrGiveUp(s)
       ELSE Reply(s, req[s], "CONCURRENT_MODIFICATION")
    /\ UNCHANGED <<world, docs>>

\* After a transient error the head decides whether the same frame is retried.
CheckTransient(s) ==
    /\ At(s, "transient")
    /\ IF HeadMatches(head, req[s].frame) THEN RetryOrGiveUp(s)
                                          ELSE Resolve(s, "transient")
    /\ UNCHANGED <<world, docs>>

\* resolve_commit_status that does not say "committed" or "absent".
Unresolved(s) ==
    Reply(s, req[s], IF req[s].why = "unknown" THEN "COMMIT_STATUS_UNKNOWN"
                                               ELSE "CONCURRENT_MODIFICATION")

\* Its first read: the frame document of the tick.
ResolveFrame(s) ==
    /\ At(s, "resolveFrame")
    /\ LET f == req[s].frame
       IN  IF f.tick \notin DOMAIN frames
           THEN Goto(s, [req[s] EXCEPT !.stored = FALSE], "resolveHead")
           ELSE IF frames[f.tick] = DocOf(f)
                THEN Goto(s, [req[s] EXCEPT !.stored = TRUE], "resolveHead")
                ELSE Unresolved(s)
    /\ UNCHANGED <<world, docs>>

\* Its second read: the head, which must still be where the frame left it
\* ("committed") or where the frame starts ("absent").
Committed(h, f) == h.tick = f.tick /\ h.hash = f.end /\ h.order = f.next
Absent(h, f)    == h.tick + 1 = f.tick /\ h.rev = f.rev /\ h.hash = f.start

\* Mutant: whatever is not "committed" is taken for "absent".
ResolveHeadNotCommitted(s) ==
    /\ At(s, "resolveHead")
    /\ IF req[s].stored /\ Committed(head, req[s].frame) THEN Succeed(s)
                                                         ELSE RetryOrGiveUp(s)
    /\ UNCHANGED <<world, docs>>

ResolveHead(s) ==
    /\ At(s, "resolveHead")
    /\ LET r == req[s]
       IN  CASE r.stored /\ Committed(head, r.frame) -> Succeed(s)
             [] ~r.stored /\ Absent(head, r.frame) /\ r.why = "unknown" ->
                    RetryOrGiveUp(s)
             [] OTHER -> Unresolved(s)
    /\ UNCHANGED <<world, docs>>

----------------------------------------------------------------------------
\* Everything else that happens to the run

\* The server dies, or the client's connection is cut: nobody is answered.
Crash(s) ==
    /\ ~At(s, "idle")
    /\ req' = [req EXCEPT ![s] = [NoRequest EXCEPT !.result = "CRASHED"]]
    /\ UNCHANGED <<world, docs>>

\* api_pause_run: sets the status, stops nothing.
Pause ==
    /\ head' = [head EXCEPT !.status = "paused"]
    /\ UNCHANGED <<world, frames, events, entities, req>>

\* What the request does when its await returns.
Continue(s) ==
    \/ InspectHead(s) \/ InspectFrame(s) \/ InspectEvents(s) \/ InspectEntities(s)
    \/ LoadEntities(s) \/ ReloadHead(s) \/ ComputeFrame(s) \/ ExceedCapacity(s)
    \/ CheckHead(s) \/ LoseRace(s) \/ Commit(s) \/ CommitUnacknowledged(s)
    \/ Abort(s) \/ CheckTransient(s) \/ ResolveFrame(s) \/ ResolveHead(s)

Next ==
    \/ \E s \in Steppers : BeginStep(s) \/ Continue(s) \/ Crash(s)
    \/ Pause

Spec == Init /\ [][Next]_vars

\* The event loop resumes every suspended request and the driver answers or
\* times out; clients need not ask, and pausing is nobody's duty.
FairSpec == Spec /\ \A s \in Steppers : WF_vars(Continue(s))
----------------------------------------------------------------------------
\* Properties

\* The documents and the requests have the shape the code gives them.
TypeOK ==
    /\ world \in Worlds
    /\ head \in RunHead
    /\ frames \in [0..head.tick -> FrameDoc]
    /\ events \in SUBSET Event
    /\ entities \in View
    /\ req \in [Steppers -> Request]

\* The frames form one chain, whatever is retried, refused or lost: every frame
\* starts from the hash its predecessor ended in, the head stands on the last
\* one, and their order ranges follow each other without gap or overlap.
FrameChain ==
    /\ \A t \in 1..head.tick :
         /\ frames[t].start = frames[t - 1].end
         /\ frames[t].identity.order = frames[t - 1].identity.next
    /\ head.hash = frames[head.tick].end
    /\ head.order = frames[head.tick].identity.next

\* A frame is all there or not at all, and once: the accepted events of a tick
\* are exactly the ones its frame document was computed with (no event of a
\* frame that was given up, none of a frame that was retried twice).
FramesAtomic ==
    /\ \A ev \in events : ev.tick \in 0..head.tick
    /\ \A t \in 0..head.tick :
         {ev \in events : ev.tick = t} = frames[t].identity.evts

\* order_index numbers the accepted events of the run from 0 without a gap, a
\* duplicate or an inversion against time, so both sort keys agree.
OrderIndexes ==
    /\ {ev.order : ev \in events} = 0..(head.order - 1)
    /\ \A a, b \in events : /\ a.order = b.order => a = b
                            /\ a.order < b.order => a.tick <= b.tick

\* The reported frames are in the store, as reported, in the order of their ticks.
Durable(rep) ==
    \A i \in 1..Len(rep) :
        /\ rep[i].tick \in 1..head.tick
        /\ frames[rep[i].tick].end = rep[i].end
        /\ i > 1 => rep[i - 1].tick < rep[i].tick

\* A frame a client was told of is in the store, as told, in the order told:
\* "committed", "committed_resolved" and "already_committed" are all true.
ReportedFramesDurable == \A s \in Steppers : Durable(req[s].reported)

\* Inserting a frame never meets a duplicate key: when the head is where a
\* frame expects it, neither the frame's tick nor its order indexes are taken.
\* This is why the DuplicateKeyError branch of the commit is not an action.
NoDuplicateKey ==
    \A s \in Steppers : LET f == req[s].frame IN
        (At(s, "transaction") /\ HeadMatches(head, f)) =>
            /\ f.tick \notin DOMAIN frames
            /\ \A ev \in events : ev.order < f.order

\* The head never goes back: a step of the run moves it by exactly one tick and
\* one revision, together with that tick's frame, and nothing else moves it.
HeadAdvances ==
    [][/\ head'.tick # head.tick =>
            /\ head'.tick = head.tick + 1
            /\ head'.rev = head.rev + 1
            /\ frames'[head'.tick].start = head.hash
       /\ head'.rev = head.rev => head' = [head EXCEPT !.status = head'.status]
       /\ head'.rev >= head.rev
       /\ \A t \in DOMAIN frames : t \in DOMAIN frames' /\ frames'[t] = frames[t]
       /\ events \subseteq events']_docs

\* A client told DB_TX_FAILURE by the resolution of an unknown commit ("commit
\* failed and frame confirmed absent") was told the truth.
ConfirmedAbsent ==
    [][\A s \in Steppers :
         (At(s, "resolveHead") /\ req'[s].result = "DB_TX_FAILURE") =>
             \A t \in DOMAIN frames : frames[t].identity # req[s].frame]_vars

\* The chain of frames replays (verify_replay): at every tick, the accepted
\* events up to it give the hash its frame ended in.
ReplayFaithful ==
    \A t \in 0..head.tick :
        frames[t].end = HashOf(t, Replay({ev \in events : ev.tick <= t}))

\* The projection is what the events give and what the head's hash says, so the
\* next step passes its inspection.
ProjectionFaithful ==
    /\ entities = Replay(events)
    /\ head.hash = HashOf(head.tick, entities)

\* All that an inspection looks at agrees.
StoreConsistent ==
    /\ ReplayFaithful
    /\ ProjectionFaithful
    /\ head.hash = frames[head.tick].end
    /\ \A ev \in events : ev.order < head.order

\* The four reads of an inspection see one store or notice nothing of it: a request
\* is refused for a mismatch only when the stored run is inconsistent, or when the
\* head has moved since its copy was read.  (Then a healthy run is refused as well.)
NoSpuriousMismatch ==
    [][\A s \in Steppers :
         (At(s, "inspectEntities") /\ req'[s].result = "RUN_INTEGRITY_MISMATCH") =>
             ~StoreConsistent \/ head.rev # req[s].run.rev]_vars

\* An inspection refuses no run whose documents agree.  This the code does not keep
\* when another request commits between the reads.
HealthyNotRefused ==
    [][\A s \in Steppers :
         (At(s, "inspectEntities") /\ req'[s].result = "RUN_INTEGRITY_MISMATCH") =>
             ~StoreConsistent]_vars

\* A client whose frame is stored is not told that another writer won, nor that
\* nobody knows, before the run has gone past the frame, whatever was lost, retried
\* or raced.  (Excepted: the transaction and a frame seen missing, where a request
\* that computed the same frame may have stored it.)
RefusedOnlyIfOvertaken ==
    [][\A s \in Steppers : LET f == req[s].frame IN
         /\ req[s].pc \in {"check", "transient", "resolveFrame", "resolveHead"}
         /\ At(s, "resolveHead") => req[s].stored
         /\ f.tick \in DOMAIN frames /\ frames[f.tick] = DocOf(f)
         /\ req'[s].result \in {"CONCURRENT_MODIFICATION", "COMMIT_STATUS_UNKNOWN"}
         => head.tick > f.tick]_vars

\* A resolution that has seen this very frame stored does not end in a refusal.  This
\* the code does not keep when other requests have moved the head on.
ResolvedFrameAcknowledged ==
    [][\A s \in Steppers : (At(s, "resolveHead") /\ req[s].stored) =>
         req'[s].result \notin {"CONCURRENT_MODIFICATION", "COMMIT_STATUS_UNKNOWN"}]_vars

\* Every step request is answered, under any sequence of lost races, transient
\* errors and unknown commits: attempts are bounded and resolution never waits.
EveryRequestAnswered ==
    \A s \in Steppers : ~At(s, "idle") ~> At(s, "idle")

\* The log the documents hold and what the requests have been told of it.
LogChain == [i \in 1..(head.tick + 1) |->
               [start |-> frames[i - 1].start, end |-> frames[i - 1].end]]
LogTold  == [s \in Steppers |-> req[s].reported]

\* The store implements the abstract log.
Log == INSTANCE TickLog WITH
           Clients <- Steppers, Hashes <- Hash, GenesisHash <- GenesisHash,
           chain <- LogChain, told <- LogTold

\* Every step of the store is a step of the log or changes nothing of it.
ImplementsLog == Log!LogInit /\ [][Log!LogNext]_(Log!logVars)
=============================================================================
