# A verification project for the simulation sandbox

TLA+ modules, TLC runs and TLAPS proofs about the parts of the simulation sandbox where a test says
little: the documents of a run in MongoDB under overlapping requests and crashes, the rebuild tool's
lease, interventions, the runs of one seed and their forks, the tick in which people's proposals about food meet, and the web page that
steps a run, draws it and asks about it, with its requests answered late, out of order or not at all.

`tlc -workers 2 -config X.cfg M` checks a run (the table below pairs configurations and modules),
`tlapm M.tla` the proofs of a module. PROJECT.json lists components, runs, findings, hazards and
theorems, and says for every definition which lines it models.

## 1. The system

A *run* is a small world (terrain, people, animals, trees) that a client advances tick by tick.
`POST /runs/{id}/step` computes ticks with a deterministic kernel and stores each as a *frame*.

| part | code (`backend/`) | state | operations |
|---|---|---|---|
| tick store | `core/run_service.py`, `core/storage/frame_transaction.py`, `core/db.py` | `kernel_runs` (head), `commit_frames`, `accepted_events`, `entities` | `step_run`, `inspect_projection_integrity`, `commit_frame_atomically`, `resolve_commit_status`, `set_run_status` |
| maintenance | `frame_transaction.py` 720-885, `tools/rebuild_run.py` | `maintenance_mode`, `quarantined`, `maintenance_op_id` of the head; `recovery_records` | acquire, rebuild, release, record |
| interventions | `api/routes.py` 369-424, `core/interventions.py` | the same documents | a user's change to an entity, outside a tick |
| kernel and commit pipeline | `core/kernel.py`, `core/commit_pipeline.py` | the entities of one tick in memory | ask domains for proposals from one pinned view, commit them one at a time |
| food interactions | `core/food_interaction.py`, `domains/food_interaction_proposals.py` | `food_interaction` entities | create, accept, fulfil, expire, invalidate |
| domains | `domains/*.py` | entities | people, animals, lifecycle (death), ecology (regrowth, decay) |
| memory and trust | `domains/interaction_memory.py`, `reciprocity_trust.py` | `knowledge` of a person | merge and evict facts, derive scores |
| creation and forks | `core/forking.py`, `run_service.py`, `core/db.py` | runs, `lineage_records` | `create_run` in four writes, `fork_run` in one transaction |
| verification | `core/replay_service.py` | none | replay, shadow run |
| history, projections | `core/history_service.py`, `api/cognitive_projection.py` | none | read and format |
| console (`frontend/src/`) | `App.js`, `ControlBar.jsx` | run, worldState, selectedEntityId, cognitiveProjection, isPlaying, the interval, busyRef, backendError | step, play, load, create, fork, select; refresh and projection on their own |
| panels | `EntityInspector.jsx`, `TileInspector.jsx`, `TimelineTab.jsx`, `EventLog.jsx`, `RejectionsLog.jsx` | the data of the tab that is open | ask anew when run, subject, filter or refresh key changes |
| dialogs | `NewRunModal.jsx`, `LoadRunModal.jsx`, `lib/scenariosApi.js` | scenarios, choice, runs, flags of what is under way | open, close, retry, create, load |
| presentation | `lib/presentation.js` | none | documents to words, severities, badges, priorities |
| canvas and lists | `WorldCanvas.jsx`, `lib/worldOverlay.js`, `AttentionStrip.jsx`, `EntitySummary.jsx`, `EventLog.jsx` | the world before, effects, selection | draw, click |

How they interact. Requests are coroutines of one or several processes: between two `await`s anything
may happen to the documents, and MongoDB transactions are the only atomicity. The head is what
everything compares itself with: `head_revision`, `current_tick`, `latest_state_hash` and
`next_order_index` are in the filter of the compare-and-set that ends a commit. Events are the truth,
the `entities` collection a projection of them, and the frame of a tick holds a hash of the state.
Interventions and the rebuild tool write these documents by rules of their own. Inside a tick there is
no concurrency but the same hazard: proposals are computed from a pinned copy and applied later, to
what other proposals have left.

The page talks to the server through the ten or so calls of `lib/api.js`. One handler runs at a time, but
every `await` lets others in, requests have no timeout and are never aborted: an answer changes the
page of the moment it arrives in, not of the one it was asked from. `App` keeps what is shared
and passes it down; canvas, strip, panels and dialogs call back `handleSelectEntity`, `handleSelectTile` and
`handleRunReady`.

What is hard, and what must hold:

- *Overlapping requests* on one run: one chain of frames, each frame whole, never a stale overwrite.
- *Lost acknowledgements*: what a client is told was stored is stored; what it is told was refused is not, unless
  others have gone on from it.
- *Partial writes*: transactions leave all or nothing; an intervention, which has no transaction, must
  leave a trace that later commits notice.
- *Kills* of a request, a tool, an intervention, a creation at any await, and database errors in place of answers.
- *Forks that race*: one child of an identity, which goes on exactly as its parent would have, however deep
  the line of forks and whichever of them is stepped first.
- *The lease*: one holder, nobody commits under it, and a run is given back healthy or quarantined.
- *Proposals of one view in any order*: food conserved, one active interaction of a kind between two
  people, no interaction open for ever.
- *Answers out of order*: what is drawn becomes that of the run under the controls and of what is
  selected, although it was another's when it was asked for; one iteration of autoplay at a time.
- *Four tables of thresholds* in the presentation that must call the same thing dangerous, and free text of the
  server that must be stripped of internal tokens.

## 2. Modules

| module | what it is | code |
|---|---|---|
| `TickLog` | abstract: an append-only chain of frames and what each client was told of it | |
| `TickStore` | the step requests over the documents of a run, one action between two awaits | `run_service.py`, `frame_transaction.py`, `kernel.py`, `mutations.py` |
| `Recovery` | extends `TickStore` by the rebuild tools | `frame_transaction.py`, `tools/rebuild_run.py` |
| `Intervention` | extends `Recovery` by interventions: the whole server | `api/routes.py` |
| `Lineage` | runs created write by write, stepped, forked, forked again | `run_service.py`, `forking.py`, `db.py` |
| `FoodLedger` | abstract: what may happen to meat | |
| `FoodInteraction` | one tick after another: activation from a pinned view, commit in any order | `commit_pipeline.py`, `food_interaction.py`, `domains/` |
| `Console` | the page and its requests, beside a server that answers in any order | `App.js`, `ControlBar.jsx`, `lib/api.js` |
| `Presentation` | what is said of an entity or an event; no state | `lib/presentation.js`, `AttentionStrip.jsx` |
| `Overlay` | extends `Presentation` by what is drawn over the tiles; no state | `lib/worldOverlay.js`, `WorldCanvas.jsx` |
| `Screen` | extends `Overlay`: worlds drawn one after another, clicks | `WorldCanvas.jsx`, `EntitySummary.jsx`, `EventLog.jsx` |
| `Panels` | tabs, and the panel mounted in them with its requests | the panels above |
| `Dialogs` | both dialogs, with the calls that outlive them | the dialogs above |
| `MCTickStore`, `MCRecovery`, `MCServer`, `MCLineage`, `MCFood`, `MCConsole`, `MCFrontend` | instances for TLC; `MCFrontend` composes `Screen`, `Panels` and `Dialogs` | |
| `TickStoreProofs`, `SerialProofs` | proofs about `TickStore` | |
| `RecoveryProofs` | proofs about `Recovery`, on those of `TickStoreProofs` and `SerialProofs` | |
| `InterventionProofs` | proofs about `Intervention`, on those of `RecoveryProofs` | |
| `LineageProofs` | proofs about `Lineage` | |
| `ConsoleProofs` | proofs about `Console` | |
| `PageProofs` | proofs about `Screen` and `Dialogs` | |
| `FoodProofs` | proofs about `FoodInteraction` | |

### TickStore

`head`, `frames`, `events`, `entities` are the four collections of one run; `req[s]` holds the locals
of a step request and its program counter, whose values are the awaits: `inspectHead`,
`inspectFrame`, `inspectEvents`, `inspectEntities` (the four reads of
`inspect_projection_integrity`), `loadEntities`, `reloadHead`, `compute`, `check`, `tx` and the
resolution (`checkTransient`, `resolveFrame`, `resolveHead`). A multi-document transaction is one
action with the outcomes the network leaves: `Commit`, `CommitUnacknowledged` (stored, the request sees
an error), `LoseRace` (the compare-and-set matched nothing), `Abort` (any error, nothing stored). The
request may give up at its deadline in any attempt. `Crash` ends it anywhere.

Abstractions. An entity document is the *set of accepted events it reflects*: a document computed from a
stale copy then lacks an event, which a real field value would only sometimes show. A hash is the state
itself (`canonical_hash` is taken as injective; policy `tick-bound-v1`). The kernel is deterministic:
`world[t]` is the sequence of touched entity sets of tick t, fixed when the run is created.
Left out: runs of older hash policies and without `head_revision`, deployments without transactions,
test injection, diagnostics and retention (they touch no document the model has), the read of causal
parents (its result is a function of what `ComputeFrame` already has). `create_run` is `Init` here, and write by write in `Lineage`.
The entity cursor is one read. A connection failure during commit counts as transient, as in the code.

### Recovery

Each tool goes through `_run`: read the frame, acquire (read, compare-and-set), read the events, swap
the projection in a transaction, release (read, compare-and-set), write the record; its `except`
branch (`Fail`) releases as failed and records that. Every call may raise, and a write may be durable when it does.
What then happens is the code's: until the lease is held only two refusals are caught, so `RaiseBeforeLease` and `AcquireUnacknowledged` (the
lease is taken, and nobody knows) end the tool with a traceback and no record; a release that fails the first time
leads into the `except` branch, and there it is only warned about (`ReleaseRaises`, `warned`): the failure is recorded and the tool ends with the lease still
held or, if only the acknowledgement was lost, given back; a failing insert of a success record leads into the `except` branch as well,
a failing insert of a failure record (`ReportFailure`) ends the tool with a traceback. `recovery_id` is drawn once and unique, so the second insert of
an invocation is one that fails. What `Ended` names stays to be seen of its operator (`dead`, `raised`, `warned`), who runs no other tool then: history for the
properties about the lease. `Die` kills a tool anywhere, `Damage` loses one entity
document while nobody uses the run, which is what the tool is for. `--force` is not modelled apart: nothing in the code sets
`maintenance_stale`, so it never finds a lease it may take. The temporary collection and the projection
watermark are read by nobody and left out.

### Intervention

`Submit` reads the head, `LoadForInter` the entities; a proposal is accepted, rejected or not built;
then come the five separate writes of the handler, `CrashInter` after any of them (`torn`, which is history, remembers how many
interventions had been asked for when the first one died half-way). `Overlap = FALSE` says that a user waits until the run is unused before intervening: an assumption about the
environment, which the handler does not enforce (see the finding of run `Overlap`).

### Lineage

`run` holds every run stored, by its id, with its document, events, entities and frames; `ask[c]` is a fork
request. `InsertRun`, `InsertEvents`, `InsertEntities` and `InsertFrame` are the writes of `create_run`; the two in the middle may
stop anywhere, and any of them may never come. `StepRun` is a whole request for one tick, of a run nobody
else steps meanwhile: that a commit is atomic is what `TickStore` shows. A fork is two actions, because a snapshot transaction
reads at its start and is confronted with the unique indexes when it writes: `Ask` looks and decides (`Looked`, in
the order of the code), `Write` stores the child, with or without an answer. `MeetDuplicate` and `LookAgain` are the
branch of `DuplicateKeyError`, `Fail` every other end.

A hash is what is hashed, and an identity the record it is derived from: a child's id contains its whole line of descent. An
entity is its `last_event_id`; every entity an event touches is taken as stamped with it (the code stamps the one
that proposed), so there are at least the references there are in the code. The set of entities is that
of the genesis. Left out: compatibility of versions, the world context, `expected_forked_from_state_hash` (its role is that of the expected event), the
lineage record's own hash, interventions and tools.

### FoodInteraction

`Activate` is the start of `run_tick`: it pins `view`, lets pending interactions age by a tick and puts
into `todo` every proposal the view gives rise to. A `Commit` step decides one of them, the
environment's (deaths, decay) first, the others in any order, because `order_key` ends in a content
hash. A decided proposal is accepted (`Act`, `Create`, `Accept`, `Fulfil`, `Expire`, `Invalidate`, `Die`,
`Rot`) if the validation of the Core holds of the *current* world, and rejected otherwise. Contents
that depend on a person's choice are chosen when the proposal is decided, from the pinned view: an
equivalent choice, made late, that keeps the state small.

Kept of a person: life, place, whether hunger is critical, units of meat, whether wood or forage is
carried. Any action is possible in any tick, a superset of what plans and scores select. Awareness in the
Core reads committed knowledge that may be a tick older than the view, so a creation may always fail
(`CreateNot`). No domain proposes to refuse, hence there are no facts of refusals, hence caution never
reaches the threshold that blocks an acceptance: refusal and caution are left out. One carcass stands
for all sources of meat; `claimed_tick` is a flag reset every tick.

### Console

An action is a handler up to its next `await`, with the effects its assignments trigger: React 18
batches the state a handler sets into one render, and effects follow it. Each `useEffect` is an operator on what
is about to be rendered: `FetchState` for `[run]`, `FetchProjection` with its cleanup `Cancel` for
`[run, worldState, selectedEntityId]`, `Interval` for `[isPlaying, speed, run]`. The closure of a callback is kept
where it matters: `timer` is the run the interval was set up with, a request carries the run it was asked of
and whether an iteration of autoplay waits for it (`by`). `busy` is `busyRef`, which is read when the interval fires
and reset in `finally`.

`net` holds the requests in flight. `Serve` lets the server read or advance the run at any time,
`ThenRefresh`, `SetWorldState`, `SetProjection`, `RunReady` are the arrivals, `Fail` an error
before or after the request was served. The run and tick of a world stand for its contents. Steps of the server are
those of `TickStore` as this client sees them: one tick, or an error, stored or not. `Intervene` is
the refresh that follows an intervention. Left out: speed, view mode, follow, overlay and help, which nothing else reads; the pause
request, whose answer is ignored. `Slots` bounds what is in flight, and the user leaves the last
slot to autoplay: else the bound, not the code, could starve the interval.

### Presentation, Overlay, Screen

A document is a record of the fields it has, because a missing field is what half of `presentation.js` is
about; an id is the sequence of its parts. A text is the *set of its fragments*: a canonical token may be in it
translated, humanized or raw, the rest are numbers, names and the words other code looks for. So wording is
abstracted, and whether a raw token reaches Simple View is not. Severities keep their thresholds. Where the code sorts, the
model has the order (`Feed`, `AttentionStrip`); the order of an entity is that of its id.

`Screen` draws any of `Worlds` with any of `Feeds` after another, remembers the world before for the
effects, and selects by canvas, chip and row. `HandleClick` keeps that its filter reads the position of *every*
entity. Colours of terrain, animation, scrolling and the overlay's switches are left out.

### Panels, Dialogs

A panel is its *question*: the dependencies of its effect. `Effect` compares the question before and after a handler, asks
again when it changed and mounts another panel, with nothing, when the tab or the kind of subject did. `Receive` shows whichever
answer comes. A refresh key counts worlds fetched: the action `Refresh`.

`Dialogs` keeps both dialogs, which stay mounted while closed, with every call they began: a load
of scenarios can be cancelled (`live`), creating, loading and listing cannot. `Normalize` is what a response of any shape is
turned into. `newest` and `fresh` are history, for the property that the latest load wins.

`MCFrontend` composes the three. They share no state (what runs between them is `Console`), so a
behaviour exercises one of them, `focus`, and the instance is their sum and not their product.

## 3. Runs

| run | module | shows |
|---|---|---|
| `StepConcurrent` | `MCTickStore` | two overlapping multi-tick requests: `FrameChain`, `FramesAtomic`, `OrderIndexes`; what the clients are told: `ConfirmedAbsent`, `NoSpuriousMismatch`, `RefusedOnlyIfOvertaken`; and that the store implements `TickLog` |
| `Rebuild` | `MCRecovery` | two tools, any of whose calls may fail, beside a client of two ticks a request: one lease holder, no commit under the lease, one verdict per operation, a run is released healthy or quarantined, frames replay from the events |
| `Server` | `MCServer` | a client, a tool and an intervention that overlaps neither: what is consistent after each; after an intervention that died half-way no frame is committed; and liveness: requests answered, the lease given back unless its holder was killed, raised or warned, every rebuild recorded unless it was killed or raised |
| `Food` | `MCFood` | two people, all actions: the ledger, pending interactions end, deaths release accepted ones |
| `FoodCrowd` | `MCFood` | three people, two interactions, decay: the ledger under contention, one active interaction of a kind between two people |
| `Console` | `MCConsole` | the page against late, reordered and failing answers: `OneIteration`, `AcceptedProjectionFits`, `AutoplayFollows`, and that the world drawn converges (`DisplayConverges`) |
| `Frontend` | `MCFrontend` | `AlarmsAgree`, `OnlyKnownLeaks` of what is drawn; `PanelConverges`; `LatestLoadWins`, `OneCreate` of the dialogs |
| `Forks` | `MCLineage` | two runs of one seed from their first write on, their forks and the forks of those, stepped at their own pace, two requests at a time: `NoSiblings`, `PartialRunsInert`, `AnsweredTrue`, `ExactContinuation`, `WholeRunsUsable`, `RebuildChangesNothing` |
| `StaleView`, `Overlap`, `LostDecay`, `DeadClick` | | counterexamples, section 6 |

Bounds and why they suffice. Two requests meet in every pair of awaits; a third would only race the
winner of two. Two ticks per request make the second iteration of the loop (which keeps its entities in
memory) overlap with the other request; two attempts show a retry after each kind of failure. Two entities let a tick touch one and leave the other, in both orders.
Two tools race for the lease; one lost document is enough for an inconsistent run, and as it is lost only while nobody uses the run, one entity is enough to lose it of. In `Server` a request is for one tick: what a second tick meets beside tools is in `Rebuild`, interventions wait for the end of a request, and
that a longer one ends too is proved (`RequestsHurry`). There one intervention is enough to be torn anywhere; what a
second one does to what the first left is proved (section 4, for any number), and was checked once with two of them and safety alone (883,970 states). In `Food`, one interaction and one unit on the carcass keep
liveness checking small, and `Expiry` = 2 (the code's is 3) leaves one tick in which a pending
interaction may be accepted and one in which it no longer may. `FoodCrowd` has what `Food` lacks: two givers for one
receiver, two receivers of one giver, two interactions. There nobody gathers and in `Food` nothing decays: the two together
break conservation in the code (`LostDecay`). `FoodCrowd` uses symmetry of people,
`StepConcurrent` and `Rebuild` of requests and tools; liveness runs use none. Deadlock is checked in every run.

`Console` (some 570,000 states, two minutes) has two runs to go between, a person or nobody to select,
two ticks and three requests in flight: enough for the refresh of a run that was left, a projection
and an iteration of autoplay to be out at once. Its safety is proved for every value of the constants, so these bounds limit
only `DisplayConverges`. A second person matters only to `OverlayOwnKnowledge` (section 6). `Frontend` (some 428,000 states): the
worlds of `MCFrontend` have hunger and thirst just below, at and above each threshold of the four
tables, deaths, more people in danger than a strip of two has places, and a journey; feeds with every kind of explanation that carries tokens (TLC evaluates that they are such as `Explained` says, `AsExplained`); two runs, two entities and a tile for the
panels with two requests in flight; three calls of the dialogs, so that a cancelled load, its successor and a creation overlap, and
responses of every malformed shape.

What is proved for every value of the constants and says nothing the refinement does not is not checked again by TLC: the types of
`TickStore` and `Console`, `HeadAdvances`, `ReportedFramesDurable`, and `NoDuplicateKey` (the duplicate-key branch of the commit is dead code).

`Forks` (112,000 states, one and a half minutes) has twins because they have the same lineage key and so the same event ids: only between their
forks can an identity be met that is another's. Two requests may look before either has written; of two forks, the
second may be a fork of the first. The constraint `Narrow` says that twins or two requests come with one tick, two ticks with one run and a
request at a time: a fork at tick 1 then still has a tick to go on with, beside its parent, and so has a fork of that fork. `MCWorlds` alternates an empty tick with one that touches
an entity twice and leaves the other to its genesis, in either order: there are forks at an empty tick, forks whose own first tick is empty, and forks of a fork
to which nothing has happened yet. A third tick (135,000 states), or a third fork of one run (387,000), showed nothing new. It uses symmetry of runs and of requests.

Fairness. `Server` assumes weak fairness of each request, tool and intervention that is not killed: the
event loop goes on with a coroutine whose await is over, and every loop in the code is bounded by attempts
or deadline. No client is assumed to send a request. `Food` assumes that the run goes on
being stepped, `WF_vars(Next)`: a tick is a synchronous function that ends once begun. Nothing is assumed about
which proposal comes first, and so nothing is claimed about fulfilment: a giver whose own action
changes its meat before the fulfilment is decided, in every tick, is never rid of the accepted interaction.
`Console` assumes that the interval keeps firing, and that what is in flight is served and its answer arrives, unless it
fails. `Panels` assumes that worlds keep being fetched (`WF(Refresh)`), as they are while a run plays:
without that, a late answer for what was left would stay. Both liveness properties are claimed only once
requests have stopped failing and the user has settled on a run or a subject. Nothing is
assumed of the user.

Every property has a mutant in PROJECT.json: a plausible bug in one definition, standing beside it in
the module under "Mutant", for which TLC finds the property violated.

## 4. Proofs

`TickStoreProofs`, for any number of requests, ticks, attempts and entities, from `StoreAssumption`
(the constants' types, and that None is no number):

- `Invariance`: `Spec => []IndInv` with `IndInv == RequestsInv /\ DocsInv /\ ReportedFramesDurable`.
  `DocsInv` is what the documents owe each other (the chain, atomicity, order indexes, the head stands on the last frame).
  The invariants of the runs are not inductive without `RequestsInv`, the types and what each request at its await may
  rely on (`RequestInv`): the head it holds was once the head (so an equal revision means an equal
  head), the frame it computed follows from that head, and a frame it takes for stored is stored.
- From it `TypeCorrect`, `ChainCorrect`, `AtomicityCorrect`, `OrderCorrect`, `ReportsCorrect`,
  `DuplicateKeyUnreachable`; the action properties `HeadOnlyAdvances` and `AbsenceConfirmed`; and
  `RefinesLog`, that the store implements `TickLog`: a commit maps to `Extend` (with `Tell` when it is acknowledged in the same step), a resolved
  commit to `Tell`, the start of a request to `Forget`, everything else to a stutter.
- The proof goes action by action. `OneRequestMoves` disposes of the steps that move one request only,
  `CommitStep` and `WriteFrameGrows` are its heart. `SameHistoryKeeps` says that a write which leaves tick, hash, order index, frames and events
  alone leaves the requests what they rely on: that is what the modules below need of the tools.
- `RequestsHurry` is the safety half of `EveryRequestAnswered`: with `Distance`, at most how many awaits a request is from the end of its
  tick, every step it takes answers it, leaves it a tick less or shortens the distance, whatever the others do meanwhile, and nothing else
  but its death moves it. That the step can be taken at all (`ENABLED`) is left to TLC.
- What clients are told of a sound run, for overlapping requests: `MismatchesHonest` (`NoSpuriousMismatch`) and `RefusalsHonest` (`RefusedOnlyIfOvertaken`). The
  first rests on `SeenInv`: as long as the head still has the revision a request's inspection began with, what the inspection has read so far is what is stored
  (`Seen`). Every write of the head raises the revision (`RevisionGuards`), so a write between the four reads ends `Seen`, and shows.
  That is all that can be claimed: with a commit in between, the code does refuse a sound run, and a stored frame (section 6).
- `InSync` is less than `DocsInv` (head and newest frame have one hash, the events are numbered without gap) and inductive by
  itself (`NextInSync`). It is what survives an intervention, after which the events of a tick are no longer those of its frame.

`SerialProofs`: if `Steppers` has one element, two invariants in place of one. `AloneInv` is about the request: what it has
read is what is stored, and *if* the head's hash is that of what the events give, its entities are what the events give (`InStep`). It is kept on any
documents, however inconsistent. `SerialInv` adds that the history is faithful: `InSync`, `ReplayFaithful`, and the head's hash (`HeadFaithful`). It says nothing of the
entity documents, so whoever writes those or the lease keeps it. Hence `SerialReplay` and `SerialProjection`.
The run `StaleView` shows that the assumption of one request at a time cannot be dropped.

`RecoveryProofs`, for any number of tools, invocations and requests, from `StoreAssumption` and `RecoveryAssumption`:

- `RecInvariance`: `RecSpec => []RecInv` with `RecInv == LeaseInv /\ IndInv`. `LeaseInv` is `RequestsInv`, the types, and what the lease rests on: a tool
  past its acquisition finds its own operation in the head (`ToolInv`), the operation ids of any two invocations differ, those
  of killed tools included (`Apart`), and the head names an operation exactly while it is under maintenance (`LeaseNamed`).
  Without `Apart` a head that names one's own operation would not exclude a second holder, and `LeaseHeld` is not inductive.
- From it `RecTypeCorrect`, `LeaseCorrect`, `VerdictCorrect` and the action property `LeaseProtectsStore`; and
  `StoreBesideTools`: the chain, atomicity, order and durability of `TickStoreProofs` survive the tools, because
  they touch no tick, hash, order index, frame or event. Tools do change the head's revision and the
  entities, so each of their writes is shown to keep what a waiting request relies on.
- For one request at a time beside any number of tools, `RebuildInv` adds to `LeaseInv` and `AloneInv` what a tool has in its hands: what it
  will swap in is the replay of the events, and on what it gives back without quarantine the projection is that replay (`ToolFaithful`). Both rest on the lease, under which
  no event is added. Together with `SerialInv` this gives `ReplayBesideTools` and `ReleasesFaithful`.
  A lost document does the history no harm: the inspection refuses a run whose entities do not have the head's hash, so nothing is computed on them.
- `MismatchBesideTools` and `RefusalsBesideTools`, for any number of requests: acquisition and release raise the revision too; the swap
  between them does not, but the entities are what an inspection reads last, and judges at once.
- The safety halves of `LeaseGivenBack` and `EveryRebuildRecorded`, for any number of requests: `LeaseAccounted` (a held lease always has the invocation that took it: at work, killed,
  ended by an exception or with the warning that its release failed), `RebuildsAccounted` (every invocation has its verdict, is at work, was killed or ended by an
  exception) and `ToolsHurry` (with `ToolDistance`, at most how many calls an
  invocation is from its end). The two invariants, `Accounted`, are inductive on top of `LeaseInv`; TLC checked all three on the instance `Rebuild` first.

`InterventionProofs`, for any number of users and interventions, tools and entities, under `~Overlap`. An intervention has no transaction, so
the invariant follows it write by write, in three layers:

- `InterInv` (any number of requests): `LeaseInv`, the types, and `AloneWithRun`: whoever intervenes is the only one, no request
  or tool is at work, and the head it read is the head. Hence `ServerTypeCorrect` and `LeaseBesideInterventions`.
- `SyncInv` (any number of requests): while nothing was torn, `InSync` holds between interventions, and during one `HalfSynced` says how far
  each write has got: the event is in, head and frame still agree; the head is written, the frame is not. Hence `HeadStaysInSync`.
- `WholeInv` (one request at a time, no document lost): the same of what the events give (`HalfWhole`), and the point of it, what an intervention
  that died leaves: until somebody intervenes again, either nothing was torn after all (a rejected proposal writes what was there) or no inspection
  passes and no request is past one (`Stuck`): after the first write there is an event beyond the head's order index, and after the head's own write
  head and frame differ. Hence `ReplayBesideInterventions`, `ProjectionBesideInterventions` and `CommitsFailClosedCorrect`.
- `MismatchBesideInterventions`, for any number of requests, needs nothing of this but `InterInv`: no inspection is under way while somebody intervenes. (`RefusedOnlyIfOvertaken` is not
  proved here.)

Two hypotheses there are no convenience. Without `~Overlap` the properties are false (run `Overlap`). With `MaxDamage` > 0 the last three
are: an intervention does not inspect the projection it computes on, so one on a run that lost a document hashes the loss into head and frame. `WholeInv` was checked by TLC on
the instance `Server` before it was proved.

`LineageProofs`, for any runs, entities, worlds and number of requests, from `LineageAssumption`:

- `LineageInvariance`: `Spec => []LineageInv`. Of every run `RunInv`: the hash of its head and of its frames is of *all*
  entities (`HashInv`), so that a run whose entities are not all there fails the inspection and has no frame to
  be forked from; and lineage and command of a fork say which parent and tick it is of (`OriginInv`). `ParentInv`: the
  parent of a fork is complete. `RequestInv`: what a request between its look and its write is about to insert is still such a run, of a parent still there, and
  what it was told is the fork it asked for. That nothing is deleted and origins never change (`Kept`) carries this over the steps of others.
- From it `SiblingsCorrect`, `PartialCorrect` and `AnswersCorrect`. That looking finds no child is worth nothing at the time of the write: the
  proof of `NoSiblings` uses the unique indexes alone.
- `StreamInvariance`: `Seeded => (Spec => []StreamInv)`, for `ExactContinuation`, `WholeRunsUsable` and `RebuildChangesNothing`. No two runs are
  compared: a seed and its world determine one stream `S`, after each tick the next order index and the event that last touched each entity, and every complete
  run, and every child about to be stored, `Follows` it. The stream reaches as far as the run furthest ahead and is
  lengthened by the step that goes further, so that it exists is part of the invariant, and neither recursion nor an induction over ticks
  is needed. `WasAt` says what a replay up to a tick gives of a run's own events: the stream's view, order numbers without a gap from
  where the run began, and no reference that is neither the run's own nor anchored. That a child is such a run (`ChildFollows`) is the
  heart of it: its genesis stands for all that its ancestors did, at whatever tick it was cut off.
- From it and `LineageInv` follow `ContinuationCorrect`, `UsableCorrect` and `RebuildCorrect`. `Seeded` is two facts of the code: every scenario spawns something, and
  `create_run` draws its ids apart from those of forks (`run-<uuid>` and `run-fork-<hash>`). TLC checked
  `StreamInv` on the instance `Forks` before it was proved.

`ConsoleProofs`, for any number of runs, entities, ticks and requests, from `ConsoleAssumption` and `NoneAssumption`
(`None` is no run, entity or number, and none of the records it may stand in the place of):

- `ConsoleInvariance`: `Spec => []ConsoleInv` with `ConsoleInv == ConsoleTypeOK /\ ProjInv /\ AutoInv /\ OneIteration`.
- `ProjInv`: a projection in flight is of the run, person and tick now drawn, which the cleanup of the effect
  sees to: without it `AcceptedProjectionFits` says nothing of a request made three handlers ago.
  `AutoInv`: the interval is set up exactly for the run under the controls while it plays, and only steps and
  refreshes belong to autoplay.
- From it `ConsoleTypeCorrect`, `OneIterationCorrect`, and the action properties `AcceptedProjectionCorrect` and
  `AutoplayCorrect`. One lemma per action shows `Step`: the invariant afterwards and both action
  properties of the step. `FetchProjectionLemma`, `ReleasedLemma` and `UserAsks` are what several actions share.

`PageProofs`, of the screen and of the dialogs, each by itself (`ScreenSpec`, `DialogSpec`; in `MCFrontend` they share no state):

- `AlarmsCorrect`: `AlarmsAgree` for any strip length and any worlds, if `Documents`: finitely many entities, ids of their own, and the needs they
  have are whole numbers. An alarm is a computation, so the work is in the operators: `StatusIsWorst` (the CHOOSE of `EntityStatus` finds the
  worst level), `BeforeOrders` (status and id order the entities strictly and totally), and `StripFull`: when somebody is left out, exactly `StripLength` are in. That is
  shown without induction: the number of those ahead is an injection of the living into `0..n-1`, hence onto it, so every place of the strip is taken.
- `TokensCorrect`: `OnlyKnownLeaks` for any entities, if `Explained`: the explanation of an event has the tokens that the server writes into those of its type
  (`Carried`, with the lines), and that of a decision which names no goal those that `sanitizeSimpleProse` knows. Of the steps of people nothing is assumed but for gifts:
  where the note on a decision is (`people_domain.py:121-138`), the explanation is not shown, as each type of step but `give_food` has a sentence
  of its own, and a decision with a goal is told by the goal.
- `ClicksCorrect`: `ClickSelects` if everything has a place. The run `DeadClick` shows that it is false otherwise; the theorem, that
  nothing else is the cause.
- Of the dialogs, for any runs, responses and number of calls in flight, `DialogInv` adds to `LatestLoadWins` that only the newest load is not
  cancelled, and only while the dialog says it is loading (`OneLive`), that `creating` is set while a creation is in flight, of
  which there is one (`CreatingInv`), and that what is chosen is listed (`ChosenInv`). From it `LatestLoadCorrect` and
  `OneCreateCorrect`. No type of a response is needed: the proof asks of a call only that it is one.

`FoodProofs`, for any people, places, worlds, actions and bounds, from `FoodAssumption` and `NoneAssumption`:

- `FoodInvariance`: `Spec => []FoodInv`. To `FoodTypeOK` and `OneActive` it adds what lets a proposal of the pinned view be judged by the
  current world: nobody comes to life, and only a person's own action changes whether hunger is critical (`ViewInv`); a carcass
  that does not decay is that of the view until somebody has claimed it (`CarcassInv`). `ActionValid` asks only that the person's own meat is as it was, so without
  the first an action would write an outdated hunger back, and without the second two gatherers would take the same unit.
- From it `FoodTypeCorrect`, `OneActiveCorrect`, and `FoodRefinesLedger`: every decided proposal is a step of `FoodLedger` or none. A fulfilment and a
  `give` map to `Give`, eating to `Eat`, every other action, gathering included, to `Harvest` (mostly of nothing). One lemma per kind of proposal shows `Step`: the
  invariant afterwards, the ledger's step and `GatheredOff`; `LedgerGives`, `LedgerHarvests` and `LedgerEats` say when a change of the world is one.
- The refinement assumes `Undisturbed`: nothing decays or nobody gathers. It cannot be dropped, as the run `LostDecay` shows; `GatherWithoutDecay`
  is that run's property under `Decay = 0`.

Only model-checked: liveness (of which `RequestsHurry`, `ToolsHurry`, `LeaseAccounted` and `RebuildsAccounted` prove the safety halves) and `ENABLED`, `PanelConverges` of `Panels` included, which states nothing else. Every safety property of a
passing run is a theorem. What a recursive computation yields for every input is out
of the prover's reach; the modules proved about use no recursion.

## 5. Not modelled

Server: animals, goals and perception, memory and trust, replay tools, history, world
generation. Page: the panels of determinism and interventions and the provenance section (they ask when a button is pressed and print the
answer), the tables of Diagnostics, the overlay's switches, help. The reasons are in PROJECT.json, and hazards
without a property are listed there with theirs. `GET /state` reads head and entities separately (`routes.py:169-172`), so
a page may be given the tick of one and the entities of the next; `Console` takes a snapshot as one read.

## 6. Findings

- `StaleView`: `step_run` loads the entities before the head it compares; a tick committed in between
  passes the compare-and-set and is missing from the next projection and frame hash.
- `Overlap`: an intervention overlapping a step leaves a frame whose hash its events do not give.
- `LostDecay`: a gather of the same tick overwrites the decay of its target.
- `DeadClick`: from the first food interaction of a run on, clicks on the canvas throw, because the interaction's
  document has no position.

Six more are stated in the modules and not among the runs. They are reproduced with the constants given.

- A commit between the four reads of the integrity inspection makes a healthy run be refused as corrupt: `HealthyNotRefused` in `MCTickStore`,
  two `Steppers`, `MaxTick` 2, `MaxRequest` 1, `MaxAttempts` 2.
- A durable frame whose acknowledgement was lost is reported as lost once the head has moved on:
  `ResolvedFrameAcknowledged`, the same constants.
- An accepted interaction outlives the maintenance of a tick, because an invalidation is refused when the
  reason differs from that of the pinned view: `NoneStranded` in `MCFood`, two `Persons`, `Places` {1, 2}, `Acts` {"rest", "move"},
  `Expiry` 2, `Yield` 1, `Meat` 2, `MaxInter` 1, `Decay` and `Stock` 0.
- The inspection lets a run at tick 0 pass without any frame (`frame_transaction.py:345`), so a run whose creation died before its
  genesis frame is stepped; `verify_replay`, which wants a frame for every tick (`replay_service.py:194-198`), then fails for ever, and the run cannot be forked at
  tick 0: `EveryTickHasFrame` in `MCLineage`, one root, one slot and branch, `MaxTick` 2, `MaxChildren` 1.
- After another person is selected, the canvas shades the map by what the first one knows, until a projection of the
  second arrives that is of the tick drawn (`App.js:54-67`, `worldOverlay.js:11-16`; `worldOverlay.test.js:23` says "selected person uses only that observer knowledge"):
  `OverlayOwnKnowledge` in `MCConsole` under `Spec`, one run, two persons, `MaxTick` 1, two slots.
- An intervention that died after inserting its event makes every step refuse the run, but not the next intervention. That one writes an event with
  the same `order_index` (`ix_run_event_boundary` of `core/db.py:28-31` is not unique, and event ids contain a content hash, `commit_pipeline.py:250`), and a head, a frame and a projection that
  agree again: steps commit from then on, on a run that `verify_replay` no longer finds faithful. `TornStaysVisible` in `MCServer` under `ServerSpec`, `MaxInter` 2, the rest as in `Server.cfg`.

Smaller ones met on the way, all in the presentation. Diagnostics paints the bars of energy and health red when they are
*high* (`EntityInspector.jsx:18`), and `NeedSeverity` puts the health of every animal among the critical, as animals have
less of it than people. `sanitizeSimpleProse`, which is to "remove coordinate object dumps and enum-ish tokens for Simple View prose" (`presentation.js:176`), strips the
assignments of five fields and knows most goals; the feed still shows `age=` and `stage=` of every `lifecycle_tick`, `influence=` and the place of an intervention, `GIVE_FOOD`, `score=` and
`travel=` of a gift, and the reason code of a stranded interaction (`food_interaction.lost_supply`, say).
`AlarmsAgree` leaves the first two out, and `Leaks` of `Screen` lists the others. Two of the server. `rebuild_run.py:145` says "Leave quarantined on failure" and `:156` prints
"run quarantined", which is so only if the release of the `except` branch succeeds: else the run stays under maintenance, and after a success record that
failed it stays paused and healthy, as the lease was given back before. And the comment on
`DuplicateKeyError` (`run_service.py:763`) takes the winner for an identical request; it may be the fork of a twin, or one of other expectations, and then
the repeat ends in a conflict, which is right.

## 7. Plan

1. `Hunting`: hunters, an animal and its carcasses, gathering of trees with regrowth: one strike lost when two fall in one tick, one harvest per target and tick, no more meat than there was.
2. `Lineage` beside interventions, which append to a tick that was forked already: the fork keeps what was so at the tick it names, which the stream of the seed no longer is.
3. `Plans`: plan, travel, interruption and resumption of one person against a moving world; every plan ends.
4. `Memory`: merging and evicting facts and the trust scores as functions, checked against a definition over bounded inputs; idempotence of the merge.
5. Proofs of what those modules add; the reads of `Console` and the drawing operators of `Overlay`, which no property states yet.
