---------------------------- MODULE Intervention ----------------------------
(***************************************************************************)
(* api_submit_intervention (api/routes.py) beside the step requests and    *)
(* the rebuild tool.  An intervention commits one exogenous proposal at    *)
(* the run's current tick in five separate writes: no transaction, no      *)
(* compare-and-set, no look at the maintenance and quarantine flags.       *)
(***************************************************************************)
EXTENDS Recovery

CONSTANTS Users,    \* clients that intervene
          MaxInter, \* bound: interventions
          Overlap   \* may interventions overlap other calls on the run?

ASSUME InterventionAssumption == MaxInter \in Nat /\ Overlap \in BOOLEAN

VARIABLES inter,  \* the intervention each user's request is carrying out
          asked,  \* interventions so far
          torn    \* interventions asked for when the first one died between its
                  \* first and its last write; 0 while none has

interVars == <<inter, asked, torn>>
serverVars == <<allVars, interVars>>

InterPoints == {"idle", "load", "propose", "insertEvents", "saveEntities",
                "updateHead", "syncFrame"}

\* run: the head as first read; view: the entities after the commit frame;
\* evts: its accepted events; end, next: what the head and the frame will say.
Submission == [pc : InterPoints, run : RunHead, view : View, evts : SUBSET Event,
               end : Hash, next : Nat]

NoSubmission == [pc |-> "idle", run |-> GenesisHead, view |-> GenesisView,
                 evts |-> {}, end |-> GenesisHash, next |-> 1]

InterInit ==
    /\ RecInit
    /\ inter = [u \in Users |-> NoSubmission]
    /\ asked = 0
    /\ torn = 0

InterAt(u, pc) == inter[u].pc = pc
InterGoto(u, i, pc) == inter' = [inter EXCEPT ![u] = [i EXCEPT !.pc = pc]]

\* Nobody else is using the run.
RunUnused ==
    /\ \A s \in Steppers : At(s, "idle")
    /\ \A o \in Operators : tool[o].pc \in Ended
    /\ \A u \in Users : InterAt(u, "idle")

----------------------------------------------------------------------------
\* get_run
Submit(u) ==
    /\ InterAt(u, "idle")
    /\ asked < MaxInter
    /\ Overlap \/ RunUnused
    /\ asked' = asked + 1
    /\ InterGoto(u, [NoSubmission EXCEPT !.run = head], "load")
    /\ UNCHANGED <<allVars, torn>>

LoadForInter(u) ==
    /\ InterAt(u, "load")
    /\ InterGoto(u, [inter[u] EXCEPT !.view = entities], "propose")
    /\ UNCHANGED <<allVars, asked, torn>>

\* build_intervention_proposal has nothing to propose: 400.
RefuseInter(u) ==
    /\ InterAt(u, "propose")
    /\ inter' = [inter EXCEPT ![u] = NoSubmission]
    /\ UNCHANGED <<allVars, asked, torn>>

\* run_commit_frame with the one proposal, on the entities read, at the tick
\* read: accepted (touching one entity) or rejected.
AcceptInter(u) ==
    /\ InterAt(u, "propose")
    /\ \E e \in Entities :
         LET run   == inter[u].run
             evts  == {[tick |-> run.tick, order |-> run.order, touched |-> {e}]}
             after == Apply(inter[u].view, evts)
         IN  InterGoto(u, [inter[u] EXCEPT !.view = after, !.evts = evts,
                               !.end = HashOf(run.tick, after),
                               !.next = run.order + 1], "insertEvents")
    /\ UNCHANGED <<allVars, asked, torn>>

\* Rejected: the head and the frame are still written, with what was read.
RejectInter(u) ==
    /\ InterAt(u, "propose")
    /\ InterGoto(u, [inter[u] EXCEPT !.end = inter[u].run.hash,
                                     !.next = inter[u].run.order], "insertEvents")
    /\ UNCHANGED <<allVars, asked, torn>>

InsertEvents(u) ==
    /\ InterAt(u, "insertEvents")
    /\ events' = events \cup inter[u].evts
    /\ InterGoto(u, inter[u], "saveEntities")
    /\ UNCHANGED <<world, head, frames, entities, req, recVars, asked, torn>>

\* Mutant: the touched entities are not saved.
SaveNothing(u) ==
    /\ InterAt(u, "saveEntities")
    /\ InterGoto(u, inter[u], "updateHead")
    /\ UNCHANGED <<allVars, asked, torn>>

\* save_entities_delta
SaveEntities(u) ==
    /\ InterAt(u, "saveEntities")
    /\ entities' = [e \in Entities |->
                      IF \E ev \in inter[u].evts : e \in ev.touched
                      THEN inter[u].view[e] ELSE entities[e]]
    /\ InterGoto(u, inter[u], "updateHead")
    /\ UNCHANGED <<world, head, frames, events, req, recVars, asked, torn>>

\* Mutant: next_order_index is left alone.
UpdateHeadSameOrder(u) ==
    /\ InterAt(u, "updateHead")
    /\ head' = [head EXCEPT !.hash = inter[u].end]
    /\ InterGoto(u, inter[u], "syncFrame")
    /\ UNCHANGED <<world, frames, events, entities, req, recVars, asked, torn>>

\* By run id alone, whatever the head has become.
UpdateHead(u) ==
    /\ InterAt(u, "updateHead")
    /\ head' = [head EXCEPT !.hash = inter[u].end, !.order = inter[u].next]
    /\ InterGoto(u, inter[u], "syncFrame")
    /\ UNCHANGED <<world, frames, events, entities, req, recVars, asked, torn>>

\* Mutant: the frame document keeps its hash.
SyncNothing(u) ==
    /\ InterAt(u, "syncFrame")
    /\ inter' = [inter EXCEPT ![u] = NoSubmission]
    /\ UNCHANGED <<allVars, asked, torn>>

SyncFrame(u) ==
    /\ InterAt(u, "syncFrame")
    /\ frames' = [frames EXCEPT ![inter[u].run.tick].end = inter[u].end]
    /\ inter' = [inter EXCEPT ![u] = NoSubmission]
    /\ UNCHANGED <<world, head, events, entities, req, recVars, asked, torn>>

\* The server dies, or one of the writes fails: what was written stays.
CrashInter(u) ==
    /\ ~InterAt(u, "idle")
    /\ torn' = IF torn = 0 /\ inter[u].pc \in {"saveEntities", "updateHead", "syncFrame"}
               THEN asked ELSE torn
    /\ inter' = [inter EXCEPT ![u] = NoSubmission]
    /\ UNCHANGED <<allVars, asked>>

ContinueInter(u) ==
    \/ LoadForInter(u) \/ RefuseInter(u) \/ AcceptInter(u) \/ RejectInter(u)
    \/ InsertEvents(u) \/ SaveEntities(u) \/ UpdateHead(u) \/ SyncFrame(u)

\* Without Overlap, nothing else happens to the run during an intervention.
ServerNext ==
    \/ /\ Overlap \/ \A u \in Users : InterAt(u, "idle")
       /\ RecNext
       /\ UNCHANGED interVars
    \/ \E u \in Users : Submit(u) \/ ContinueInter(u) \/ CrashInter(u)

ServerSpec == InterInit /\ [][ServerNext]_serverVars

ServerFairSpec ==
    /\ ServerSpec
    /\ \A s \in Steppers : WF_vars(Continue(s))
    /\ \A o \in Operators : WF_allVars(ContinueTool(o))
    /\ \A u \in Users : WF_serverVars(ContinueInter(u))

----------------------------------------------------------------------------
\* Properties

\* The documents, the tool's variables and the submissions have their types.
ServerTypeOK ==
    /\ RecTypeOK
    /\ inter \in [Users -> Submission]
    /\ asked \in 0..MaxInter
    /\ torn \in 0..asked

\* No intervention is under way, and none was left half done.
Settled == torn = 0 /\ \A u \in Users : InterAt(u, "idle")

\* Between interventions the head, the newest frame and the order indexes agree,
\* although an intervention writes them one after the other.
HeadInSync ==
    Settled => /\ head.hash = frames[head.tick].end
               /\ {ev.order : ev \in events} = 0..(head.order - 1)

\* Between interventions, the events up to every frame give the hash it ends in.
ReplayInSync == Settled => ReplayFaithful

\* Between interventions, the projection is what the events and the head say.
ProjectionInSync == Settled => ProjectionFaithful

\* An intervention that dies half way is not built upon: every later step is
\* refused by the inspection, so a frame is only committed on a run whose events,
\* projection, frames and head agree, as long as nobody intervenes again.
CommitsFailClosed ==
    [][head'.tick # head.tick => StoreConsistent \/ torn \notin {0, asked}]_serverVars

\* The same however often clients intervene.  The code does not give it: the next
\* intervention writes a head, a frame and an order index that agree again, and the
\* torn one's event, which no document reflects, is never looked at (order_index has
\* no unique index).
TornStaysVisible ==
    [][head'.tick # head.tick => StoreConsistent]_serverVars
=============================================================================
