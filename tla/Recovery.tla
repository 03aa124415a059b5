------------------------------ MODULE Recovery ------------------------------
(***************************************************************************)
(* tools/rebuild_run.py beside the step requests: an operator takes the    *)
(* maintenance lease of a run, rebuilds its entity projection from the     *)
(* accepted events and gives the lease back, or quarantines the run.  The  *)
(* tool is a process of its own, it shares only the database with the      *)
(* server, and it may die between any two calls.                           *)
(***************************************************************************)
EXTENDS TickStore

CONSTANTS Operators,  \* terminals in which the tool is run
          MaxOps,     \* bound: invocations of the tool
          MaxDamage   \* bound: entity documents lost

ASSUME RecoveryAssumption == MaxOps \in Nat /\ MaxDamage \in Nat

VARIABLES tool,     \* the invocation each operator runs
          ops,      \* invocations so far; an operation_id is its number
          records,  \* recovery_records
          damage    \* entity documents lost so far

recVars == <<tool, ops, records, damage>>
allVars == <<vars, recVars>>

ToolPoints == {"idle", "readFrame", "acquireRead", "acquire", "readEvents",
               "swap", "releaseRead", "release", "record", "dead", "raised", "warned"}

\* No invocation runs, or it ended: killed, by an exception that nothing caught, or
\* with a release that failed on its way.  What the last three left their terminal
\* keeps showing, so it is not used again.
Ended == {"idle", "dead", "raised", "warned"}

\* op: operation_id; expected, tick: of the frame to rebuild against; rev: the
\* revision of the last head read; rebuilt: the projection the events give;
\* failed: the except branch was entered; warned: its release failed.
Invocation ==
    [pc : ToolPoints, op : Nat, expected : Hash, tick : Nat,
     rev : Nat, rebuilt : View, failed : BOOLEAN, warned : BOOLEAN]

NoInvocation ==
    [pc |-> "idle", op |-> 0, expected |-> GenesisHash, tick |-> 0, rev |-> 0,
     rebuilt |-> GenesisView, failed |-> FALSE, warned |-> FALSE]

Record == [op : Nat, result : {"success", "failed"}]

RecInit ==
    /\ Init
    /\ tool = [o \in Operators |-> NoInvocation]
    /\ ops = 0
    /\ records = {}
    /\ damage = 0

ToolAt(o, pc) == tool[o].pc = pc
ToolGoto(o, i, pc) == tool' = [tool EXCEPT ![o] = [i EXCEPT !.pc = pc]]
Exit(o) == tool' = [tool EXCEPT ![o] = NoInvocation]

\* The traceback of an exception that nothing caught.
Raise(o) == ToolGoto(o, [NoInvocation EXCEPT !.op = tool[o].op], "raised")

\* Mutant: on failure the tool just ends.
FailWithoutRelease(o) == Exit(o)

\* The except branch: give the lease back with the run quarantined.
Fail(o) == ToolGoto(o, [tool[o] EXCEPT !.failed = TRUE], "releaseRead")

\* write_recovery_record, insert only.
Report(o, result) == records' = records \cup {[op |-> tool[o].op, result |-> result]}

\* recovery_id is unique, and drawn once in an invocation.
Unrecorded(o) == \A r \in records : r.op # tool[o].op

\* Mutant: the record of a failure gets an id of its own.
ReportFailureAnew(o) ==
    /\ Report(o, "failed")
    /\ IF tool[o].warned THEN ToolGoto(o, tool[o], "warned") ELSE Exit(o)

\* The record of a failure ends the tool.  Nothing guards its insert: a database
\* error or a record that is there already is raised, and the insert an error is
\* raised of may be durable.
ReportFailure(o) ==
    \/ /\ Unrecorded(o)
       /\ Report(o, "failed")
       /\ \/ ~tool[o].warned /\ Exit(o)
          \/ tool[o].warned /\ ToolGoto(o, tool[o], "warned")
          \/ Raise(o)
    \/ UNCHANGED records /\ Raise(o)

----------------------------------------------------------------------------
\* rebuild_run._run

\* get_run.  A run neither paused nor quarantined is left alone without --force;
\* with --force the tool goes on in any status, so the status is no guard here.
StartTool(o) ==
    /\ ToolAt(o, "idle")
    /\ ops < MaxOps
    /\ ops' = ops + 1
    /\ ToolGoto(o, [NoInvocation EXCEPT !.op = ops + 1], "readFrame")
    /\ UNCHANGED <<vars, records, damage>>

\* The frame to rebuild against, read before the lease is held.
ReadFrame(o) ==
    /\ ToolAt(o, "readFrame")
    /\ ToolGoto(o, [tool[o] EXCEPT !.expected = frames[LatestTick].end,
                                   !.tick = LatestTick], "acquireRead")
    /\ UNCHANGED <<vars, ops, records, damage>>

\* acquire_maintenance: even --force respects a lease not marked stale, and
\* nothing marks one so.  RUN_UNDER_MAINTENANCE is recorded.
ReadForAcquire(o) ==
    /\ ToolAt(o, "acquireRead")
    /\ IF head.maint
       THEN ReportFailure(o)
       ELSE /\ ToolGoto(o, [tool[o] EXCEPT !.rev = head.rev], "acquire")
            /\ UNCHANGED records
    /\ UNCHANGED <<vars, ops, damage>>

\* Mutant: the head is written without comparing.
LeaseTaken(o) == TRUE

\* Its compare-and-set.  (With --force the filter does not ask for a free lease,
\* but a lease taken since the read has moved head_revision.)
LeaseFree(o) == head.rev = tool[o].rev /\ ~head.maint

TakeLease(o) ==
    /\ LeaseFree(o)
    /\ head' = [head EXCEPT !.maint = TRUE, !.op = tool[o].op,
                            !.status = "maintenance", !.rev = @ + 1]
    /\ UNCHANGED <<world, frames, events, entities, req>>

Acquire(o) ==
    /\ ToolAt(o, "acquire")
    /\ TakeLease(o)
    /\ ToolGoto(o, tool[o], "readEvents")
    /\ UNCHANGED <<ops, records, damage>>

\* The lease is taken, the acknowledgement lost: the driver's error is none of the
\* two that _run catches, and the lease stays behind.
AcquireUnacknowledged(o) ==
    /\ ToolAt(o, "acquire")
    /\ TakeLease(o)
    /\ Raise(o)
    /\ UNCHANGED <<ops, records, damage>>

\* Nor is any other error caught of the reads and the write before the lease is
\* held; the invocation has no record.
RaiseBeforeLease(o) ==
    /\ tool[o].pc \in {"readFrame", "acquireRead", "acquire"}
    /\ Raise(o)
    /\ UNCHANGED <<vars, ops, records, damage>>

\* Mutant: the refusal is not recorded.
LoseAcquireSilently(o) ==
    /\ ToolAt(o, "acquire")
    /\ ~LeaseFree(o)
    /\ Exit(o)
    /\ UNCHANGED <<vars, ops, records, damage>>

LoseAcquire(o) ==
    /\ ToolAt(o, "acquire")
    /\ ~LeaseFree(o)
    /\ ReportFailure(o)
    /\ UNCHANGED <<vars, ops, damage>>

\* rebuild_projection_atomically, up to its transaction: all accepted events are
\* replayed and must give the hash of the frame.  It fails when they do not, and
\* when the database does.
ReadEvents(o) ==
    /\ ToolAt(o, "readEvents")
    /\ LET rebuilt == Replay(events)
       IN  \/ /\ HashOf(tool[o].tick, rebuilt) = tool[o].expected
              /\ ToolGoto(o, [tool[o] EXCEPT !.rebuilt = rebuilt], "swap")
           \/ Fail(o)
    /\ UNCHANGED <<vars, ops, records, damage>>

\* Its transaction: all entity documents are replaced while the lease is held.
Swap(o) ==
    /\ ToolAt(o, "swap")
    /\ head.op = tool[o].op
    /\ entities' = tool[o].rebuilt
    /\ \/ ToolGoto(o, tool[o], "releaseRead")
       \/ Fail(o)  \* durable, but the acknowledgement is lost
    /\ UNCHANGED <<world, head, frames, events, req, ops, records, damage>>

\* The transaction aborts; the tool does not retry it.
AbortSwap(o) ==
    /\ ToolAt(o, "swap")
    /\ Fail(o)
    /\ UNCHANGED <<vars, ops, records, damage>>

\* release_maintenance raises: the first time the except branch gives the lease back
\* again; there it is only warned about.
ReleaseRaises(o) ==
    IF tool[o].failed THEN ToolGoto(o, [tool[o] EXCEPT !.warned = TRUE], "record")
                      ELSE Fail(o)

\* It reads the head and checks that the lease is its own.
ReadForRelease(o) ==
    /\ ToolAt(o, "releaseRead")
    /\ \/ /\ head.op = tool[o].op
          /\ ToolGoto(o, [tool[o] EXCEPT !.rev = head.rev], "release")
       \/ ReleaseRaises(o)
    /\ UNCHANGED <<vars, ops, records, damage>>

\* Mutant: the run is never quarantined.
GiveBackAsGood(o) ==
    /\ head.rev = tool[o].rev
    /\ head.op = tool[o].op
    /\ head' = [head EXCEPT !.maint = FALSE, !.op = None, !.quar = FALSE,
                            !.status = "paused", !.rev = @ + 1]
    /\ UNCHANGED <<world, frames, events, entities, req>>

\* Its compare-and-set.
GiveBack(o) ==
    /\ head.rev = tool[o].rev
    /\ head.op = tool[o].op
    /\ head' = [head EXCEPT !.maint = FALSE, !.op = None, !.quar = tool[o].failed,
                            !.status = IF tool[o].failed THEN "quarantined"
                                                         ELSE "paused",
                            !.rev = @ + 1]
    /\ UNCHANGED <<world, frames, events, entities, req>>

Release(o) ==
    /\ ToolAt(o, "release")
    /\ GiveBack(o)
    /\ ToolGoto(o, tool[o], "record")
    /\ UNCHANGED <<ops, records, damage>>

\* It matches nothing, or the driver raises, the lease given back or not.
FailRelease(o) ==
    /\ ToolAt(o, "release")
    /\ GiveBack(o) \/ UNCHANGED vars
    /\ ReleaseRaises(o)
    /\ UNCHANGED <<ops, records, damage>>

WriteRecord(o) ==
    /\ ToolAt(o, "record")
    /\ IF tool[o].failed THEN ReportFailure(o)
                         ELSE Report(o, "success") /\ Exit(o)
    /\ UNCHANGED <<vars, ops, damage>>

\* The insert of the success record raises, durable or not: the except branch runs,
\* after the lease was already given back.
FailToRecord(o) ==
    /\ ToolAt(o, "record")
    /\ ~tool[o].failed
    /\ Report(o, "success") \/ UNCHANGED records
    /\ Fail(o)
    /\ UNCHANGED <<vars, ops, damage>>

\* The tool is killed; its lease, if it held one, stays behind.
Die(o) ==
    /\ tool[o].pc \notin Ended
    /\ ToolGoto(o, [NoInvocation EXCEPT !.op = tool[o].op], "dead")
    /\ UNCHANGED <<vars, ops, records, damage>>

----------------------------------------------------------------------------
\* What the tool is for: an entity document is lost while nobody uses the run.
Damage(e) ==
    /\ damage < MaxDamage
    /\ ~head.maint
    /\ \A s \in Steppers : At(s, "idle")
    /\ \A o \in Operators : tool[o].pc \in Ended
    /\ damage' = damage + 1
    /\ entities' = [entities EXCEPT ![e] = {}]
    /\ UNCHANGED <<world, head, frames, events, req, tool, ops, records>>

ContinueTool(o) ==
    \/ ReadFrame(o) \/ ReadForAcquire(o) \/ Acquire(o) \/ AcquireUnacknowledged(o)
    \/ RaiseBeforeLease(o) \/ LoseAcquire(o) \/ ReadEvents(o) \/ Swap(o) \/ AbortSwap(o)
    \/ ReadForRelease(o) \/ Release(o) \/ FailRelease(o) \/ WriteRecord(o)
    \/ FailToRecord(o)

RecNext ==
    \/ Next /\ UNCHANGED recVars
    \/ \E o \in Operators :
         \/ StartTool(o)
         \/ ContinueTool(o)
         \/ Die(o)
    \/ \E e \in Entities : Damage(e)

RecSpec == RecInit /\ [][RecNext]_allVars

\* A running tool goes on until it is killed, a suspended request is resumed.
RecFairSpec ==
    /\ RecSpec
    /\ \A s \in Steppers : WF_vars(Continue(s))
    /\ \A o \in Operators : WF_allVars(ContinueTool(o))

----------------------------------------------------------------------------
\* Properties

\* The recovery documents and the tool's variables have their types.
RecTypeOK ==
    /\ TypeOK
    /\ tool \in [Operators -> Invocation]
    /\ ops \in 0..MaxOps
    /\ records \in SUBSET Record
    /\ damage \in 0..MaxDamage

\* A tool that rebuilds holds the lease, so no two do, and the head it read to
\* give the lease back is still the head (release_maintenance cannot lose).
LeaseHeld ==
    /\ \A o \in Operators : tool[o].pc \in {"readEvents", "swap", "release"} =>
         head.maint /\ head.op = tool[o].op
    /\ \A o \in Operators : ToolAt(o, "release") => head.rev = tool[o].rev

\* While the lease is held no frame is committed, the lease changes hands only
\* by being given back, and only its holder writes entities.
LeaseProtects ==
    [][head.maint =>
         /\ UNCHANGED <<frames, events>>
         /\ head'.maint => head'.op = head.op /\ head'.rev = head.rev
         /\ entities' # entities =>
              \E o \in Operators : ToolAt(o, "swap") /\ tool[o].op = head.op]_allVars

\* A run given back without quarantine has the projection its events and its
\* head's hash say, whatever was lost before and whoever stepped the run between
\* the tool's reads.
ReleasedFaithful ==
    [][(head.maint /\ ~head'.maint /\ ~head'.quar) => ProjectionFaithful]_allVars

\* recovery_records never holds two verdicts on one invocation, although the insert
\* of a success may be durable and raise, which sends the tool into the branch that
\* records a failure.
OneVerdict ==
    \A a, b \in records : a.op = b.op => a = b

\* A tool that left its lease behind shows it: a lease is given back, unless its
\* holder was killed, ended by an exception or warned that its release failed (then
\* nothing ends the lease: maintenance_stale is never set).
LeaseGivenBack ==
    head.maint ~>
        \/ ~head.maint
        \/ \E o \in Operators : tool[o].pc \in Ended \ {"idle"} /\ tool[o].op = head.op

\* Every invocation leaves its verdict in recovery_records, unless it was killed or
\* ended by an exception; one whose release failed leaves it too.
EveryRebuildRecorded ==
    \A n \in 1..MaxOps :
        (ops >= n) ~> \/ \E r \in records : r.op = n
                      \/ \E o \in Operators : tool[o].pc \in {"dead", "raised"}
                                              /\ tool[o].op = n
=============================================================================
