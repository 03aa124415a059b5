------------------------------- MODULE Dialogs -------------------------------
(* The dialogs that bring a run under the controls: NewRunModal (with          *)
(* lib/scenariosApi.js), LoadRunModal, and the flags of App.js that open them. *)
(* Both stay mounted while they are closed, so their state survives, and a     *)
(* call that was begun ends whether or not its dialog is still open.           *)
EXTENDS Naturals, Sequences

CONSTANTS
    DialogRuns,    \* runs that may be listed, loaded or created
    Responses,     \* what GET /scenarios may return
    Calls,         \* bound: calls in flight
    Absent

ASSUME DialogAssumption == Absent \notin DialogRuns \cup Calls

VARIABLES
    showNew, showLoad,   \* App: showNewRunModal, showLoadRunModal
    current,             \* App: run
    scenarios,           \* NewRunModal: the ids of the options, in order
    scenarioId, loadError, loadingScenarios, creating,
    runs,                \* LoadRunModal: the runs listed
    listing,             \* LoadRunModal: loading
    loadingRunId,
    call,                \* calls in flight, with live: not cancelled
    newest,              \* history: the last load of scenarios begun,
    fresh                \* and whether what is listed came from it

newVars == <<scenarios, scenarioId, loadError, loadingScenarios, creating, newest, fresh>>
loadVars == <<runs, listing, loadingRunId>>
dialogVars == <<showNew, showLoad, current, newVars, loadVars, call>>

-----------------------------------------------------------------------------
\* Calls.

Call(kind, of) == [kind |-> kind, of |-> of, live |-> TRUE]
NoCall == Call("none", Absent)
FreeCalls(c) == {i \in Calls : c[i] = NoCall}
Is(i, kind) == call[i].kind = kind
Done(c, i) == [c EXCEPT ![i] = NoCall]

\* Mutant: a load in flight is not cancelled.
CancelNoLoad(c) == c

\* cancelLoadRef.current()
CancelLoad(c) ==
    [i \in Calls |-> IF c[i].kind = "scenarios" THEN [c[i] EXCEPT !.live = FALSE] ELSE c[i]]

-----------------------------------------------------------------------------
\* normalizeScenariosResponse.  A response is Absent when it is no object with
\* scenarios, and these are Absent when they are no array; the id of an entry is
\* Absent when it has no id or no name.

Usable(id) == id # Absent
Normalize(response) ==
    IF response = Absent THEN [scenarios |-> <<>>, error |-> TRUE]
    ELSE IF response.scenarios = Absent THEN [scenarios |-> <<>>, error |-> TRUE]
    ELSE LET list == SelectSeq(response.scenarios, Usable) IN
         [scenarios |-> list, error |-> list = <<>>]

Ids(list) == {list[i] : i \in DOMAIN list}

\* The choice is kept if it is still there.
Chosen(list, id) ==
    IF id \in Ids(list) THEN id ELSE IF 1 \in DOMAIN list THEN list[1] ELSE Absent

CanCreate == scenarioId # Absent /\ scenarios # <<>> /\ ~loadingScenarios /\ ~creating

-----------------------------------------------------------------------------
\* Every load but the one now begun is cancelled.  c: the calls it joins.
LoadScenarios(c) ==
    \E i \in FreeCalls(c) :
        /\ call' = [CancelLoad(c) EXCEPT ![i] = Call("scenarios", Absent)]
        /\ newest' = i /\ fresh' = FALSE
        /\ loadingScenarios' = TRUE /\ loadError' = FALSE
        /\ UNCHANGED <<scenarios, scenarioId, creating>>

RefreshRuns ==
    \E i \in FreeCalls(call) :
        /\ call' = [call EXCEPT ![i] = Call("list", Absent)]
        /\ listing' = TRUE
        /\ UNCHANGED <<runs, loadingRunId>>

DialogInit ==
    /\ showNew = TRUE /\ showLoad = FALSE /\ current = Absent
    /\ scenarios = <<>> /\ scenarioId = Absent /\ loadError = FALSE
    /\ loadingScenarios = TRUE /\ creating = FALSE
    /\ runs = {} /\ listing = FALSE /\ loadingRunId = Absent
    /\ \E i \in Calls :
        /\ newest = i
        /\ call = [j \in Calls |-> IF j = i THEN Call("scenarios", Absent) ELSE NoCall]
    /\ fresh = FALSE

\* The user.

OpenNew ==
    /\ ~showNew /\ showNew' = TRUE
    /\ LoadScenarios(call)
    /\ UNCHANGED <<showLoad, current, loadVars>>

\* Mutant: a dialog that is closed forgets that it is creating a run.
CloseNewForgets ==
    /\ showNew /\ showNew' = FALSE
    /\ call' = CancelLoad(call) /\ creating' = FALSE
    /\ UNCHANGED <<showLoad, current, scenarios, scenarioId, loadError, loadingScenarios,
                   newest, fresh, loadVars>>

CloseNew ==
    /\ showNew /\ showNew' = FALSE
    /\ call' = CancelLoad(call)
    /\ UNCHANGED <<showLoad, current, newVars, loadVars>>

RetryScenarios ==
    /\ showNew /\ loadError
    /\ LoadScenarios(call)
    /\ UNCHANGED <<showNew, showLoad, current, loadVars>>

PickScenario(id) ==
    /\ showNew /\ ~loadingScenarios
    /\ scenarioId' = id
    /\ UNCHANGED <<showNew, showLoad, current, scenarios, loadError, loadingScenarios,
                   creating, newest, fresh, loadVars, call>>

HandleCreate ==
    /\ showNew /\ CanCreate
    /\ creating' = TRUE
    /\ \E i \in FreeCalls(call) : call' = [call EXCEPT ![i] = Call("create", scenarioId)]
    /\ UNCHANGED <<showNew, showLoad, current, scenarios, scenarioId, loadError,
                   loadingScenarios, newest, fresh, loadVars>>

OpenLoad ==
    /\ ~showLoad /\ showLoad' = TRUE
    /\ RefreshRuns
    /\ UNCHANGED <<showNew, current, newVars>>

CloseLoad ==
    /\ showLoad /\ showLoad' = FALSE
    /\ UNCHANGED <<showNew, current, newVars, loadVars, call>>

ClickRefresh ==
    /\ showLoad
    /\ RefreshRuns
    /\ UNCHANGED <<showNew, showLoad, current, newVars>>

HandleLoad(r) ==
    /\ showLoad /\ r \in runs /\ loadingRunId # r
    /\ loadingRunId' = r
    /\ \E i \in FreeCalls(call) : call' = [call EXCEPT ![i] = Call("get", r)]
    /\ UNCHANGED <<showNew, showLoad, current, newVars, runs, listing>>

-----------------------------------------------------------------------------
\* Answers.  A load that was cancelled changes nothing.

ScenariosArrive(i, response) ==
    /\ Is(i, "scenarios")
    /\ call' = Done(call, i)
    /\ IF call[i].live
       THEN LET told == Normalize(response) IN
            /\ scenarios' = told.scenarios /\ loadError' = told.error
            /\ scenarioId' = Chosen(told.scenarios, scenarioId)
            /\ loadingScenarios' = FALSE
            /\ fresh' = (i = newest)
       ELSE UNCHANGED <<scenarios, scenarioId, loadError, loadingScenarios, fresh>>
    /\ UNCHANGED <<showNew, showLoad, current, creating, newest, loadVars>>

\* handleRunReady, of a dialog's call i.
RunReady(i, r) ==
    /\ current' = r /\ showNew' = FALSE /\ showLoad' = FALSE
    /\ call' = CancelLoad(Done(call, i))

Created(i, r) ==
    /\ Is(i, "create")
    /\ RunReady(i, r)
    /\ creating' = FALSE
    /\ UNCHANGED <<scenarios, scenarioId, loadError, loadingScenarios, newest, fresh, loadVars>>

Loaded(i) ==
    /\ Is(i, "get")
    /\ RunReady(i, call[i].of)
    /\ loadingRunId' = Absent
    /\ UNCHANGED <<newVars, runs, listing>>

Listed(i, rs) ==
    /\ Is(i, "list")
    /\ call' = Done(call, i)
    /\ runs' = rs /\ listing' = FALSE
    /\ UNCHANGED <<showNew, showLoad, current, newVars, loadingRunId>>

\* A call fails: the catch and finally of its handler.
ScenariosFail(i) ==
    /\ Is(i, "scenarios")
    /\ call' = Done(call, i)
    /\ IF call[i].live
       THEN /\ scenarios' = <<>> /\ scenarioId' = Absent /\ loadError' = TRUE
            /\ loadingScenarios' = FALSE
            /\ fresh' = (i = newest)
       ELSE UNCHANGED <<scenarios, scenarioId, loadError, loadingScenarios, fresh>>
    /\ UNCHANGED <<showNew, showLoad, current, creating, newest, loadVars>>

OtherFails(i) ==
    /\ ~Is(i, "none") /\ ~Is(i, "scenarios")
    /\ call' = Done(call, i)
    /\ creating' = (creating /\ ~Is(i, "create"))
    /\ loadingRunId' = IF Is(i, "get") THEN Absent ELSE loadingRunId
    /\ listing' = (listing /\ ~Is(i, "list"))
    /\ UNCHANGED <<showNew, showLoad, current, scenarios, scenarioId, loadError,
                   loadingScenarios, newest, fresh, runs>>

-----------------------------------------------------------------------------
DialogNext ==
    \/ OpenNew \/ CloseNew \/ RetryScenarios \/ HandleCreate
    \/ OpenLoad \/ CloseLoad \/ ClickRefresh
    \/ \E id \in Ids(scenarios) : PickScenario(id)
    \/ \E r \in runs : HandleLoad(r)
    \/ \E i \in Calls :
        \/ \E response \in Responses : ScenariosArrive(i, response)
        \/ \E r \in DialogRuns : Created(i, r)
        \/ \E rs \in SUBSET DialogRuns : Listed(i, rs)
        \/ Loaded(i) \/ ScenariosFail(i) \/ OtherFails(i)
-----------------------------------------------------------------------------
\* Properties.

\* "only the latest response wins" (NewRunModal.jsx:18): while the dialog is open
\* it either shows what the last load brought, or says it is loading, and then that
\* load really is under way, however often it was closed, opened again or retried.
LatestLoadWins ==
    showNew => IF loadingScenarios THEN Is(newest, "scenarios") /\ call[newest].live ELSE fresh

\* No second run is created while one is being created, although the dialog may be
\* closed and opened again meanwhile; and what is created was listed when it was
\* asked for (NewRunModal.jsx:77-98).
Asked(i) == call'[i] # call[i] /\ call'[i].kind = "create"
OneCreate ==
    [][\A i \in Calls : Asked(i) =>
        /\ call'[i].of \in Ids(scenarios)
        /\ \A j \in Calls : ~Is(j, "create")]_dialogVars
=============================================================================
