--------------------------- MODULE TurnProperties ---------------------------
(***************************************************************************)
(* What the turn pipeline promises to a client of POST /turns, stated over *)
(* module SynapseTurns.  The first group holds of the code; the second     *)
(* states what the documentation or a test says and the code does not do.  *)
(***************************************************************************)
EXTENDS SynapseTurns

\* The stores and the turns in flight have the shape of the Python objects:
\* TaskContextState, PendingObservationRequest, SlotState, TurnContext.
TypeOK ==
    /\ slots \in [Sessions -> SlotStates]
    /\ tasks \in [Sessions -> TaskContexts]
    /\ requests \in [Sessions -> Requests \cup {NoRequest}]
    /\ loop \in Turns \cup {NoTurn}
    /\ pc \in [Turns -> Steps]
    /\ ctx \in [Turns -> Contexts]

----------------------------------------------------------------------------
\* Turn t takes its step `from' and goes on to `to'.
Moves(t, from, to) == pc[t] = from /\ pc'[t] = to

SlotsOf(t) == slots[ctx[t].session]

\* The plans TaskPlanBuilder builds itself, apart from resolver queries.
Built(t) ==
    \/ ctx[t].plan.kind \in {"task", "context_update", "context_clear"}
    \/ ctx[t].plan.reason = "missing_slots"

\* Whatever the recognizer makes up, whatever autofill adds and however turns
\* interleave, a session only ever holds values Sigma offers for that slot
\* (GenericSlotValidator before the commit, autofill after it).
OnlyOfferedValues ==
    \A s \in Sessions, n \in Slots : slots[s][n] \subseteq LoadedCatalog(TRUE)[n]

\* While a turn is being answered, its session holds exactly the slots the
\* answer was planned from, and the answer's slot_state_diff is the way from
\* what this turn found to them: no turn in between has changed the session.
AnswerDescribesSession ==
    \A t \in Turns :
        pc[t] \in {"save_task", "save_request"} /\ Built(t) =>
            /\ SlotsOf(t) = ctx[t].state
            /\ ctx[t].plan.changed = Changed(ctx[t].before, SlotsOf(t))

\* SlotCommitterStep reads the session, awaits the autofill policy and then
\* stores its result: nobody has stored another state in between, so no
\* turn's slots are lost.
NoLostUpdate ==
    [][\A t \in Turns : Moves(t, "write", "plan") => SlotsOf(t) = ctx[t].before]_vars

\* Post-commit autofill never overrides what the user said in this turn.
AutofillKeepsUserChoice ==
    \A t \in Turns : pc[t] = "write" =>
        \A n \in Touched(ctx[t].batch) :
            ctx[t].state[n] = Commit(ctx[t].before, ctx[t].batch)[n]

\* The answer to a pending "which data type?" question that ends in a task
\* runs it for the indicator first asked about, with a data type that was
\* offered and that the task is for.
AnswerServesTheRequest ==
    \A t \in Turns :
        pc[t] = "save_task" /\ ctx[t].drop /\ ctx[t].plan.kind = "task" =>
            /\ SlotsOf(t)["indicator_names"] = {ctx[t].request.indicator}
            /\ SlotsOf(t)["data_types"] \subseteq
                   ctx[t].request.candidates \cap TaskDomains[ctx[t].plan.task]

\* Once a turn answers context_clear, its session is as good as new: no
\* slots, no pending or active task, no pending request.
ClearForgetsTheSession ==
    [][\A t \in Turns :
         Moves(t, "save_request", "idle") /\ ctx[t].plan.kind = "context_clear" =>
            LET s == ctx[t].session
            IN  /\ slots[s] = NoSlots
                /\ tasks[s] = NoTaskContext
                /\ requests'[s] = NoRequest]_vars

\* After a turn that ends in a task nothing is left open: the task is the
\* active one, no task is pending and no data type is asked for, whatever
\* other turns had asked meanwhile (the two run_after_plan committers).
NothingOpenAfterTask ==
    [][\A t \in Turns :
         Moves(t, "save_request", "idle") /\ ctx[t].plan.kind = "task" =>
            LET s == ctx[t].session
            IN  /\ tasks[s] = [pending |-> NoTask, active |-> ctx[t].plan.task]
                /\ requests'[s] = NoRequest]_vars

\* A session without any task gets one only from a turn that names a task
\* (or an indicator that stands for one): slots alone start nothing, and a
\* task context that was cleared does not come back.  This holds of turns one
\* at a time: one that loaded the active task before another turn cleared the
\* session does bring it back, as RequestsAreAsked shows for the request.
TasksAreAsked ==
    [][\A t \in Turns :
         /\ Moves(t, "save_task", "save_request")
         /\ tasks[ctx[t].session] = NoTaskContext
         /\ tasks'[ctx[t].session] # NoTaskContext
         => AutofillTasks(ctx[t].intents) # {}]_vars

\* Turn t names task n and nothing else that bears on what the task is to
\* show: no slot operation, no other data type, no indicator.
AsksOnlyFor(t, n) ==
    /\ ActionNames(ctx[t].intents) = {n}
    /\ Touched(ctx[t].batch) = {}
    /\ Mentions[ctx[t].message] \cap (DataTypes \cup Indicators) \subseteq TaskDomains[n]

\* Sigma has data of type d at the places the session had selected, and lists
\* indicators for it, the preferred one among them if there is one.
SigmaServes(c, d) ==
    /\ InScope(RowsFor(c.dataset), Put(c.before, "data_types", d)) # {}
    /\ IndicatorsOf[d] # {}
    /\ Preferred[d] \in IndicatorsOf[d] \cup {NoValue}

\* Switching tasks: whatever tasks, data types and indicators the session had
\* before, a turn that only names a task of one data type selects that data
\* type and indicators of it and keeps the session's places; unless an
\* indicator it ends with lacks its one index, it is answered with the task.
\* It never asks back, and params_for does not fail.
SwitchedTaskRuns ==
    \A t \in Turns, n \in Tasks, d \in DataTypes :
        LET c == ctx[t]
            chosen == c.state["indicator_names"]
        IN  pc[t] = "plan" /\ AsksOnlyFor(t, n) /\ TaskDomains[n] = {d} /\ SigmaServes(c, d) =>
            /\ c.state["data_types"] = {d}
            /\ chosen # {} /\ chosen \subseteq IndicatorsOf[d]
            /\ \A p \in PlaceSlots : c.before[p] # {} => c.state[p] = c.before[p]
            /\ (\A i \in chosen : <<i, d>> \in Indexed) =>
                  PlansOf(t) = {MakePlan("task", "", n, Changed(c.before, c.state))}

\* The turn's answer lists candidates.
Lists(t) ==
    /\ pc[t] = "save_task" /\ ctx[t].plan.kind = "reply" /\ Asked(ctx[t]) # {}
    /\ ActionNames(ctx[t].intents) \cap {"clear_context", "current", "query_other"} = {}

ListingsOf(t) == Listings(ctx[t], Mentions[ctx[t].message])

\* What a query lists can be chosen: put in the session's slots, a listed
\* value (an indicator together with the data type it is listed for) is
\* offered by the catalog and leaves rows of data in scope, as autofill and
\* the task will look for them.
ListedCandidatesHaveData ==
    \A t \in Turns :
        Lists(t) /\ ("indicator_names" \in Asked(ctx[t]) => Cardinality(Asked(ctx[t])) = 1) =>
        LET c == ctx[t]
            picked == Asked(c) \cup IF "indicator_names" \in Asked(c)
                                    THEN {"data_types"} ELSE {}
        IN  \A l \in ListingsOf(t) : \A e \in l.entries :
               /\ \A s \in picked : e[s] \in LoadedCatalog(c.dataset)[s]
               /\ InScope(RowsFor(c.dataset),
                          [s \in Slots |-> IF s \in picked THEN {e[s]}
                                           ELSE c.state[s]]) # {}

\* Asking for indicators while the session is set to a data type Sigma has
\* data of at the selected places, and to indicators Sigma lists for it, and
\* without naming another scope, is answered with all the indicators of that
\* data type: a task left pending or active does not hide them.
QueryShowsSelection ==
    \A t \in Turns : \A d \in DataTypes :
        LET c == ctx[t]
        IN  /\ pc[t] = "save_task" /\ ActionNames(c.intents) = {"query_indicators"}
            /\ ExplicitTypes(c, Mentions[c.message], NoTask) = {}
            /\ c.state["data_types"] = {d}
            /\ c.state["indicator_names"] \subseteq IndicatorsOf[d]
            /\ InScope(RowsFor(c.dataset), c.state) # {}
            => /\ c.plan.kind = "reply"
               /\ \A l \in ListingsOf(t) :
                     IndicatorsOf[d] \subseteq
                         {e["indicator_names"] : e \in OfType(l.entries, d)}

\* Every request gets its response, or an error, whatever else is going on.
EveryTurnEnds == \A t \in Turns : pc[t] # "idle" ~> pc[t] = "idle"

----------------------------------------------------------------------------
(* Stated by the documentation or the tests; not what the code does.       *)

\* A session gets a pending request only from the turn that asked for the
\* data type: one that was answered or cleared does not come back.
RequestsAreAsked ==
    [][\A s \in Sessions :
         requests[s] = NoRequest /\ requests'[s] # NoRequest =>
            \E t \in Turns : /\ Moves(t, "save_request", "idle")
                             /\ ctx[t].session = s
                             /\ ctx[t].plan.reason = "ambiguous_slots"]_vars

\* TASKS.md: the user's follow-up to a clarification is merged into the
\* original task.  A follow-up that completes the pending task's slots is
\* answered with that task, not with a mere context update.
FollowUpRunsPendingTask ==
    \A t \in Turns :
        /\ pc[t] = "save_task" /\ ctx[t].plan.kind = "context_update"
        /\ ctx[t].task.pending # NoTask
        => Missing(ctx[t].task.pending, ctx[t].state) # {}

\* docs/synapse-turns-api.md: every plan carries the slot_state_diff of the
\* turn, so a turn that changed its session says so in its answer.
EveryPlanReportsItsDiff ==
    \A t \in Turns :
        pc[t] = "save_task" => ctx[t].plan.changed = Changed(ctx[t].before, ctx[t].state)

\* docs/synapse-turns-api.md, switching the data domain: the session's
\* sensors, test segments and indicators stay as they are.
DomainSwitchKeepsTheRest ==
    \A t \in Turns :
        pc[t] = "save_task" /\ ctx[t].plan.kind = "task" =>
            \A n \in MultiSlots \ Touched(ctx[t].batch) :
                ctx[t].before[n] # {} => ctx[t].state[n] = ctx[t].before[n]

----------------------------------------------------------------------------
(* What some of these properties ask of a deployment to hold of it.        *)

\* An intent that names a value names the slot of its kind, a data type is set,
\* never added or removed, and an operation on an indicator or a data type
\* names its slot.
Filed(i) ==
    /\ i.act # "none" /\ i.target \in Indicators \cup DataTypes => i.slot # "none"
    /\ i.slot # "none" =>
       /\ i.target \in Indicators => i.slot = "indicator_names"
       /\ i.target \in DataTypes  => i.slot = "data_types"
       /\ i.target \in Places     => i.slot \in PlaceSlots
       /\ i.slot = "data_types"   => i.act \in {"none", "replace"}

\* AnswerServesTheRequest asks this of the recognizer ...
FilesValues ==
    \A m \in Messages : \A d \in Readings[m] :
        IsFiniteSet(d.intents) /\ \A i \in d.intents : Filed(i)

\* ... and this of the task catalog: tasks and data types belong together, as in
\* domain_by_action of configs/resolvers/nvh.yaml.
TaskPerType ==
    /\ IsFiniteSet(DataTypes)
    /\ \A d \in DataTypes : TasksFor(d) # {}
    /\ \A n \in Tasks : \E d \in DataTypes : TaskDomains[n] = {d}

\* ClearForgetsTheSession asks this of the recognizer: a message it may read
\* as clearing the context names no task, indicator or data type in that
\* reading, and is not a bare value either.
ClearsAlone ==
    \A m \in Messages : \A d \in Readings[m] :
        "clear_context" \in ActionNames(d.intents) =>
            /\ \A i \in d.intents : ~HasIndicator(i) /\ ~HasDataType(i) /\ i.name \notin Tasks
            /\ m \notin Bare

\* What a session does not have: two turns in flight.  Turns of other sessions
\* come and go.
OneAtATime ==
    \A t, u \in Turns :
        t # u /\ pc[t] # "idle" /\ pc[u] # "idle" => ctx[t].session # ctx[u].session
=============================================================================
