---------------------------- MODULE TaskPlanning ----------------------------
(***************************************************************************)
(* TaskPlanBuilder.build with ObservationTaskParamProvider: the plan a     *)
(* turn is answered with once its slots are committed.  An operator is the *)
(* set of plans the code may return; the empty set says that it raises.    *)
(***************************************************************************)
EXTENDS Observation

\* TaskCatalog.match: the first task of the catalog one of the intents names.
Matched(names) ==
    LET ts == names \cap Tasks
    IN  {t \in ts : \A u \in ts : Rank[t] <= Rank[u]}

\* Seeded bug: without an active task any task of the catalog goes on.
ContinuedByDefault(names, changed, active) ==
    IF names # {} \/ changed = {} THEN {}
    ELSE IF active \in Tasks THEN {active} ELSE Tasks

\* _active_task_for_slot_only_turn: a turn with no action intent that changed
\* a slot goes on with the active task loaded when the turn began.
Continued(names, changed, active) ==
    IF names = {} /\ changed # {} THEN {active} \cap Tasks ELSE {}

Missing(task, state) == {s \in RequiredSlots[task] : state[s] = {}}

\* The data type of the task's parameters: the selected one, else the task's
\* own when it has exactly one.
ParamTypes(task, state) ==
    IF Cardinality(state["data_types"]) = 1 THEN state["data_types"]
    ELSE IF Cardinality(TaskDomains[task]) = 1 THEN TaskDomains[task]
    ELSE {}

\* Every selected indicator must have exactly one index for that data type
\* in the turn's catalog; otherwise params_for raises.
HasParams(task, state, cat, dataset) ==
    \/ state["indicator_names"] = {}
    \/ \E d \in ParamTypes(task, state) :
          \A i \in state["indicator_names"] :
              /\ i \in cat["indicator_names"]
              /\ d \in DomainsOf(i, dataset)
              /\ <<i, d>> \in Indexed

TaskPlans(task, state, cat, dataset, changed) ==
    IF Missing(task, state) # {}
    THEN IF \E s \in Missing(task, state) : cat[s] = {}
         THEN {}
         ELSE {MakePlan("clarify", "missing_slots", task, changed)}
    ELSE IF HasParams(task, state, cat, dataset)
         THEN {MakePlan("task", "", task, changed)}
    ELSE {}

\* `answers' is what the resolver query handler makes of the turn (module
\* ResolverQuery); it always has an answer for a query.
BuildPlans(names, state, changed, active, cat, dataset, answers) ==
    LET tasks == IF Matched(names) # {} THEN Matched(names)
                 ELSE Continued(names, changed, active)
    IN  IF "clear_context" \in names
        THEN {MakePlan("context_clear", "", NoTask, changed)}
        ELSE IF "current" \in names
        THEN {MakePlan("reply", "", NoTask, changed)}
        ELSE IF names \cap Queries # {}
        THEN answers
        ELSE IF tasks # {}
        THEN UNION {TaskPlans(t, state, cat, dataset, changed) : t \in tasks}
        ELSE IF changed # {}
        THEN {MakePlan("context_update", "", NoTask, changed)}
        ELSE {MakePlan("reply", "", NoTask, {})}
=============================================================================
