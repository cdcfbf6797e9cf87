--------------------------- MODULE ResolverQuery ---------------------------
(***************************************************************************)
(* ObservationResolverQueryResponder: "which sensors, test segments,       *)
(* indicators or data types are there?", answered from the availability    *)
(* rows and the indicators of the session's scope, with the whole of       *)
(* ObservationScopePolicy.                                                 *)
(*                                                                         *)
(* `c' is the turn's context as the planner gets it: its intents, slot     *)
(* state, task artifacts and narrowed catalog.                             *)
(***************************************************************************)
EXTENDS IndicatorInference

\* request_from_intents: several queries are one request.
Asked(c) == {QueriedSlot[n] : n \in ActionNames(c.intents) \cap KnownQueries}

----------------------------------------------------------------------------
(* ObservationCatalog: entries with a value, or none, per slot.            *)

Entry(d, place, i) ==
    [s \in Slots |-> CASE s = "data_types"      -> d
                       [] s = "indicator_names" -> i
                       [] OTHER                 -> place[s]]

Availability(dataset) ==
    {Entry(r.data_type, r.place, NoValue) : r \in RowsFor(dataset)}

\* where: a slot without wanted values, or an entry without one, is no limit.
Where(entries, wanted) ==
    {e \in entries : \A s \in Slots : wanted[s] # {} => e[s] \in wanted[s] \cup {NoValue}}

OfType(entries, d) == {e \in entries : e["data_types"] = d}

\* Seeded bug: the user's places do not limit what is listed.
WantedTypes(asked, state, types) ==
    [s \in Slots |-> IF s # "data_types" \/ s \in asked THEN {}
                     ELSE IF state[s] # {} THEN state[s] ELSE types]

\* _scope_catalog: what is asked about is not limited by what is selected;
\* the data types are the selected ones, else the given ones.
Wanted(asked, state, types) ==
    [s \in Slots |-> IF s \in asked THEN {}
                     ELSE IF s = "data_types" /\ state[s] = {} THEN types
                     ELSE state[s]]

----------------------------------------------------------------------------
(* Tasks: those of the turn's intents ("the first" is any one), else none. *)

TurnTasks(c) ==
    LET ts == ActionNames(c.intents) \cap Tasks IN IF ts = {} THEN {NoTask} ELSE ts

TypesOfTask(n) == IF n \in Tasks THEN TaskDomains[n] ELSE {}

\* A query that does not ask for indicators: the availability rows, in the
\* data types selected or those of the turn's, else the active, task.
AvailabilityFor(c, task) ==
    LET types == IF "data_types" \in Asked(c) THEN {}
                 ELSE TypesOfTask(IF task # NoTask THEN task ELSE c.task.active)
    IN  Where(Availability(c.dataset), Wanted(Asked(c), c.state, types))

----------------------------------------------------------------------------
(* Indicators.                                                             *)

\* The data types the turn speaks of: its data type targets, those of its
\* task, and the ones its message mentions.
ExplicitTypes(c, said, task) ==
    {i.target : i \in {j \in c.intents : HasDataType(j)}}
    \cup TypesOfTask(task)
    \cup MentionedTypes(said, c.catalog, c.dataset)

\* _indicator_data_types: of the one indicator selected.
TypesOfIndicator(c) ==
    IF Cardinality(c.state["indicator_names"]) # 1 THEN {}
    ELSE UNION {DomainsOf(i, c.dataset) :
                   i \in c.state["indicator_names"] \cap c.catalog["indicator_names"]}

SelectedTypeScope(selected, available) ==
    IF Cardinality(selected) # 1 THEN Scope("pass", {})
    ELSE IF selected \subseteq available THEN Scope("resolved", selected)
    ELSE Scope("invalid", available)

TaskScope(task) == ScopeOf(TypesOfTask(task))

\* Seeded bug: the tasks of the session speak before its selected data type.
TasksFirstScope(c, said, task, available) ==
    OrElse(ScopeOf(ExplicitTypes(c, said, task)),
    OrElse(ScopeOf(TypesOfIndicator(c)),
    OrElse(TaskScope(c.task.pending),
    OrElse(TaskScope(c.task.active),
           SelectedTypeScope(c.state["data_types"], available)))))

\* build_observation_scope_policy: all five rules.
QueryScope(c, said, task, available) ==
    OrElse(ScopeOf(ExplicitTypes(c, said, task)),
    OrElse(ScopeOf(TypesOfIndicator(c)),
    OrElse(SelectedTypeScope(c.state["data_types"], available),
    OrElse(TaskScope(c.task.pending),
           TaskScope(c.task.active)))))

\* load_indicator_catalog: the indicators Sigma lists for a data type, at
\* the selected places or at those the data type has.
IndicatorEntries(c, rows, d) ==
    LET at == [p \in PlaceSlots |-> IF c.state[p] # {} THEN c.state[p]
                                    ELSE {e[p] : e \in OfType(rows, d)}]
        places == {pl \in [PlaceSlots -> UNION {at[p] : p \in PlaceSlots}] :
                      \A p \in PlaceSlots : pl[p] \in at[p]}
    IN  {Entry(d, pl, i) : pl \in places, i \in IndicatorsAt(d, at, RowsFor(c.dataset))}

\* What the client is listed; `known' is FALSE when the scope is invalid.
Listed(entries) == [known |-> TRUE, entries |-> entries]

IndicatorListing(c, said, task) ==
    LET selected == c.state["indicator_names"]
        rows     == Where(Availability(c.dataset),
                          [Wanted(Asked(c), c.state, {}) EXCEPT !["data_types"] = {}])
        types    == {e["data_types"] : e \in rows}
        scope    == QueryScope(c, said, task, types)
        entries  == UNION {IndicatorEntries(c, rows, d) :
                              d \in IF scope.status = "resolved" THEN scope.types ELSE types}
    IN  IF rows = {} THEN Listed({})
        ELSE IF scope.status = "invalid" THEN [known |-> FALSE, entries |-> {}]
        ELSE IF selected # {} /\ ~\E e \in entries : e["indicator_names"] \in selected
             THEN Listed({})
        ELSE Listed(entries)

Listings(c, said) ==
    {IF "indicator_names" \in Asked(c) THEN IndicatorListing(c, said, n)
     ELSE Listed(AvailabilityFor(c, n)) : n \in TurnTasks(c)}

\* Whether a listing can be answered, or has to be clarified.
Answerable(c, listing) ==
    /\ listing.known
    /\ "indicator_names" \in Asked(c) /\ c.state["indicator_names"] # {}
          => listing.entries # {}

----------------------------------------------------------------------------
\* build: neither plan carries the slot_state_diff.
QueryReply   == MakePlan("reply", "", NoTask, {})
QueryClarify == MakePlan("clarify", "ambiguous_intent", NoTask, {})

QueryPlans(c, said) ==
    IF "query_other" \in ActionNames(c.intents) THEN {QueryClarify}
    ELSE {IF Answerable(c, l) THEN QueryReply ELSE QueryClarify : l \in Listings(c, said)}
=============================================================================
