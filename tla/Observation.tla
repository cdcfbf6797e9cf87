---------------------------- MODULE Observation ----------------------------
(***************************************************************************)
(* Vocabulary of one Synapse deployment: the slots of the observation      *)
(* domain, the candidate values Sigma offers for them, the tasks, and the  *)
(* shapes of the data the turn pipeline passes along: intents, decisions,  *)
(* slot operations, plans and pending observation requests.                *)
(*                                                                         *)
(* Abstractions: a slot holds the SET of its values (an absent slot and an *)
(* empty one coincide: the code pops a slot that becomes empty); a value   *)
(* is its canonical name (labels and aliases are resolved); scores,        *)
(* wording and prompt layout are left out; the intents of a decision are a *)
(* set, and where the code takes "the first" of several the model takes    *)
(* any of them.                                                            *)
(***************************************************************************)
EXTENDS Naturals, FiniteSets

CONSTANTS
    DataTypes,      \* data type (domain) names: ONE_D, TWO_D_TD, ...
    Indicators,     \* indicator names
    Places,         \* sensor and test segment names
    Unknown,        \* words a recognizer may emit that no catalog offers
    PlaceSlots,     \* the place slots in play, out of sensors and test_segments
    Rows,           \* availability rows of the dataset: a data type and a place per slot
    IndicatorsOf,   \* data type -> indicators Sigma lists for it
    Indexed,        \* <<indicator, data type>> pairs with exactly one index
    Preferred,      \* data type -> the indicator autofill prefers, or NoValue
    Tasks,          \* task names of the task catalog
    Rank,           \* position of a task in the catalog
    TaskDomains,    \* task -> data types of domain_by_action
    RequiredSlots,  \* task -> its required slots
    NoTask, NoValue, NoRequest

----------------------------------------------------------------------------
Values == DataTypes \cup Indicators \cup Places \cup Unknown

MultiSlots == PlaceSlots \cup {"indicator_names"}

Slots == MultiSlots \cup {"data_types"}

SlotStates == [Slots -> SUBSET Values]

NoSlots == [s \in Slots |-> {}]

ASSUME ObservationAssumption ==
    /\ PlaceSlots \subseteq {"sensors", "test_segments"}
    /\ Rows \subseteq [data_type : DataTypes, place : [PlaceSlots -> Places]]
    /\ IndicatorsOf \in [DataTypes -> SUBSET Indicators]
    /\ Indexed \subseteq Indicators \X DataTypes
    /\ Preferred \in [DataTypes -> Indicators \cup {NoValue}]
    /\ Rank \in [Tasks -> Nat]
    /\ TaskDomains \in [Tasks -> SUBSET DataTypes]
    /\ RequiredSlots \in [Tasks -> SUBSET Slots]
    /\ NoTask \notin Tasks
    /\ NoValue \notin Values

\* Sigma lists no indicators for a data type the dataset has no data of.
ASSUME ListedTypesHaveData ==
    \A d \in DataTypes : IndicatorsOf[d] # {} => \E r \in Rows : r.data_type = d

\* The resolver queries: one per slot in play, and one the responder does
\* not know.
QueriedSlot == [query_sensors       |-> "sensors",
                query_test_segments |-> "test_segments",
                query_indicators    |-> "indicator_names",
                query_data_types    |-> "data_types"]

KnownQueries == {q \in DOMAIN QueriedSlot : QueriedSlot[q] \in Slots}

Queries == KnownQueries \cup {"query_other"}

\* Each task intent name belongs to one task, and a task has one intent
\* name: the model names both by the task.
OtherIntents == {"clear_context", "current", "indicator_list", "switch"} \cup Queries

ASSUME IntentsAssumption == Tasks \cap OtherIntents = {}

Acts == {"none", "replace", "add", "remove", "clear"}

Intents == [name   : Tasks \cup OtherIntents,
            act    : Acts,
            slot   : Slots \cup {"none"},
            target : Values \cup {NoValue},
            valid  : BOOLEAN]

Decisions == [verdict : {"clear", "ambiguous", "low"},
              intents : SUBSET Intents]

\* IntentDecision.action_intents: no slot, no action, no target.
IsAction(i) == i.act = "none" /\ i.slot = "none" /\ i.target = NoValue

ActionNames(intents) == {i.name : i \in {j \in intents : IsAction(j)}}

ActionIntent(n) == [name |-> n, act |-> "none", slot |-> "none",
                    target |-> NoValue, valid |-> TRUE]

\* A batch of slot operations, one effect per slot; "all" is the clear-all
\* operation that replaces every other one.
Effects == [act : Acts, vals : SUBSET Values]

Batches == [all : BOOLEAN, on : [Slots -> Effects]]

NoBatch == [all |-> FALSE,
            on  |-> [s \in Slots |-> [act |-> "none", vals |-> {}]]]

\* A plan keeps what the stores and the client react to: its kind, the
\* reason of a clarification, the task it names (TaskPlan.name or
\* ClarifyPlan.pending_task) and the slots its slot_state_diff lists.
Plans == [kind    : {"none", "reply", "clarify", "context_update",
                     "context_clear", "task"},
          reason  : {"", "ambiguous_intent", "missing_slots",
                     "invalid_slots", "ambiguous_slots"},
          task    : Tasks \cup {NoTask},
          changed : SUBSET Slots]

MakePlan(k, r, tk, ch) == [kind |-> k, reason |-> r, task |-> tk, changed |-> ch]

NoPlan == MakePlan("none", "", NoTask, {})

TaskContexts == [pending : Tasks \cup {NoTask}, active : Tasks \cup {NoTask}]

NoTaskContext == [pending |-> NoTask, active |-> NoTask]

Requests == [indicator : Values, candidates : SUBSET Values]

ASSUME RequestAssumption == NoRequest \notin Requests

----------------------------------------------------------------------------
(* What Sigma offers, and candidate catalogs: slot -> values offered.      *)

Catalogs == [Slots -> SUBSET Values]

\* Rows the gateway returns: none when the request names no dataset.
RowsFor(dataset) == IF dataset THEN Rows ELSE {}

\* Indicators Sigma lists for a data type at some places: none where it has
\* no data.
IndicatorsAt(d, at, rows) ==
    IF \E r \in rows : r.data_type = d /\ \A p \in PlaceSlots : r.place[p] \in at[p]
    THEN IndicatorsOf[d] ELSE {}

\* Data types whose metadata the catalog attaches to an indicator.
DomainsOf(i, dataset) ==
    {d \in DataTypes : i \in IndicatorsOf[d]
                       /\ \E r \in RowsFor(dataset) : r.data_type = d}

\* The catalog loaded for a request: the data type list is fixed, the rest
\* comes from Sigma.
LoadedCatalog(dataset) ==
    [s \in Slots |->
        CASE s = "data_types" -> DataTypes
          [] s = "indicator_names" ->
                {i \in Indicators : DomainsOf(i, dataset) # {}}
          [] OTHER -> {r.place[s] : r \in RowsFor(dataset)}]

\* Pre-recognition narrowing: an entity the message mentions keeps only the
\* mentioned candidates; mentioned data types then widen or restrict the
\* indicators to the ones of these data types.
Narrowed(cat, said, dataset) ==
    LET hit == [s \in Slots |-> cat[s] \cap said]
        ofTypes == {i \in cat["indicator_names"] :
                        DomainsOf(i, dataset) \cap hit["data_types"] # {}}
    IN  [s \in Slots |->
            IF s = "indicator_names" /\ ofTypes # {} THEN ofTypes
            ELSE IF hit[s] # {} THEN hit[s] ELSE cat[s]]
=============================================================================
