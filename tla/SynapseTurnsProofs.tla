------------------------- MODULE SynapseTurnsProofs -------------------------
(***************************************************************************)
(* Theorems about the turn pipeline, for any deployment, any messages and  *)
(* any number of sessions and turns.                                       *)
(*                                                                         *)
(* First facts about the operators the turn pipeline is built from: what   *)
(* they return (the typing lemmas) and what they keep or bound, for every  *)
(* deployment.  Then type correctness, and what is offered and kept.  Last *)
(* what a turn in flight knows of its session: the safety theorems about   *)
(* commits, autofill, answers and switched tasks, for any deployment and   *)
(* interleaving of turns.                                                  *)
(***************************************************************************)
EXTENDS TurnProperties, FiniteSetTheorems, TLAPS

----------------------------------------------------------------------------
(* Catalogs.                                                               *)

\* The slot names are distinct: a place slot is none of the other two.
LEMMA SlotNames ==
    /\ "data_types" \in Slots /\ "indicator_names" \in Slots
    /\ "indicator_names" \in MultiSlots /\ "data_types" \notin MultiSlots
    /\ PlaceSlots \subseteq Slots
    /\ "data_types" \notin PlaceSlots /\ "indicator_names" \notin PlaceSlots
    /\ \A s \in Slots : s \in PlaceSlots \/ s = "data_types" \/ s = "indicator_names"
BY ObservationAssumption DEF Slots, MultiSlots

\* SigmaCandidateCatalogLoader.load returns a catalog of known values.
LEMMA LoadedCatalogType ==
    ASSUME NEW w \in BOOLEAN
    PROVE  LoadedCatalog(w) \in Catalogs
<1>1. RowsFor(w) \subseteq Rows
  BY DEF RowsFor
<1>2. \A s \in PlaceSlots, r \in Rows : r.place[s] \in Values
  BY ObservationAssumption DEF Values
<1>3. ASSUME NEW s \in Slots
      PROVE  (CASE s = "data_types" -> DataTypes
                [] s = "indicator_names" ->
                      {i \in Indicators : DomainsOf(i, w) # {}}
                [] OTHER -> {r.place[s] : r \in RowsFor(w)}) \in SUBSET Values
  BY <1>1, <1>2, SlotNames DEF Values
<1> QED
  BY <1>3 DEF LoadedCatalog, Catalogs

\* Pre-recognition narrowing never offers what was not loaded.
LEMMA NarrowedShrinks ==
    ASSUME NEW cat \in Catalogs, NEW said, NEW w
    PROVE  /\ Narrowed(cat, said, w) \in Catalogs
           /\ \A s \in Slots : Narrowed(cat, said, w)[s] \subseteq cat[s]
BY DEF Narrowed, Catalogs

----------------------------------------------------------------------------
(* Intents before slots are resolved.                                      *)

\* An action intent is an intent of its own.
LEMMA ActionIntentType ==
    ASSUME NEW n \in Tasks \cup OtherIntents
    PROVE  ActionIntent(n) \in Intents
BY ObservationAssumption DEF ActionIntent, Intents, Acts

\* The normalisation of resolver queries returns a decision.
LEMMA NormalizeQueriesType ==
    ASSUME NEW is \in SUBSET Intents
    PROVE  NormalizeQueries(is) \in SUBSET Intents
<1>1. \A i \in is : ActionIntent(i.name) \in Intents
  BY ActionIntentType DEF Intents
<1> QED
  BY <1>1 DEF NormalizeQueries

\* So does the injection of a resolver query.
LEMMA InjectQueryType ==
    ASSUME NEW is \in SUBSET Intents
    PROVE  InjectQuery(is) \in SUBSET Intents
BY ActionIntentType DEF InjectQuery, OtherIntents, Queries, KnownQueries, QueriedSlot, Slots,
   MultiSlots

\* A rewritten intent is an intent.
LEMMA RewrittenType ==
    ASSUME NEW i \in Intents, NEW cat
    PROVE  Rewritten(i, cat) \in Intents
<1>1. CASE IsDataTypeScope(i)
  BY <1>1, ActionIntentType DEF Rewritten, IsDataTypeScope
<1>2. CASE ~IsDataTypeScope(i)
  BY <1>2 DEF Rewritten, Intents, Acts
<1> QED
  BY <1>1, <1>2

\* The answer to a pending request stands for a valid replacement.
LEMMA RestoredIntentType ==
    ASSUME NEW r \in Requests
    PROVE  RestoredIntent(r) \in Intents
BY SlotNames DEF RestoredIntent, Requests, Intents, Acts, OtherIntents

\* A restored data type is one the request offered and the catalog has.
LEMMA RestoredBound ==
    ASSUME NEW is, NEW r, NEW cat \in Catalogs, NEW said, NEW bare
    PROVE  /\ r = NoRequest => Restored(is, r, cat, said, bare) = {}
           /\ r # NoRequest => Restored(is, r, cat, said, bare)
                                  \subseteq cat["data_types"] \cap r.candidates
BY DEF Restored

\* ObservationIndicatorInferenceStep returns a decision, and the plan and the
\* pending request it may raise are well formed.
LEMMA InferType ==
    ASSUME NEW is \in SUBSET Intents, NEW r \in Requests \cup {NoRequest},
           NEW cat \in Catalogs, NEW said, NEW bare, NEW w \in BOOLEAN
    PROVE  LET o == Infer(is, r, cat, said, bare, w)
           IN  /\ o.intents \in SUBSET Intents
               /\ o.plan \in Plans
               /\ o.raised \in Requests \cup {NoRequest}
               /\ o.drop \in BOOLEAN
<1> DEFINE restored  == Restored(is, r, cat, said, bare)
           back      == restored # {}
           rewritten == {Rewritten(i, cat) : i \in is}
                        \cup (IF back THEN {RestoredIntent(r)} ELSE {})
           asking    == {i \in is : HasIndicator(i) /\ i.name \notin Queries}
           targets   == {i.target : i \in asking}
                        \cup (IF back THEN {r.indicator} ELSE {})
           explicit  == (IF back THEN restored ELSE MentionedTypes(said, cat, w))
                        \cup {i.target : i \in {j \in is : HasDataType(j)}}
                        \cup UNION {TaskDomains[n] : n \in ActionNames(rewritten) \cap Tasks}
           ofIndicators == UNION {DomainsOf(i, w) : i \in targets \cap cat["indicator_names"]}
           scope     == ResolveScope(explicit, ofIndicators)
           inferred  == IF scope.status = "resolved"
                        THEN UNION {TasksFor(d) : d \in scope.types} ELSE {}
<1>1. back => r \in Requests
  BY RestoredBound
<1>2. rewritten \in SUBSET Intents
  BY <1>1, RewrittenType, RestoredIntentType
<1>3. targets \in SUBSET Values
  BY <1>1 DEF HasIndicator, Intents, Requests
<1>4. explicit \in SUBSET Values
  <2>1. cat["data_types"] \in SUBSET Values
    BY SlotNames DEF Catalogs
  <2>2. restored \in SUBSET Values
    BY <2>1, RestoredBound
  <2>3. {i.target : i \in {j \in is : HasDataType(j)}} \in SUBSET Values
    BY DEF HasDataType, Intents
  <2>4. UNION {TaskDomains[n] : n \in ActionNames(rewritten) \cap Tasks} \in SUBSET Values
    <3>1. \A n \in Tasks : TaskDomains[n] \in SUBSET Values
      BY ObservationAssumption DEF Values
    <3> HIDE DEF rewritten
    <3> QED
      BY <3>1
  <2> QED
    BY <2>1, <2>2, <2>3, <2>4 DEF MentionedTypes
<1>5. ofIndicators \in SUBSET Values
  BY DEF DomainsOf, Values
<1>6. scope.types \in SUBSET Values
  BY <1>4, <1>5 DEF ResolveScope, OrElse, ScopeOf, Scope
<1>7. inferred \in SUBSET Tasks
  BY DEF TasksFor
<1>8. {ActionIntent(n) : n \in inferred} \in SUBSET Intents
  BY <1>7, ActionIntentType
<1>9. targets # {} => [indicator |-> CHOOSE v \in targets : TRUE,
                       candidates |-> scope.types] \in Requests
  BY <1>3, <1>6 DEF Requests
<1>10. NoPlan \in Plans /\ MakePlan("clarify", "ambiguous_slots", NoTask, {}) \in Plans
  BY DEF NoPlan, MakePlan, Plans
<1> HIDE DEF targets, explicit, ofIndicators, scope, inferred, rewritten, asking, back, restored
<1>11. Infer(is, r, cat, said, bare, w) =
         IF targets = {}
         THEN [intents |-> rewritten, plan |-> NoPlan, raised |-> NoRequest, drop |-> FALSE]
         ELSE IF scope.status = "conflict"
         THEN [intents |-> rewritten,
               plan |-> MakePlan("clarify", "ambiguous_slots", NoTask, {}),
               raised |-> IF ~back /\ Cardinality(asking) = 1
                          THEN [indicator |-> CHOOSE v \in targets : TRUE,
                                candidates |-> scope.types]
                          ELSE NoRequest,
               drop |-> FALSE]
         ELSE [intents |-> rewritten \cup {ActionIntent(n) : n \in inferred},
               plan |-> NoPlan, raised |-> NoRequest,
               drop |-> IF restored # {} THEN TRUE ELSE FALSE]
  BY DEF Infer, targets, explicit, ofIndicators, scope, inferred, rewritten, asking, back,
         restored
<1> QED
  <2>1. CASE targets = {}
    BY <2>1, <1>2, <1>10, <1>11
  <2>2. CASE targets # {} /\ scope.status = "conflict"
    BY <2>2, <1>2, <1>9, <1>10, <1>11
  <2>3. CASE targets # {} /\ scope.status # "conflict"
    BY <2>3, <1>2, <1>8, <1>10, <1>11
  <2> QED
    BY <2>1, <2>2, <2>3

\* The step ends a turn only to ask for a data type.
LEMMA InferAnswers ==
    ASSUME NEW is, NEW r, NEW cat, NEW said, NEW bare, NEW w,
           Infer(is, r, cat, said, bare, w).plan # NoPlan
    PROVE  /\ Infer(is, r, cat, said, bare, w).plan.kind = "clarify"
           /\ Infer(is, r, cat, said, bare, w).plan.reason = "ambiguous_slots"
<1>1. Infer(is, r, cat, said, bare, w).plan = MakePlan("clarify", "ambiguous_slots", NoTask, {})
  BY DEF Infer
<1> QED
  BY <1>1 DEF MakePlan

----------------------------------------------------------------------------
(* The slot pipeline.                                                      *)

\* Every value of the state is one Sigma offers for its slot.
Offered(state) == \A s \in Slots : state[s] \subseteq LoadedCatalog(TRUE)[s]

\* A request without a dataset is offered less than one with it.
LEMMA LoadedCatalogGrows ==
    ASSUME NEW w \in BOOLEAN
    PROVE  Offered(LoadedCatalog(w))
BY SlotNames DEF Offered, LoadedCatalog, DomainsOf, RowsFor

\* What Sigma offers for each slot.
LEMMA OfferedValues ==
    /\ \A d \in DataTypes : d \in LoadedCatalog(TRUE)["data_types"]
    /\ \A r \in Rows, s \in PlaceSlots : r.place[s] \in LoadedCatalog(TRUE)[s]
    /\ \A d \in DataTypes, i \in Indicators :
          i \in IndicatorsOf[d] => i \in LoadedCatalog(TRUE)["indicator_names"]
<1>1. \A d \in DataTypes : d \in LoadedCatalog(TRUE)["data_types"]
  BY SlotNames DEF LoadedCatalog
<1>2. \A r \in Rows, s \in PlaceSlots : r.place[s] \in LoadedCatalog(TRUE)[s]
  BY SlotNames DEF LoadedCatalog, RowsFor
<1>3. ASSUME NEW d \in DataTypes, NEW i \in Indicators, i \in IndicatorsOf[d]
      PROVE  i \in LoadedCatalog(TRUE)["indicator_names"]
  <2>1. d \in DomainsOf(i, TRUE)
    BY <1>3, ListedTypesHaveData DEF DomainsOf, RowsFor
  <2> QED
    BY <2>1, SlotNames DEF LoadedCatalog
<1> QED
  BY <1>1, <1>2, <1>3

\* Slot resolution makes a batch of a decision.
LEMMA ResolveType ==
    ASSUME NEW is \in SUBSET Intents, NEW cat \in Catalogs
    PROVE  Resolve(is, cat) \in Batches
<1> DEFINE os(s) == OperationsOn(s, is, cat)
           effect(s) == [act  |-> IF os(s) = {} THEN "none"
                                  ELSE (CHOOSE o \in os(s) : TRUE).act,
                         vals |-> {o.target : o \in os(s)}]
<1>1. ASSUME NEW s \in Slots
      PROVE  effect(s) \in Effects
  <2>1. \A o \in os(s) : o.act \in Acts /\ o.target \in Values
    BY DEF OperationsOn, Intents
  <2> HIDE DEF os
  <2>2. os(s) # {} => (CHOOSE o \in os(s) : TRUE) \in os(s)
    OBVIOUS
  <2> QED
    BY <2>1, <2>2 DEF Effects, Acts
<1> HIDE DEF effect
<1>2. [s \in Slots |-> effect(s)] \in [Slots -> Effects]
  BY <1>1
<1>3. [all |-> FALSE, on |-> [s \in Slots |-> effect(s)]] \in Batches
  BY <1>2 DEF Batches
<1>4. NoBatch \in Batches /\ [NoBatch EXCEPT !.all = TRUE] \in Batches
  BY DEF NoBatch, Batches, Effects, Acts
<1> QED
  BY <1>3, <1>4 DEF Resolve, effect, os

\* SlotCommitter.commit returns a slot state ...
LEMMA CommitType ==
    ASSUME NEW state \in SlotStates, NEW batch \in Batches
    PROVE  Commit(state, batch) \in SlotStates
BY DEF Commit, SlotStates, Batches, Effects, NoSlots

\* ... and keeps it to what is offered, once the batch was validated.
LEMMA CommitOffered ==
    ASSUME NEW state \in SlotStates, NEW batch \in Batches, NEW cat \in Catalogs,
           Offered(state), Offered(cat), InvalidSlots(batch, cat) = {}
    PROVE  Offered(Commit(state, batch))
<1>1. ASSUME NEW s \in Slots
      PROVE  batch.on[s].act \in {"none", "clear"} \/ batch.on[s].vals \subseteq cat[s]
  BY DEF InvalidSlots
<1>2. ASSUME NEW s \in Slots
      PROVE  Commit(state, batch)[s] \subseteq LoadedCatalog(TRUE)[s]
  BY <1>1 DEF Commit, NoSlots, Offered
<1> QED
  BY <1>2 DEF Offered

----------------------------------------------------------------------------
(* Post-commit autofill.                                                   *)

\* What each fill guarantees of the state it makes of another one: it is a
\* slot state, it holds offered values if the other one does, and the slots
\* the turn's operations touched are as they were.
GoodFill(new, old, touched) ==
    /\ new \in SlotStates
    /\ Offered(old) => Offered(new)
    /\ \A s \in touched \cap Slots : new[s] = old[s]

\* Leaving the state alone is a good fill, and good fills compose.
LEMMA GoodFillCompose ==
    ASSUME NEW a \in SlotStates, NEW touched
    PROVE  /\ GoodFill(a, a, touched)
           /\ \A b, c : GoodFill(b, a, touched) /\ GoodFill(c, b, touched)
                           => GoodFill(c, a, touched)
BY DEF GoodFill

\* Setting a slot the turn did not touch to an offered value is a good fill.
LEMMA PutIsGood ==
    ASSUME NEW state \in SlotStates, NEW touched, NEW s \in Slots \ touched,
           NEW v \in Values, v \in LoadedCatalog(TRUE)[s]
    PROVE  GoodFill(Put(state, s, v), state, touched)
BY DEF GoodFill, Put, SlotStates, Offered

\* The data type fill.
LEMMA FillDataTypeIsGood ==
    ASSUME NEW state \in SlotStates, NEW touched, NEW task \in Tasks,
           NEW rows \in SUBSET Rows,
           NEW new \in FillDataType(state, touched, task, rows)
    PROVE  GoodFill(new, state, touched)
<1>1. CASE new = state
  BY <1>1, GoodFillCompose
<1>2. CASE new # state
  <2>1. "data_types" \in Slots \ touched
    BY <1>2, SlotNames DEF FillDataType
  <2>2. PICK d \in DataTypes : new = Put(state, "data_types", d)
    <3>1. TaskDomains[task] \subseteq DataTypes
      BY ObservationAssumption
    <3>2. \A r \in InScope(rows, state) : r.data_type \in DataTypes
      BY ObservationAssumption DEF InScope
    <3> QED
      BY <1>2, <3>1, <3>2 DEF FillDataType
  <2>3. d \in Values
    BY DEF Values
  <2> QED
    BY <2>1, <2>2, <2>3, OfferedValues, PutIsGood
<1> QED
  BY <1>1, <1>2

\* The places fill: it also fills only slots that are empty.
LEMMA FillPlacesIsGood ==
    ASSUME NEW state \in SlotStates, NEW touched, NEW rows \in SUBSET Rows,
           NEW new \in FillPlaces(state, touched, rows)
    PROVE  GoodFill(new, state, touched)
<1> DEFINE open == {p \in PlaceSlots \ touched : state[p] = {}}
<1>1. CASE new = state
  BY <1>1, GoodFillCompose
<1>2. CASE new # state
  <2>1. PICK r \in Rows :
           new = [s \in Slots |-> IF s \in open THEN {r.place[s]} ELSE state[s]]
    <3>1. new \in {[s \in Slots |-> IF s \in open THEN {r.place[s]} ELSE state[s]] :
                       r \in InScope(rows, state)}
      BY <1>2 DEF FillPlaces
    <3>2. InScope(rows, state) \subseteq Rows
      BY DEF InScope
    <3> HIDE DEF open
    <3> QED
      BY <3>1, <3>2
  <2>2. \A s \in open : /\ s \in PlaceSlots /\ s \notin touched
                        /\ r.place[s] \in Values
                        /\ r.place[s] \in LoadedCatalog(TRUE)[s]
    <3>1. \A s \in PlaceSlots : r.place[s] \in Values
      BY ObservationAssumption DEF Values
    <3>2. \A s \in open : s \in PlaceSlots /\ s \notin touched
      OBVIOUS
    <3> HIDE DEF open
    <3> QED
      BY <3>1, <3>2, OfferedValues
  <2> HIDE DEF open
  <2> QED
    BY <2>1, <2>2 DEF GoodFill, SlotStates, Offered
<1> QED
  BY <1>1, <1>2

\* The indicator fill.
LEMMA FillIndicatorIsGood ==
    ASSUME NEW state \in SlotStates, NEW touched,
           NEW rows, NEW new \in FillIndicator(state, touched, rows)
    PROVE  GoodFill(new, state, touched)
<1>1. CASE new = state
  BY <1>1, GoodFillCompose
<1>2. CASE new # state
  <2> DEFINE now == state["indicator_names"]
             listed(d) == IndicatorsAt(d, state, rows)
             choices(d) ==
                IF now = {Preferred[d]} \/ listed(d) = {} THEN now
                ELSE IF Preferred[d] \in listed(d) THEN {Preferred[d]}
                ELSE IF now = {} \/ ~(now \subseteq listed(d)) THEN listed(d)
                ELSE now
  <2>1. "indicator_names" \in Slots \ touched
    BY <1>2, SlotNames DEF FillIndicator
  <2>2. PICK d \in DataTypes :
           /\ choices(d) # now
           /\ \E v \in choices(d) : new = Put(state, "indicator_names", v)
    BY <1>2 DEF FillIndicator
  <2>3. PICK v \in choices(d) : new = Put(state, "indicator_names", v)
    BY <2>2
  <2>4. choices(d) \subseteq IndicatorsOf[d]
    BY <2>2 DEF IndicatorsAt
  <2>5. IndicatorsOf[d] \subseteq Indicators
    BY ObservationAssumption
  <2>6. v \in Indicators /\ v \in IndicatorsOf[d] /\ v \in Values
    BY <2>3, <2>4, <2>5 DEF Values
  <2> QED
    BY <2>1, <2>3, <2>6, OfferedValues, PutIsGood
<1> QED
  BY <1>1, <1>2

\* ObservationAutofillPolicy: whatever the rows, what autofill makes of a
\* state is a slot state of offered values that keeps what the user said.
LEMMA AutofilledIsGood ==
    ASSUME NEW state \in SlotStates, NEW touched, NEW task \in Tasks,
           NEW rows \in SUBSET Rows,
           NEW new \in Autofilled(state, touched, task, rows)
    PROVE  GoodFill(new, state, touched)
<1>1. CASE rows = {}
  BY <1>1, GoodFillCompose DEF Autofilled
<1>2. CASE rows # {}
  <2>1. PICK typed \in FillDataType(state, touched, task, rows) :
          \E placed \in FillPlaces(typed, touched, rows) :
             new \in FillIndicator(placed, touched, rows)
    BY <1>2 DEF Autofilled
  <2>2. PICK placed \in FillPlaces(typed, touched, rows) :
          new \in FillIndicator(placed, touched, rows)
    BY <2>1
  <2>3. GoodFill(typed, state, touched)
    BY FillDataTypeIsGood
  <2>4. GoodFill(placed, typed, touched)
    BY <2>3, FillPlacesIsGood DEF GoodFill
  <2>5. GoodFill(new, placed, touched)
    BY <2>2, <2>4, FillIndicatorIsGood DEF GoodFill
  <2> QED
    BY <2>3, <2>4, <2>5, GoodFillCompose
<1> QED
  BY <1>1, <1>2

----------------------------------------------------------------------------
(* Planning.                                                               *)

\* A change to the slots is listed slot by slot.
LEMMA ChangedType ==
    ASSUME NEW a, NEW b
    PROVE  Changed(a, b) \in SUBSET Slots
BY DEF Changed

\* The resolver query handler has two answers.
LEMMA QueryPlansType ==
    ASSUME NEW c, NEW said
    PROVE  /\ QueryPlans(c, said) \subseteq {QueryReply, QueryClarify}
           /\ QueryPlans(c, said) \subseteq Plans
<1>1. QueryPlans(c, said) \subseteq {QueryReply, QueryClarify}
  BY DEF QueryPlans
<1>2. {QueryReply, QueryClarify} \subseteq Plans
  BY DEF QueryReply, QueryClarify, MakePlan, Plans
<1> QED
  BY <1>1, <1>2

\* TaskPlanBuilder.build returns well-formed plans.
LEMMA BuildPlansType ==
    ASSUME NEW names, NEW state, NEW changed \in SUBSET Slots, NEW active,
           NEW cat, NEW w, NEW answers \in SUBSET Plans
    PROVE  BuildPlans(names, state, changed, active, cat, w, answers) \subseteq Plans
<1>1. Matched(names) \subseteq Tasks /\ Continued(names, changed, active) \subseteq Tasks
  BY DEF Matched, Continued
<1>2. ASSUME NEW t \in Tasks
      PROVE  TaskPlans(t, state, cat, w, changed) \subseteq Plans
  <2>1. /\ MakePlan("clarify", "missing_slots", t, changed) \in Plans
        /\ MakePlan("task", "", t, changed) \in Plans
    BY <1>2 DEF MakePlan, Plans
  <2> QED
    BY <2>1 DEF TaskPlans
<1>3. /\ {MakePlan("reply", "", NoTask, {})} \subseteq Plans
      /\ \A k \in {"context_clear", "reply", "context_update"} :
            {MakePlan(k, "", NoTask, changed)} \subseteq Plans
  <2>1. \A k \in {"context_clear", "reply", "context_update"}, ch \in SUBSET Slots :
            MakePlan(k, "", NoTask, ch) \in Plans
    BY DEF MakePlan, Plans
  <2> QED
    BY <2>1
<1> DEFINE matched == IF Matched(names) # {} THEN Matched(names)
                      ELSE Continued(names, changed, active)
           run == UNION {TaskPlans(t, state, cat, w, changed) : t \in matched}
<1>4. matched \subseteq Tasks
  BY <1>1
<1>5. run \subseteq Plans
  <2> HIDE DEF matched
  <2> QED
    BY <1>2, <1>4
<1>6. BuildPlans(names, state, changed, active, cat, w, answers) =
         IF "clear_context" \in names THEN {MakePlan("context_clear", "", NoTask, changed)}
         ELSE IF "current" \in names THEN {MakePlan("reply", "", NoTask, changed)}
         ELSE IF names \cap Queries # {} THEN answers
         ELSE IF matched # {} THEN run
         ELSE IF changed # {} THEN {MakePlan("context_update", "", NoTask, changed)}
         ELSE {MakePlan("reply", "", NoTask, {})}
  BY DEF BuildPlans
<1> HIDE DEF run, matched
<1> QED
  <2>1. CASE "clear_context" \in names \/ "current" \in names
    BY <2>1, <1>3, <1>6
  <2>2. CASE ~("clear_context" \in names \/ "current" \in names)
    BY <2>2, <1>3, <1>5, <1>6
  <2> QED
    BY <2>1, <2>2

\* The plans of the builder proper, as opposed to those of the resolver query
\* responder, carry the diff they are given; and a task plan says that no
\* required slot is missing and that the task's parameters could be built.
LEMMA BuiltPlans ==
    ASSUME NEW names, NEW state, NEW changed, NEW active, NEW cat, NEW w,
           NEW answers \in SUBSET {QueryReply, QueryClarify},
           NEW p \in BuildPlans(names, state, changed, active, cat, w, answers)
    PROVE  /\ \/ p.kind \in {"task", "context_update", "context_clear"}
              \/ p.reason = "missing_slots"
              => /\ p.changed = changed
                 /\ ~(names \cap Queries # {}
                      /\ names \cap {"clear_context", "current"} = {})
           /\ p.kind = "task" => /\ p.task \in Tasks
                                 /\ Missing(p.task, state) = {}
                                 /\ HasParams(p.task, state, cat, w)
<1> DEFINE matched == IF Matched(names) # {} THEN Matched(names)
                      ELSE Continued(names, changed, active)
<1>1. matched \subseteq Tasks
  BY DEF Matched, Continued
<1>2. CASE "clear_context" \in names
  <2>1. p = MakePlan("context_clear", "", NoTask, changed)
    BY <1>2 DEF BuildPlans
  <2>2. p.kind = "context_clear" /\ p.changed = changed
    BY <2>1 DEF MakePlan
  <2> QED
    BY <1>2, <2>2
<1>3. CASE "clear_context" \notin names /\ "current" \in names
  <2>1. p = MakePlan("reply", "", NoTask, changed)
    BY <1>3 DEF BuildPlans
  <2>2. p.kind = "reply" /\ p.reason = ""
    BY <2>1 DEF MakePlan
  <2> QED
    BY <2>2
<1>4. CASE /\ "clear_context" \notin names /\ "current" \notin names
           /\ names \cap Queries # {}
  <2>1. \/ p = MakePlan("reply", "", NoTask, {})
        \/ p = MakePlan("clarify", "ambiguous_intent", NoTask, {})
    BY <1>4 DEF BuildPlans, QueryReply, QueryClarify
  <2>2. p.kind \in {"reply", "clarify"} /\ p.reason \in {"", "ambiguous_intent"}
    <3>1. CASE p = MakePlan("reply", "", NoTask, {})
      BY <3>1 DEF MakePlan
    <3>2. CASE p = MakePlan("clarify", "ambiguous_intent", NoTask, {})
      BY <3>2 DEF MakePlan
    <3> QED
      BY <2>1, <3>1, <3>2
  <2> QED
    BY <2>2
<1>5. CASE /\ "clear_context" \notin names /\ "current" \notin names
           /\ names \cap Queries = {} /\ matched # {}
  <2>1. p \in UNION {TaskPlans(t, state, cat, w, changed) : t \in matched}
    BY <1>5 DEF BuildPlans
  <2> HIDE DEF matched
  <2>2. PICK t \in matched : p \in TaskPlans(t, state, cat, w, changed)
    BY <2>1
  <2>3. \/ p = MakePlan("clarify", "missing_slots", t, changed)
        \/ /\ p = MakePlan("task", "", t, changed)
           /\ Missing(t, state) = {} /\ HasParams(t, state, cat, w)
    BY <2>2 DEF TaskPlans
  <2>4. CASE p = MakePlan("clarify", "missing_slots", t, changed)
    <3>1. p.kind = "clarify" /\ p.changed = changed
      BY <2>4 DEF MakePlan
    <3> QED
      BY <3>1, <1>5
  <2>5. CASE /\ p = MakePlan("task", "", t, changed)
             /\ Missing(t, state) = {} /\ HasParams(t, state, cat, w)
    <3>1. p.task = t /\ p.changed = changed
      BY <2>5 DEF MakePlan
    <3> QED
      BY <2>5, <3>1, <1>1, <1>5
  <2> QED
    BY <2>3, <2>4, <2>5
<1>6. CASE /\ "clear_context" \notin names /\ "current" \notin names
           /\ names \cap Queries = {} /\ matched = {}
  <2>1. \/ p = MakePlan("context_update", "", NoTask, changed)
        \/ p = MakePlan("reply", "", NoTask, {})
    BY <1>6 DEF BuildPlans
  <2>2. \/ p.kind = "context_update" /\ p.changed = changed
        \/ p.kind = "reply" /\ p.reason = ""
    <3>1. CASE p = MakePlan("context_update", "", NoTask, changed)
      BY <3>1 DEF MakePlan
    <3>2. CASE p = MakePlan("reply", "", NoTask, {})
      BY <3>2 DEF MakePlan
    <3> QED
      BY <2>1, <3>1, <3>2
  <2> QED
    BY <2>2, <1>6
<1> QED
  BY <1>2, <1>3, <1>4, <1>5, <1>6

----------------------------------------------------------------------------
(* Type correctness.                                                       *)

\* The stores' part of the type invariant, and the event loop's.
StoresOK ==
    /\ slots \in [Sessions -> SlotStates]
    /\ tasks \in [Sessions -> TaskContexts]
    /\ requests \in [Sessions -> Requests \cup {NoRequest}]

LoopOK ==
    /\ loop \in Turns \cup {NoTurn}
    /\ pc \in [Turns -> Steps]
    /\ ctx \in [Turns -> Contexts]

\* The context a turn slot has when no request uses it.
LEMMA BlankType == Blank \in Contexts
<1>1. Blank.session \in Sessions /\ Blank.message \in Messages
  BY TurnsAssumption DEF Blank
<1>2. /\ NoTaskContext \in TaskContexts /\ NoSlots \in Catalogs
      /\ NoSlots \in SlotStates /\ NoPlan \in Plans /\ NoBatch \in Batches
  BY DEF NoTaskContext, TaskContexts, NoSlots, Catalogs, SlotStates, NoPlan, MakePlan,
         Plans, NoBatch, Batches, Effects, Acts
<1> QED
  BY <1>1, <1>2 DEF Blank, Contexts

\* A step that goes on with a well-formed context keeps the loop's part ...
LEMMA ProceedType ==
    ASSUME LoopOK, NEW t \in Turns, NEW step \in Steps, NEW c \in Contexts,
           Proceed(t, step, c)
    PROVE  LoopOK'
BY DEF LoopOK, Proceed, Goto

\* ... and so does a turn's end.
LEMMA LeaveType ==
    ASSUME LoopOK, NEW t \in Turns, Leave(t)
    PROVE  LoopOK'
BY BlankType DEF LoopOK, Leave, Goto, Steps

\* The initial state is well formed.
LEMMA InitType == Init => TypeOK
<1> SUFFICES ASSUME Init PROVE TypeOK
  OBVIOUS
<1>1. NoSlots \in SlotStates /\ NoTaskContext \in TaskContexts
  BY DEF NoSlots, SlotStates, NoTaskContext, TaskContexts
<1> QED
  BY <1>1, BlankType DEF Init, TypeOK, Steps

\* Every step keeps the state well formed.
LEMMA NextType == TypeOK /\ [Next]_vars => TypeOK'
<1> SUFFICES ASSUME TypeOK, [Next]_vars PROVE TypeOK'
  OBVIOUS
<1> USE DEF Running
<1>a. LoopOK /\ StoresOK
  BY DEF TypeOK, LoopOK, StoresOK
<1>b. \A t \in Turns : ctx[t] \in Contexts
  BY <1>a DEF LoopOK
<1>c. UNCHANGED stores => StoresOK'
  BY <1>a DEF stores, StoresOK
<1>d. LoopOK' /\ StoresOK' => TypeOK'
  BY DEF TypeOK, LoopOK, StoresOK
<1>1. ASSUME NEW t \in Turns, NEW s \in Sessions, NEW m \in Messages,
             NEW d \in Workspaces, Arrive(t, s, m, d)
      PROVE  TypeOK'
  <2>1. [ctx[t] EXCEPT !.session = s, !.message = m, !.dataset = d] \in Contexts
    BY <1>b, TurnsAssumption DEF Contexts
  <2> QED
    BY <1>1, <2>1, <1>a, <1>c, <1>d, ProceedType DEF Arrive, Steps
<1>2. ASSUME NEW t \in Turns, Step(t)
      PROVE  TypeOK'
  <2>1. CASE LoadTaskContext(t)
    <3>1. [ctx[t] EXCEPT !.task = tasks[ctx[t].session]] \in Contexts
      BY <1>a, <1>b DEF StoresOK, Contexts
    <3> QED
      BY <2>1, <3>1, <1>a, <1>c, <1>d, ProceedType DEF LoadTaskContext, Steps
  <2>2. CASE LoadPendingRequest(t)
    <3>1. [ctx[t] EXCEPT !.request = requests[ctx[t].session]] \in Contexts
      BY <1>a, <1>b DEF StoresOK, Contexts
    <3> QED
      BY <2>2, <3>1, <1>a, <1>c, <1>d, ProceedType DEF LoadPendingRequest, Steps
  <2>3. CASE LoadCatalog(t)
    <3>1. LoadedCatalog(ctx[t].dataset) \in Catalogs
      BY <1>b, LoadedCatalogType DEF Contexts
    <3>2. [ctx[t] EXCEPT !.catalog = LoadedCatalog(ctx[t].dataset)] \in Contexts
      BY <1>b, <3>1 DEF Contexts
    <3> QED
      BY <2>3, <3>2, <1>a, <1>c, <1>d, ProceedType DEF LoadCatalog, Steps
  <2>4. CASE PreRecognize(t)
    <3> DEFINE cat == Narrowed(ctx[t].catalog, Mentions[ctx[t].message], ctx[t].dataset)
    <3>1. cat \in Catalogs
      BY <1>b, NarrowedShrinks DEF Contexts
    <3>2. [ctx[t] EXCEPT !.catalog = cat] \in Contexts
      BY <1>b, <3>1 DEF Contexts
    <3> QED
      BY <2>4, <3>2, <1>a, <1>c, <1>d, ProceedType DEF PreRecognize, Steps
  <2>5. CASE CallRecognizer(t)
    BY <2>5, <1>a, <1>c, <1>d DEF CallRecognizer, Goto, LoopOK, Steps
  <2>6. CASE InferIndicator(t)
    <3> DEFINE r == Infer(ctx[t].intents, ctx[t].request, ctx[t].catalog,
                          Mentions[ctx[t].message], ctx[t].message \in Bare,
                          ctx[t].dataset)
               c == [ctx[t] EXCEPT !.intents = r.intents, !.drop = r.drop, !.plan = r.plan,
                                   !.request = IF r.raised = NoRequest THEN @ ELSE r.raised]
    <3>1. /\ r.intents \in SUBSET Intents /\ r.plan \in Plans
          /\ r.raised \in Requests \cup {NoRequest} /\ r.drop \in BOOLEAN
      BY <1>b, InferType DEF Contexts
    <3>2. (r.plan = NoPlan /\ Proceed(t, "normalize", c))
             \/ (r.plan # NoPlan /\ Answer(t, c))
      BY <2>6 DEF InferIndicator
    <3> HIDE DEF r
    <3>3. c \in Contexts
      BY <1>b, <3>1 DEF Contexts
    <3> HIDE DEF c
    <3> QED
      BY <2>6, <3>2, <3>3, <1>a, <1>c, <1>d, ProceedType DEF InferIndicator, Answer, Steps
  <2>7. CASE NormalizeResolverQuery(t)
    <3>1. InjectQuery(ctx[t].intents) \in SUBSET Intents
      BY <1>b, InjectQueryType DEF Contexts
    <3>2. [ctx[t] EXCEPT !.intents = InjectQuery(@)] \in Contexts
      BY <1>b, <3>1 DEF Contexts
    <3> QED
      BY <2>7, <3>2, <1>a, <1>c, <1>d, ProceedType DEF NormalizeResolverQuery, Steps
  <2>8. CASE ResolveSlots(t)
    <3>1. Resolve(ctx[t].intents, ctx[t].catalog) \in Batches
      BY <1>b, ResolveType DEF Contexts
    <3>2. [ctx[t] EXCEPT !.batch = Resolve(ctx[t].intents, ctx[t].catalog)] \in Contexts
      BY <1>b, <3>1 DEF Contexts
    <3> QED
      BY <2>8, <3>2, <1>a, <1>c, <1>d, ProceedType DEF ResolveSlots, Steps
  <2>9. CASE ValidateSlots(t)
    <3>1. MakePlan("clarify", "invalid_slots", NoTask, {}) \in Plans
      BY DEF MakePlan, Plans
    <3>2. [ctx[t] EXCEPT !.plan = MakePlan("clarify", "invalid_slots", NoTask, {})] \in Contexts
      BY <1>b, <3>1 DEF Contexts
    <3>3. CASE Leave(t)
      BY <2>9, <3>3, <1>a, <1>c, <1>d, LeaveType DEF ValidateSlots
    <3>4. CASE ~Leave(t)
      BY <2>9, <3>4, <3>2, <1>a, <1>b, <1>c, <1>d, ProceedType DEF ValidateSlots, Answer, Steps
    <3> QED
      BY <3>3, <3>4
  <2>10. CASE CommitSlots(t)
    <3> DEFINE now == slots[ctx[t].session]
    <3>1. now \in SlotStates
      BY <1>a, <1>b DEF StoresOK, Contexts
    <3>2. Commit(now, ctx[t].batch) \in SlotStates
      BY <1>b, <3>1, CommitType DEF Contexts
    <3>3. [ctx[t] EXCEPT !.before = now, !.state = Commit(now, ctx[t].batch)] \in Contexts
      BY <1>b, <3>1, <3>2 DEF Contexts
    <3> QED
      BY <2>10, <3>3, <1>a, <1>c, <1>d, ProceedType DEF CommitSlots, Steps
  <2>11. CASE Autofill(t)
    <3>1. PICK st : /\ Proceed(t, "write", [ctx[t] EXCEPT !.state = st])
                    /\ \/ st = ctx[t].state
                       \/ \E n \in AutofillTasks(ctx[t].intents) :
                             st \in Autofilled(ctx[t].state, Touched(ctx[t].batch), n,
                                               RowsFor(ctx[t].dataset))
      BY <2>11 DEF Autofill
    <3>2. st \in SlotStates
      <4>1. RowsFor(ctx[t].dataset) \in SUBSET Rows
        BY DEF RowsFor
      <4>2. AutofillTasks(ctx[t].intents) \subseteq Tasks
        BY DEF AutofillTasks
      <4>3. ctx[t].state \in SlotStates
        BY <1>b DEF Contexts
      <4> QED
        BY <3>1, <4>1, <4>2, <4>3, AutofilledIsGood DEF GoodFill
    <3>3. [ctx[t] EXCEPT !.state = st] \in Contexts
      BY <1>b, <3>2 DEF Contexts
    <3> QED
      BY <2>11, <3>1, <3>3, <1>a, <1>c, <1>d, ProceedType DEF Autofill, Steps
  <2>12. CASE WriteSlots(t)
    <3>1. StoresOK'
      BY <2>12, <1>a, <1>b DEF WriteSlots, StoresOK, Contexts
    <3> QED
      BY <2>12, <3>1, <1>a, <1>b, <1>d, ProceedType DEF WriteSlots, Steps
  <2>13. CASE Plan(t)
    <3>1. PICK p \in PlansOf(t) : Answer(t, [ctx[t] EXCEPT !.plan = p])
      BY <2>13 DEF Plan
    <3>2. p \in Plans
      BY ChangedType, QueryPlansType, BuildPlansType DEF PlansOf
    <3>3. [ctx[t] EXCEPT !.plan = p] \in Contexts
      BY <1>b, <3>2 DEF Contexts
    <3> QED
      BY <2>13, <3>1, <3>3, <1>a, <1>c, <1>d, ProceedType DEF Plan, Answer, Steps
  <2>14. CASE PlanningFails(t)
    BY <2>14, <1>a, <1>c, <1>d, LeaveType DEF PlanningFails
  <2>15. CASE SaveTaskContext(t)
    <3>1. NextTaskContext(tasks[ctx[t].session], ctx[t].plan) \in TaskContexts
      <4>1. tasks[ctx[t].session] \in TaskContexts /\ ctx[t].plan \in Plans
        BY <1>a, <1>b DEF StoresOK, Contexts
      <4> QED
        BY <4>1 DEF NextTaskContext, TaskContexts, NoTaskContext, Plans
    <3>2. StoresOK'
      BY <2>15, <3>1, <1>a, <1>b DEF SaveTaskContext, StoresOK, Contexts
    <3> QED
      BY <2>15, <3>2, <1>a, <1>b, <1>d, ProceedType DEF SaveTaskContext, Steps
  <2>16. CASE SavePendingRequest(t)
    <3>1. NextRequest(requests[ctx[t].session], ctx[t]) \in Requests \cup {NoRequest}
      BY <1>a, <1>b DEF NextRequest, StoresOK, Contexts
    <3>2. StoresOK'
      BY <2>16, <3>1, <1>a DEF SavePendingRequest, StoresOK
    <3> QED
      BY <2>16, <3>2, <1>a, <1>d, LeaveType DEF SavePendingRequest
  <2> QED
    BY <1>2, <2>1, <2>2, <2>3, <2>4, <2>5, <2>6, <2>7, <2>8, <2>9, <2>10, <2>11, <2>12,
       <2>13, <2>14, <2>15, <2>16 DEF Step
<1>3. ASSUME NEW t \in Turns, RecognizerReturns(t)
      PROVE  TypeOK'
  <2>1. CASE RecognizerFails(t)
    BY <2>1, <1>a, <1>c, <1>d, LeaveType DEF RecognizerFails
  <2>2. ASSUME NEW d \in Readings[ctx[t].message], Recognized(t, d)
        PROVE  TypeOK'
    <3> DEFINE c == [ctx[t] EXCEPT !.intents = NormalizeQueries(d.intents)]
    <3>1. d.intents \in SUBSET Intents
      BY <1>b, TurnsAssumption DEF Contexts, Decisions
    <3>2. c \in Contexts
      BY <1>b, <3>1, NormalizeQueriesType DEF Contexts
    <3>3. /\ MakePlan("reply", "", NoTask, {}) \in Plans
          /\ MakePlan("clarify", "ambiguous_intent", NoTask, {}) \in Plans
      BY DEF MakePlan, Plans
    <3>4. \A p \in Plans : [c EXCEPT !.plan = p] \in Contexts
      BY <3>2 DEF Contexts
    <3>5. UNCHANGED stores
      BY <2>2 DEF Recognized
    <3>6. \E e \in Contexts : Proceed(t, "save_task", e) \/ Proceed(t, "infer", e)
      BY <2>2, <3>2, <3>3, <3>4 DEF Recognized, Answer
    <3> QED
      BY <3>5, <3>6, <1>a, <1>c, <1>d, ProceedType DEF Steps
  <2> QED
    BY <1>3, <2>1, <2>2 DEF RecognizerReturns
<1>4. ASSUME NEW t \in Turns, Suspend(t) \/ Resume(t)
      PROVE  TypeOK'
  BY <1>4, <1>a, <1>c, <1>d DEF Suspend, Resume, LoopOK
<1>5. ASSUME NEW t \in Turns, GatewayFails(t)
      PROVE  TypeOK'
  BY <1>5, <1>a, <1>c, <1>d, LeaveType DEF GatewayFails
<1>6. CASE UNCHANGED vars
  BY <1>6, <1>a, <1>d DEF vars, LoopOK, StoresOK
<1> QED
  BY <1>1, <1>2, <1>3, <1>4, <1>5, <1>6 DEF Next, TurnNext

\* The stores and the turns in flight keep the shape of the Python objects.
THEOREM TypeCorrect == Spec => []TypeOK
BY InitType, NextType, PTL DEF Spec

----------------------------------------------------------------------------
(* What a step leaves alone.                                               *)

\* A step moves one turn: the others keep their place and their context.
LEMMA OneTurnMoves ==
    ASSUME TypeOK, NEW t \in Turns, NEW u \in Turns \ {t}, TurnNext(t)
    PROVE  pc'[u] = pc[u] /\ ctx'[u] = ctx[u]
<1>1. pc' = pc \/ \E step : Goto(t, step)
  BY DEF TurnNext, Arrive, Step, RecognizerReturns, Suspend, Resume, GatewayFails, LoadTaskContext,
         LoadPendingRequest, LoadCatalog, PreRecognize, CallRecognizer, Recognized,
         RecognizerFails, InferIndicator, NormalizeResolverQuery, ResolveSlots,
         ValidateSlots, CommitSlots, Autofill, WriteSlots, Plan, PlanningFails,
         SaveTaskContext, SavePendingRequest, Proceed, Answer, Leave
<1>2. ctx' = ctx \/ \E c : ctx' = [ctx EXCEPT ![t] = c]
  BY DEF TurnNext, Arrive, Step, RecognizerReturns, Suspend, Resume, GatewayFails, LoadTaskContext,
         LoadPendingRequest, LoadCatalog, PreRecognize, CallRecognizer, Recognized,
         RecognizerFails, InferIndicator, NormalizeResolverQuery, ResolveSlots,
         ValidateSlots, CommitSlots, Autofill, WriteSlots, Plan, PlanningFails,
         SaveTaskContext, SavePendingRequest, Proceed, Answer, Leave
<1> QED
  BY <1>1, <1>2 DEF TypeOK, Goto

\* Only WriteSlots stores slots, and it stores the turn's state.
LEMMA StoredSlots ==
    ASSUME NEW t \in Turns, TurnNext(t)
    PROVE  \/ slots' = slots
           \/ WriteSlots(t) /\ slots' = [slots EXCEPT ![ctx[t].session] = ctx[t].state]
BY DEF TurnNext, Arrive, Step, RecognizerReturns, Suspend, Resume, GatewayFails, LoadTaskContext,
       LoadPendingRequest, LoadCatalog, PreRecognize, CallRecognizer, Recognized,
       RecognizerFails, InferIndicator, NormalizeResolverQuery, ResolveSlots,
       ValidateSlots, CommitSlots, Autofill, WriteSlots, Plan, PlanningFails,
       SaveTaskContext, SavePendingRequest, stores

----------------------------------------------------------------------------
(* OnlyOfferedValues: what a session holds is what Sigma offers.           *)

\* The strengthening that is inductive: besides the sessions, every turn in
\* flight has a catalog within what Sigma offers and computes on such a
\* state, and a turn about to commit has passed the validator.
OfferedInv ==
    /\ \A s \in Sessions : Offered(slots[s])
    /\ \A t \in Turns :
          /\ Offered(ctx[t].catalog) /\ Offered(ctx[t].state)
          /\ pc[t] = "commit" => InvalidSlots(ctx[t].batch, ctx[t].catalog) = {}

\* The part of it that is about turn t.
Within(t) ==
    /\ Offered(ctx[t].catalog) /\ Offered(ctx[t].state)
    /\ pc[t] = "commit" => InvalidSlots(ctx[t].batch, ctx[t].catalog) = {}

\* A turn that only replaces other parts of its context stays within, unless
\* it goes to commit.
LEMMA ProceedWithin ==
    ASSUME TypeOK, NEW t \in Turns, NEW step, NEW c,
           Proceed(t, step, c), step # "commit",
           Offered(c.catalog), Offered(c.state)
    PROVE  Within(t)'
BY DEF TypeOK, Proceed, Goto, Within

\* Offered speaks of constants only.
LEMMA NothingOffered == Offered(NoSlots)
BY DEF Offered, NoSlots

\* A turn that ends is within.
LEMMA LeaveWithin ==
    ASSUME TypeOK, NEW t \in Turns, Leave(t)
    PROVE  Within(t)'
BY NothingOffered DEF TypeOK, Leave, Goto, Within, Blank

\* Every action of a turn keeps that turn within.
LEMMA MoverWithin ==
    ASSUME TypeOK, OfferedInv, NEW t \in Turns, TurnNext(t)
    PROVE  Within(t)'
<1> USE DEF Running
<1>a. ctx[t] \in Contexts
  BY DEF TypeOK
<1>b. Within(t)
  BY DEF OfferedInv, Within
<1>c. ASSUME NEW c, NEW step, Proceed(t, step, c), step # "commit",
             c.catalog = ctx[t].catalog, c.state = ctx[t].state
      PROVE  Within(t)'
  BY <1>b, <1>c, ProceedWithin DEF Within
<1>1. ASSUME NEW s \in Sessions, NEW m \in Messages, NEW d \in Workspaces, Arrive(t, s, m, d)
      PROVE  Within(t)'
  <2> DEFINE c == [ctx[t] EXCEPT !.session = s, !.message = m, !.dataset = d]
  <2>1. c.catalog = ctx[t].catalog /\ c.state = ctx[t].state
    BY <1>a DEF Contexts
  <2>2. Proceed(t, "load_task", c)
    BY <1>1 DEF Arrive
  <2> HIDE DEF c
  <2> QED
    BY <2>1, <2>2, <1>c
<1>2. CASE LoadTaskContext(t) \/ LoadPendingRequest(t) \/ NormalizeResolverQuery(t)
           \/ ResolveSlots(t)
  BY <1>2, <1>a, <1>b, ProceedWithin
     DEF LoadTaskContext, LoadPendingRequest, NormalizeResolverQuery, ResolveSlots,
         Within, Contexts
<1>3. CASE LoadCatalog(t)
  <2>1. Offered(LoadedCatalog(ctx[t].dataset))
    BY <1>a, LoadedCatalogGrows DEF Contexts
  <2> QED
    BY <1>3, <2>1, <1>a, <1>b, ProceedWithin DEF LoadCatalog, Within, Contexts
<1>4. CASE PreRecognize(t)
  <2> DEFINE cat == Narrowed(ctx[t].catalog, Mentions[ctx[t].message], ctx[t].dataset)
  <2>1. \A s \in Slots : cat[s] \subseteq ctx[t].catalog[s]
    BY <1>a, NarrowedShrinks DEF Contexts
  <2> HIDE DEF cat
  <2>2. Offered(cat)
    BY <2>1, <1>b DEF Offered, Within
  <2>3. Proceed(t, "recognize", [ctx[t] EXCEPT !.catalog = cat])
    BY <1>4 DEF PreRecognize, cat
  <2> QED
    BY <2>2, <2>3, <1>a, <1>b, ProceedWithin DEF Within, Contexts
<1>5. CASE CallRecognizer(t)
  BY <1>5, <1>b DEF CallRecognizer, Goto, Within, TypeOK
<1>6. CASE InferIndicator(t)
  <2>1. PICK is, dr, pl, rq :
           LET c == [ctx[t] EXCEPT !.intents = is, !.drop = dr, !.plan = pl, !.request = rq]
           IN  Proceed(t, "normalize", c) \/ Proceed(t, "save_task", c)
    BY <1>6 DEF InferIndicator, Answer
  <2> DEFINE c == [ctx[t] EXCEPT !.intents = is, !.drop = dr, !.plan = pl, !.request = rq]
  <2>2. c.catalog = ctx[t].catalog /\ c.state = ctx[t].state
    BY <1>a DEF Contexts
  <2>3. Proceed(t, "normalize", c) \/ Proceed(t, "save_task", c)
    BY <2>1
  <2> HIDE DEF c
  <2> QED
    BY <2>2, <2>3, <1>c
<1>7. CASE ValidateSlots(t)
  <2>1. CASE Leave(t)
    BY <2>1, LeaveWithin
  <2>2. CASE /\ InvalidSlots(ctx[t].batch, ctx[t].catalog) = {}
             /\ Proceed(t, "commit", ctx[t])
    BY <2>2, <1>b DEF Within, Proceed, Goto, TypeOK
  <2>3. CASE Answer(t, [ctx[t] EXCEPT !.plan = MakePlan("clarify", "invalid_slots", NoTask, {})])
    BY <2>3, <1>a, <1>b, ProceedWithin DEF Within, Answer, Contexts
  <2> QED
    BY <1>7, <2>1, <2>2, <2>3 DEF ValidateSlots
<1>8. CASE CommitSlots(t)
  <2> DEFINE now == slots[ctx[t].session]
             new == Commit(now, ctx[t].batch)
  <2>1. now \in SlotStates /\ Offered(now)
    BY <1>a DEF TypeOK, OfferedInv, Contexts
  <2>2. InvalidSlots(ctx[t].batch, ctx[t].catalog) = {}
    BY <1>8, <1>b DEF CommitSlots, Within
  <2>3. Offered(new)
    BY <2>1, <2>2, <1>a, <1>b, CommitOffered DEF Within, Contexts
  <2>4. Proceed(t, "autofill", [ctx[t] EXCEPT !.before = now, !.state = new])
    BY <1>8 DEF CommitSlots
  <2> DEFINE c == [ctx[t] EXCEPT !.before = now, !.state = new]
  <2> HIDE DEF now, new
  <2>5. c.catalog = ctx[t].catalog /\ c.state = new
    BY <1>a DEF Contexts
  <2>6. Proceed(t, "autofill", c)
    BY <2>4
  <2> HIDE DEF c
  <2> QED
    BY <2>3, <2>5, <2>6, <1>b, ProceedWithin DEF Within
<1>9. CASE Autofill(t)
  <2>1. PICK st : /\ Proceed(t, "write", [ctx[t] EXCEPT !.state = st])
                  /\ \/ st = ctx[t].state
                     \/ \E n \in AutofillTasks(ctx[t].intents) :
                           st \in Autofilled(ctx[t].state, Touched(ctx[t].batch), n,
                                             RowsFor(ctx[t].dataset))
    BY <1>9 DEF Autofill
  <2>2. /\ RowsFor(ctx[t].dataset) \in SUBSET Rows
        /\ AutofillTasks(ctx[t].intents) \subseteq Tasks
    BY DEF RowsFor, AutofillTasks
  <2>3. Offered(st)
    <3>1. ctx[t].state \in SlotStates /\ Offered(ctx[t].state)
      BY <1>a, <1>b DEF Within, Contexts
    <3>2. CASE st = ctx[t].state
      BY <3>1, <3>2
    <3>3. ASSUME NEW n \in AutofillTasks(ctx[t].intents),
                 st \in Autofilled(ctx[t].state, Touched(ctx[t].batch), n,
                                   RowsFor(ctx[t].dataset))
          PROVE  Offered(st)
      <4>1. GoodFill(st, ctx[t].state, Touched(ctx[t].batch))
        BY <2>2, <3>1, <3>3, AutofilledIsGood
      <4> QED
        BY <3>1, <4>1 DEF GoodFill
    <3> QED
      BY <2>1, <3>2, <3>3
  <2> QED
    BY <2>1, <2>3, <1>a, <1>b, ProceedWithin DEF Within, Contexts
<1>10. CASE WriteSlots(t)
  BY <1>10, <1>b, ProceedWithin DEF WriteSlots, Within
<1>11. CASE Plan(t)
  <2>1. PICK p : Proceed(t, "save_task", [ctx[t] EXCEPT !.plan = p])
    BY <1>11 DEF Plan, Answer
  <2> QED
    BY <2>1, <1>a, <1>b, ProceedWithin DEF Within, Contexts
<1>12. CASE SaveTaskContext(t)
  BY <1>12, <1>b, ProceedWithin DEF SaveTaskContext, Within
<1>13. CASE PlanningFails(t) \/ SavePendingRequest(t) \/ GatewayFails(t) \/ RecognizerFails(t)
  BY <1>13, LeaveWithin DEF PlanningFails, SavePendingRequest, GatewayFails, RecognizerFails
<1>14. ASSUME NEW d, Recognized(t, d)
       PROVE  Within(t)'
  <2>1. PICK is, pl :
           \/ Proceed(t, "infer", [ctx[t] EXCEPT !.intents = is])
           \/ Proceed(t, "save_task", [[ctx[t] EXCEPT !.intents = is] EXCEPT !.plan = pl])
    BY <1>14 DEF Recognized, Answer
  <2> DEFINE c == [ctx[t] EXCEPT !.intents = is]
             e == [c EXCEPT !.plan = pl]
  <2>2. /\ c.catalog = ctx[t].catalog /\ c.state = ctx[t].state
        /\ e.catalog = ctx[t].catalog /\ e.state = ctx[t].state
    BY <1>a DEF Contexts
  <2>3. Proceed(t, "infer", c) \/ Proceed(t, "save_task", e)
    BY <2>1
  <2> HIDE DEF c, e
  <2> QED
    BY <2>2, <2>3, <1>c
<1>15. CASE Suspend(t) \/ Resume(t)
  BY <1>15, <1>b DEF Suspend, Resume, Within
<1> QED
  BY <1>1, <1>2, <1>3, <1>4, <1>5, <1>6, <1>7, <1>8, <1>9, <1>10, <1>11, <1>12, <1>13,
     <1>14, <1>15 DEF TurnNext, Step, RecognizerReturns

\* The invariant is inductive.
LEMMA OfferedInvNext == TypeOK /\ OfferedInv /\ [Next]_vars => OfferedInv'
<1> SUFFICES ASSUME TypeOK, OfferedInv, [Next]_vars PROVE OfferedInv'
  OBVIOUS
<1>1. CASE UNCHANGED vars
  BY <1>1 DEF vars, OfferedInv
<1>2. CASE Next
  <2>1. PICK t \in Turns : TurnNext(t)
    BY <1>2 DEF Next
  <2>2. Within(t)'
    BY <2>1, MoverWithin
  <2>3. \A u \in Turns \ {t} : pc'[u] = pc[u] /\ ctx'[u] = ctx[u]
    BY <2>1, OneTurnMoves
  <2>4. \A s \in Sessions : Offered(slots'[s])
    BY <2>1, StoredSlots DEF OfferedInv, TypeOK, Contexts
  <2> QED
    BY <2>2, <2>3, <2>4 DEF OfferedInv, Within
<1> QED
  BY <1>1, <1>2

\* Whatever the recognizer makes up, whatever autofill adds and however turns
\* interleave, a session only ever holds values Sigma offers for that slot.
THEOREM OfferedCorrect == Spec => []OnlyOfferedValues
<1>1. Init => OfferedInv
  BY NothingOffered DEF Init, OfferedInv, Blank
<1>2. OfferedInv => OnlyOfferedValues
  BY DEF OfferedInv, OnlyOfferedValues, Offered
<1> QED
  BY <1>1, <1>2, TypeCorrect, OfferedInvNext, PTL DEF Spec

----------------------------------------------------------------------------
(* What a turn in flight knows of its session.                             *)

\* A turn that is somewhere in the pipeline holds the loop, unless it waits
\* for the recognizer or for a suspending gateway.
OnLoop(t) ==
    \/ loop = t
    \/ pc[t] \in {"idle", "recognizing"}
    \/ AsyncGateway /\ CallsGateway(t)

\* What turn t's context says of its session, step by step.
Commits(t) ==
    /\ pc[t] = "autofill" => ctx[t].state = Commit(ctx[t].before, ctx[t].batch)
    /\ pc[t] = "write" => \A n \in Touched(ctx[t].batch) :
                             ctx[t].state[n] = Commit(ctx[t].before, ctx[t].batch)[n]
    /\ pc[t] \in {"autofill", "write"} /\ ~AsyncGateway => SlotsOf(t) = ctx[t].before

Answers(t) ==
    /\ pc[t] = "plan" /\ ~CallsGateway(t) => SlotsOf(t) = ctx[t].state
    /\ pc[t] \in {"save_task", "save_request"} /\ Built(t) =>
          /\ SlotsOf(t) = ctx[t].state
          /\ ctx[t].plan.changed = Changed(ctx[t].before, ctx[t].state)
    /\ pc[t] = "save_request" /\ ctx[t].plan.kind = "task" =>
          tasks[ctx[t].session] = [pending |-> NoTask, active |-> ctx[t].plan.task]

TurnOK(t) == OnLoop(t) /\ Commits(t) /\ Answers(t)

\* The inductive invariant.
TurnInv == \A t \in Turns : TurnOK(t)

----------------------------------------------------------------------------
\* Nothing is said of a turn before its slots are resolved.
LEMMA EarlyOK ==
    ASSUME TypeOK, NEW t \in Turns, NEW step, NEW c, Proceed(t, step, c),
           step \notin {"autofill", "write", "plan", "save_task", "save_request"}
    PROVE  TurnOK(t)'
BY DEF TypeOK, Proceed, Goto, TurnOK, OnLoop, Commits, Answers

\* Nor of one that has ended.
LEMMA LeaveOK ==
    ASSUME TypeOK, NEW t \in Turns, Leave(t)
    PROVE  TurnOK(t)'
BY DEF TypeOK, Leave, Goto, TurnOK, OnLoop, Commits, Answers

\* An answer the planner did not build: nothing is said of it either.
LEMMA EarlyAnswerOK ==
    ASSUME TypeOK, NEW t \in Turns, NEW c, Answer(t, c),
           c.plan.kind \in {"reply", "clarify"}, c.plan.reason # "missing_slots"
    PROVE  TurnOK(t)'
<1>1. pc'[t] = "save_task" /\ ctx'[t] = c /\ loop' = t
  BY DEF TypeOK, Answer, Proceed, Goto
<1> QED
  BY <1>1 DEF TurnOK, OnLoop, Commits, Answers, Built

\* Every action of a turn establishes what it says of the turn.
LEMMA MoverOK ==
    ASSUME TypeOK, TurnInv, NEW t \in Turns, TurnNext(t)
    PROVE  TurnOK(t)'
<1> USE DEF Running
<1>a. ctx[t] \in Contexts
  BY DEF TypeOK
<1>b. TurnOK(t)
  BY DEF TurnInv
<1>1. ASSUME NEW s \in Sessions, NEW m \in Messages, NEW d \in Workspaces, Arrive(t, s, m, d)
      PROVE  TurnOK(t)'
  BY <1>1, EarlyOK DEF Arrive
<1>2. CASE LoadTaskContext(t) \/ LoadPendingRequest(t) \/ LoadCatalog(t) \/ PreRecognize(t)
           \/ NormalizeResolverQuery(t) \/ ResolveSlots(t)
  BY <1>2, EarlyOK DEF LoadTaskContext, LoadPendingRequest, LoadCatalog, PreRecognize,
         NormalizeResolverQuery, ResolveSlots
<1>3. CASE CallRecognizer(t)
  BY <1>3 DEF CallRecognizer, Goto, TypeOK, TurnOK, OnLoop, Commits, Answers
<1>4. ASSUME NEW d, Recognized(t, d)
      PROVE  TurnOK(t)'
  <2> DEFINE c == [ctx[t] EXCEPT !.intents = NormalizeQueries(d.intents)]
             low == [c EXCEPT !.plan = MakePlan("reply", "", NoTask, {})]
             amb == [c EXCEPT !.plan = MakePlan("clarify", "ambiguous_intent", NoTask, {})]
  <2>1. low.plan.kind = "reply" /\ low.plan.reason = ""
    BY <1>a DEF Contexts, MakePlan
  <2>2. amb.plan.kind = "clarify" /\ amb.plan.reason = "ambiguous_intent"
    BY <1>a DEF Contexts, MakePlan
  <2>3. Answer(t, low) \/ Answer(t, amb) \/ Proceed(t, "infer", c)
    BY <1>4 DEF Recognized
  <2> HIDE DEF c, low, amb
  <2> QED
    BY <2>1, <2>2, <2>3, EarlyOK, EarlyAnswerOK
<1>5. CASE InferIndicator(t)
  <2> DEFINE r == Infer(ctx[t].intents, ctx[t].request, ctx[t].catalog,
                        Mentions[ctx[t].message], ctx[t].message \in Bare, ctx[t].dataset)
             c == [ctx[t] EXCEPT !.intents = r.intents, !.drop = r.drop, !.plan = r.plan,
                                 !.request = IF r.raised = NoRequest THEN @ ELSE r.raised]
  <2>1. r.plan # NoPlan => r.plan.kind = "clarify" /\ r.plan.reason = "ambiguous_slots"
    BY InferAnswers
  <2>2. \/ Proceed(t, "normalize", c)
        \/ r.plan # NoPlan /\ Answer(t, c)
    BY <1>5 DEF InferIndicator
  <2> HIDE DEF r
  <2>3. c.plan = r.plan
    BY <1>a DEF Contexts
  <2> HIDE DEF c
  <2> QED
    BY <2>1, <2>2, <2>3, EarlyOK, EarlyAnswerOK
<1>6. CASE ValidateSlots(t)
  <2> DEFINE c == [ctx[t] EXCEPT !.plan = MakePlan("clarify", "invalid_slots", NoTask, {})]
  <2>1. c.plan.kind = "clarify" /\ c.plan.reason = "invalid_slots"
    BY <1>a DEF Contexts, MakePlan
  <2>2. Proceed(t, "commit", ctx[t]) \/ Answer(t, c) \/ Leave(t)
    BY <1>6 DEF ValidateSlots
  <2> HIDE DEF c
  <2> QED
    BY <2>1, <2>2, EarlyOK, EarlyAnswerOK, LeaveOK
<1>7. CASE CommitSlots(t)
  <2> DEFINE now == slots[ctx[t].session]
             c == [ctx[t] EXCEPT !.before = now, !.state = Commit(now, ctx[t].batch)]
  <2>1. /\ c.before = now /\ c.state = Commit(now, ctx[t].batch)
        /\ c.batch = ctx[t].batch /\ c.session = ctx[t].session
    BY <1>a DEF Contexts
  <2>2. Proceed(t, "autofill", c) /\ slots' = slots
    BY <1>7 DEF CommitSlots, stores
  <2> HIDE DEF c
  <2>3. pc'[t] = "autofill" /\ ctx'[t] = c /\ loop' = t
    BY <2>2 DEF TypeOK, Proceed, Goto
  <2> QED
    BY <2>1, <2>2, <2>3 DEF TurnOK, OnLoop, Commits, Answers, SlotsOf
<1>8. CASE Autofill(t)
  <2>1. PICK st : /\ Proceed(t, "write", [ctx[t] EXCEPT !.state = st])
                  /\ \/ st = ctx[t].state
                     \/ \E n \in AutofillTasks(ctx[t].intents) :
                           st \in Autofilled(ctx[t].state, Touched(ctx[t].batch), n,
                                             RowsFor(ctx[t].dataset))
    BY <1>8 DEF Autofill
  <2>2. \A n \in Touched(ctx[t].batch) : st[n] = ctx[t].state[n]
    <3>1. CASE st = ctx[t].state
      BY <3>1
    <3>2. ASSUME NEW n \in AutofillTasks(ctx[t].intents),
                 st \in Autofilled(ctx[t].state, Touched(ctx[t].batch), n,
                                   RowsFor(ctx[t].dataset))
          PROVE  \A s \in Touched(ctx[t].batch) : st[s] = ctx[t].state[s]
      <4>1. /\ RowsFor(ctx[t].dataset) \in SUBSET Rows
            /\ AutofillTasks(ctx[t].intents) \subseteq Tasks
            /\ Touched(ctx[t].batch) \subseteq Slots
        BY DEF RowsFor, AutofillTasks, Touched
      <4>2. ctx[t].state \in SlotStates
        BY <1>a DEF Contexts
      <4>3. GoodFill(st, ctx[t].state, Touched(ctx[t].batch))
        BY <4>1, <4>2, <3>2, AutofilledIsGood
      <4> QED
        BY <4>1, <4>3 DEF GoodFill
    <3> QED
      BY <2>1, <3>1, <3>2
  <2> DEFINE c == [ctx[t] EXCEPT !.state = st]
  <2>3. /\ c.state = st /\ c.before = ctx[t].before
        /\ c.batch = ctx[t].batch /\ c.session = ctx[t].session
    BY <1>a DEF Contexts
  <2>4. Proceed(t, "write", c) /\ slots' = slots /\ pc[t] = "autofill"
    BY <1>8, <2>1 DEF Autofill, stores
  <2> HIDE DEF c
  <2>5. pc'[t] = "write" /\ ctx'[t] = c /\ loop' = t
    BY <2>4 DEF TypeOK, Proceed, Goto
  <2>6. ctx[t].state = Commit(ctx[t].before, ctx[t].batch)
    BY <2>4, <1>b DEF TurnOK, Commits
  <2> QED
    BY <2>2, <2>3, <2>4, <2>5, <2>6, <1>b DEF TurnOK, OnLoop, Commits, Answers, SlotsOf
<1>9. CASE WriteSlots(t)
  <2>1. Proceed(t, "plan", ctx[t])
    BY <1>9 DEF WriteSlots
  <2>2. pc'[t] = "plan" /\ ctx'[t] = ctx[t] /\ loop' = t
    BY <2>1 DEF TypeOK, Proceed, Goto
  <2>3. slots'[ctx[t].session] = ctx[t].state
    BY <1>9, <1>a DEF WriteSlots, TypeOK, Contexts
  <2> QED
    BY <2>2, <2>3 DEF TurnOK, OnLoop, Commits, Answers, SlotsOf
<1>10. CASE Plan(t)
  <2>1. PICK p \in PlansOf(t) : Answer(t, [ctx[t] EXCEPT !.plan = p])
    BY <1>10 DEF Plan
  <2> DEFINE c == [ctx[t] EXCEPT !.plan = p]
             names == ActionNames(ctx[t].intents)
  <2>2. /\ c.plan = p /\ c.state = ctx[t].state /\ c.before = ctx[t].before
        /\ c.catalog = ctx[t].catalog /\ c.dataset = ctx[t].dataset
        /\ c.session = ctx[t].session
    BY <1>a DEF Contexts
  <2>3. /\ \/ p.kind \in {"task", "context_update", "context_clear"}
           \/ p.reason = "missing_slots"
           => /\ p.changed = Changed(ctx[t].before, ctx[t].state)
              /\ ~(names \cap Queries # {}
                   /\ names \cap {"clear_context", "current"} = {})
    BY <2>1, QueryPlansType, BuiltPlans DEF PlansOf
  <2>4. Answer(t, c) /\ slots' = slots /\ pc[t] = "plan"
    BY <1>10, <2>1 DEF Plan, stores
  <2>5. ~(names \cap Queries # {} /\ names \cap {"clear_context", "current"} = {})
           => SlotsOf(t) = ctx[t].state
    BY <2>4, <1>b DEF TurnOK, Answers, CallsGateway
  <2> HIDE DEF c, names
  <2>6. pc'[t] = "save_task" /\ ctx'[t] = c /\ loop' = t
    BY <2>4 DEF TypeOK, Answer, Proceed, Goto
  <2>7. Commits(t)' /\ OnLoop(t)'
    BY <2>6 DEF Commits, OnLoop
  <2>8. Built(t)' => /\ SlotsOf(t)' = c.state
                     /\ c.plan.changed = Changed(c.before, c.state)
    BY <2>2, <2>3, <2>4, <2>5, <2>6 DEF Built, SlotsOf
  <2> QED
    BY <2>6, <2>7, <2>8 DEF TurnOK, Answers
<1>11. CASE SaveTaskContext(t)
  <2>1. /\ Proceed(t, "save_request", ctx[t]) /\ slots' = slots /\ pc[t] = "save_task"
        /\ tasks' = [tasks EXCEPT ![ctx[t].session] = NextTaskContext(@, ctx[t].plan)]
    BY <1>11 DEF SaveTaskContext
  <2>2. pc'[t] = "save_request" /\ ctx'[t] = ctx[t] /\ loop' = t
    BY <2>1 DEF TypeOK, Proceed, Goto
  <2>3. ctx[t].plan.kind = "task" =>
           tasks'[ctx[t].session] = [pending |-> NoTask, active |-> ctx[t].plan.task]
    BY <2>1, <1>a DEF TypeOK, Contexts, NextTaskContext
  <2>4. Built(t)' = Built(t) /\ SlotsOf(t)' = SlotsOf(t)
    BY <2>1, <2>2 DEF Built, SlotsOf
  <2> QED
    BY <2>1, <2>2, <2>3, <2>4, <1>b DEF TurnOK, OnLoop, Commits, Answers
<1>12. CASE PlanningFails(t) \/ SavePendingRequest(t) \/ GatewayFails(t) \/ RecognizerFails(t)
  BY <1>12, LeaveOK DEF PlanningFails, SavePendingRequest, GatewayFails, RecognizerFails
<1>13. CASE Suspend(t) \/ Resume(t)
  <2>1. UNCHANGED <<stores, pc, ctx>>
    BY <1>13 DEF Suspend, Resume
  <2>2. OnLoop(t)'
    BY <1>13, <2>1 DEF Suspend, Resume, OnLoop, CallsGateway
  <2>3. Commits(t)' /\ Answers(t)'
    BY <2>1, <1>b DEF TurnOK, Commits, Answers, SlotsOf, Built, CallsGateway, stores
  <2> QED
    BY <2>2, <2>3 DEF TurnOK
<1> QED
  BY <1>1, <1>2, <1>3, <1>4, <1>5, <1>6, <1>7, <1>8, <1>9, <1>10, <1>11, <1>12, <1>13
  DEF TurnNext, Step, RecognizerReturns

\* Who moves held the loop or takes it when it is free.
LEMMA MoverHasLoop ==
    ASSUME NEW t \in Turns, TurnNext(t)
    PROVE  loop \in {t, NoTurn}
BY DEF TurnNext, Arrive, Step, RecognizerReturns, Suspend, Resume, GatewayFails,
       LoadTaskContext, LoadPendingRequest, LoadCatalog, PreRecognize, CallRecognizer,
       Recognized, RecognizerFails, InferIndicator, NormalizeResolverQuery, ResolveSlots,
       ValidateSlots, CommitSlots, Autofill, WriteSlots, Plan, PlanningFails,
       SaveTaskContext, SavePendingRequest, Running

\* What is said of the other turns does not change: the ones that are said to
\* know their session hold the loop.
LEMMA OthersOK ==
    ASSUME TypeOK, TurnInv, NEW t \in Turns, NEW u \in Turns \ {t}, TurnNext(t)
    PROVE  TurnOK(u)'
<1>1. pc'[u] = pc[u] /\ ctx'[u] = ctx[u]
  BY OneTurnMoves
<1>2. TurnOK(u)
  BY DEF TurnInv
<1>3. loop # u
  BY MoverHasLoop, TurnsAssumption
<1>4. pc[u] \in {"idle", "recognizing"} \/ (AsyncGateway /\ CallsGateway(u))
  BY <1>2, <1>3 DEF TurnOK, OnLoop
<1>5. CallsGateway(u)' = CallsGateway(u)
  BY <1>1 DEF CallsGateway
<1>6. pc[u] \in {"idle", "recognizing", "catalog", "autofill", "plan"}
  BY <1>4 DEF CallsGateway
<1>7. OnLoop(u)'
  BY <1>1, <1>4, <1>5 DEF OnLoop
<1>8. Commits(u)'
  BY <1>1, <1>2, <1>4, <1>6 DEF TurnOK, Commits
<1>9. Answers(u)'
  BY <1>1, <1>4, <1>5, <1>6 DEF Answers
<1> QED
  BY <1>7, <1>8, <1>9 DEF TurnOK

\* The invariant is inductive.
LEMMA TurnInvInit == Init => TurnInv
BY DEF Init, TurnInv, TurnOK, OnLoop, Commits, Answers

LEMMA TurnInvNext == TypeOK /\ TurnInv /\ [Next]_vars => TurnInv'
<1> SUFFICES ASSUME TypeOK, TurnInv, [Next]_vars PROVE TurnInv'
  OBVIOUS
<1>1. CASE UNCHANGED vars
  <2> SUFFICES ASSUME NEW t \in Turns PROVE TurnOK(t)'
    BY DEF TurnInv
  <2>1. TurnOK(t)
    BY DEF TurnInv
  <2>2. CallsGateway(t)' = CallsGateway(t) /\ SlotsOf(t)' = SlotsOf(t) /\ Built(t)' = Built(t)
    BY <1>1 DEF vars, CallsGateway, SlotsOf, Built
  <2>3. OnLoop(t)' /\ Commits(t)'
    BY <1>1, <2>1, <2>2 DEF vars, TurnOK, OnLoop, Commits
  <2>4. Answers(t)'
    BY <1>1, <2>1, <2>2 DEF vars, TurnOK, Answers
  <2> QED
    BY <2>3, <2>4 DEF TurnOK
<1>2. CASE Next
  <2>1. PICK t \in Turns : TurnNext(t)
    BY <1>2 DEF Next
  <2>2. TurnOK(t)'
    BY <2>1, MoverOK
  <2>3. \A u \in Turns \ {t} : TurnOK(u)'
    BY <2>1, OthersOK
  <2> QED
    BY <2>2, <2>3 DEF TurnInv
<1> QED
  BY <1>1, <1>2

\* Both invariants hold of every reachable state.
LEMMA TurnInvariant == Spec => [](TypeOK /\ TurnInv)
BY InitType, NextType, TurnInvInit, TurnInvNext, PTL DEF Spec

----------------------------------------------------------------------------
(* The theorems.                                                           *)

\* Post-commit autofill never overrides what the user said in this turn,
\* whatever rows Sigma returns and whichever task is named.
THEOREM AutofillCorrect == Spec => []AutofillKeepsUserChoice
<1>1. TurnInv => AutofillKeepsUserChoice
  BY DEF TurnInv, TurnOK, Commits, AutofillKeepsUserChoice
<1> QED
  BY <1>1, TurnInvariant, PTL

\* While a turn is being answered its session holds the slots the answer was
\* planned from, and the diff says how they came about.  This needs no
\* assumption on the gateway: planning a task suspends nothing.
THEOREM AnswerCorrect == Spec => []AnswerDescribesSession
<1>1. TurnInv => AnswerDescribesSession
  BY DEF TurnInv, TurnOK, Answers, AnswerDescribesSession
<1> QED
  BY <1>1, TurnInvariant, PTL

\* With a gateway that blocks, as HttpSigmaGateway does, no turn overwrites
\* slots another one has stored since it read them.
THEOREM NoUpdateIsLost ==
    ASSUME ~AsyncGateway
    PROVE  Spec => NoLostUpdate
<1>1. TypeOK /\ TurnInv /\ [Next]_vars =>
         [\A t \in Turns : Moves(t, "write", "plan") => SlotsOf(t) = ctx[t].before]_vars
  BY DEF TurnInv, TurnOK, Commits, Moves
<1> QED
  BY <1>1, TurnInvariant, PTL DEF Spec, NoLostUpdate

\* After a turn that ends in a task the session's task context has it as the
\* active task and nothing pending, and no data type is asked for.
THEOREM TaskClosesSession == Spec => NothingOpenAfterTask
<1>1. ASSUME TypeOK, TurnInv, [Next]_vars, NEW t \in Turns,
             Moves(t, "save_request", "idle"), ctx[t].plan.kind = "task"
      PROVE  LET s == ctx[t].session
             IN  /\ tasks[s] = [pending |-> NoTask, active |-> ctx[t].plan.task]
                 /\ requests'[s] = NoRequest
  <2>1. tasks[ctx[t].session] = [pending |-> NoTask, active |-> ctx[t].plan.task]
    BY <1>1 DEF Moves, TurnInv, TurnOK, Answers
  <2>2. pc'[t] # pc[t]
    BY <1>1 DEF Moves
  <2>3. Next
    BY <2>2, <1>1 DEF vars
  <2>4. PICK u \in Turns : TurnNext(u)
    BY <2>3 DEF Next
  <2>5. TurnNext(t)
    BY <2>2, <2>4, <1>1, OneTurnMoves
  <2>6. SavePendingRequest(t)
    BY <1>1, <2>5 DEF Moves, TurnNext, Arrive, Step, RecognizerReturns, Suspend, Resume,
       GatewayFails, CallsGateway, LoadTaskContext, LoadPendingRequest, LoadCatalog,
       PreRecognize, CallRecognizer, Recognized, RecognizerFails, InferIndicator,
       NormalizeResolverQuery, ResolveSlots, ValidateSlots, CommitSlots, Autofill,
       WriteSlots, Plan, PlanningFails, SaveTaskContext, Running
  <2>7. ctx[t].session \in Sessions
    BY <1>1 DEF TypeOK, Contexts
  <2>8. requests'[ctx[t].session] = NoRequest
    BY <1>1, <2>6, <2>7 DEF SavePendingRequest, NextRequest, FinishesRequest, TypeOK
  <2> QED
    BY <2>1, <2>8
<1>2. TypeOK /\ TurnInv /\ [Next]_vars =>
         [\A t \in Turns :
            Moves(t, "save_request", "idle") /\ ctx[t].plan.kind = "task" =>
               LET s == ctx[t].session
               IN  /\ tasks[s] = [pending |-> NoTask, active |-> ctx[t].plan.task]
                   /\ requests'[s] = NoRequest]_vars
  BY <1>1
<1> QED
  BY <1>2, TurnInvariant, PTL DEF Spec, NothingOpenAfterTask

----------------------------------------------------------------------------
(* Resolver queries.                                                       *)

\* The slots a query asks about are slots, finitely many.
LEMMA AskedSlots ==
    ASSUME NEW c
    PROVE  /\ Asked(c) \subseteq Slots
           /\ "indicator_names" \in Asked(c) /\ Cardinality(Asked(c)) = 1
                 => Asked(c) = {"indicator_names"}
<1>1. Asked(c) \subseteq Slots
  BY DEF Asked, KnownQueries
<1>2. Slots \subseteq {"sensors", "test_segments", "indicator_names", "data_types"}
  BY ObservationAssumption DEF Slots, MultiSlots
<1>3. IsFiniteSet({"sensors", "test_segments", "indicator_names", "data_types"})
  <2>1. IsFiniteSet({"sensors"} \cup {"test_segments"} \cup {"indicator_names"} \cup {"data_types"})
    BY FS_Singleton, FS_Union
  <2> QED
    BY <2>1
<1>4. IsFiniteSet(Asked(c))
  BY <1>1, <1>2, <1>3, FS_Subset
<1> QED
  BY <1>1, <1>4, FS_Singleton

\* A row of data at the selected places, of the selected data type, is in
\* scope.
LEMMA RowInScope ==
    ASSUME NEW rows, NEW r \in rows, NEW st,
           st["data_types"] # {} => r.data_type \in st["data_types"],
           \A p \in PlaceSlots : st[p] # {} => r.place[p] \in st[p]
    PROVE  r \in InScope(rows, st)
BY FS_EmptySet DEF InScope, IsSingle

\* An entry of the availability is a row within the selection.
LEMMA AvailabilityEntry ==
    ASSUME NEW c, c.state \in SlotStates, NEW n, NEW e \in AvailabilityFor(c, n)
    PROVE  \E r \in RowsFor(c.dataset) :
              /\ e = Entry(r.data_type, r.place, NoValue)
              /\ \A s \in Slots \ Asked(c) : c.state[s] # {} => e[s] \in c.state[s] \cup {NoValue}
<1>1. PICK types : e \in Where(Availability(c.dataset), Wanted(Asked(c), c.state, types))
  BY DEF AvailabilityFor
<1>2. /\ e \in Availability(c.dataset)
      /\ \A s \in Slots : Wanted(Asked(c), c.state, types)[s] # {} =>
            e[s] \in Wanted(Asked(c), c.state, types)[s] \cup {NoValue}
  BY <1>1 DEF Where
<1>3. \A s \in Slots \ Asked(c) : c.state[s] # {} =>
         Wanted(Asked(c), c.state, types)[s] = c.state[s]
  BY DEF Wanted
<1> QED
  BY <1>2, <1>3 DEF Availability

\* An indicator entry is one Sigma lists for its data type at the selection.
LEMMA IndicatorEntry ==
    ASSUME NEW c, c.state \in SlotStates, NEW rows, NEW d, NEW e \in IndicatorEntries(c, rows, d)
    PROVE  /\ e["data_types"] = d /\ e["indicator_names"] \in IndicatorsOf[d]
           /\ \E r \in RowsFor(c.dataset) :
                 /\ r.data_type = d
                 /\ \A p \in PlaceSlots : c.state[p] # {} => r.place[p] \in c.state[p]
<1> DEFINE at == [p \in PlaceSlots |-> IF c.state[p] # {} THEN c.state[p]
                                       ELSE {x[p] : x \in OfType(rows, d)}]
           places == {pl \in [PlaceSlots -> UNION {at[p] : p \in PlaceSlots}] :
                         \A p \in PlaceSlots : pl[p] \in at[p]}
<1>0. IndicatorEntries(c, rows, d) =
         {Entry(d, pl, i) : pl \in places, i \in IndicatorsAt(d, at, RowsFor(c.dataset))}
  BY DEF IndicatorEntries
<1>1. PICK pl \in places, i \in IndicatorsAt(d, at, RowsFor(c.dataset)) : e = Entry(d, pl, i)
  <2> HIDE DEF at, places
  <2> QED
    BY <1>0
<1>2. e["data_types"] = d /\ e["indicator_names"] = i
  BY <1>1, SlotNames DEF Entry
<1>3. /\ i \in IndicatorsOf[d]
      /\ \E r \in RowsFor(c.dataset) : r.data_type = d /\ \A p \in PlaceSlots : r.place[p] \in at[p]
  BY <1>1 DEF IndicatorsAt
<1>4. \A p \in PlaceSlots : c.state[p] # {} => at[p] = c.state[p]
  OBVIOUS
<1> HIDE DEF at
<1> QED
  BY <1>2, <1>3, <1>4

\* What a query lists is offered, and leaves data in scope once it is picked.
LEMMA ListedHasData ==
    ASSUME NEW c, c.state \in SlotStates, c.dataset \in BOOLEAN, NEW said,
           NEW l \in Listings(c, said), NEW e \in l.entries,
           "indicator_names" \in Asked(c) => Cardinality(Asked(c)) = 1
    PROVE  LET picked == Asked(c) \cup IF "indicator_names" \in Asked(c)
                                       THEN {"data_types"} ELSE {}
           IN  /\ \A s \in picked : e[s] \in LoadedCatalog(c.dataset)[s]
               /\ InScope(RowsFor(c.dataset),
                          [s \in Slots |-> IF s \in picked THEN {e[s]} ELSE c.state[s]]) # {}
<1> DEFINE picked == Asked(c) \cup IF "indicator_names" \in Asked(c)
                                   THEN {"data_types"} ELSE {}
           rows == RowsFor(c.dataset)
           st   == [s \in Slots |-> IF s \in picked THEN {e[s]} ELSE c.state[s]]
<1>1. rows \subseteq Rows /\ NoValue \notin Values
  BY ObservationAssumption DEF RowsFor
<1>2. c.state \in [Slots -> SUBSET Values]
  BY DEF SlotStates
<1>3. picked \subseteq Slots
  BY AskedSlots, SlotNames
<1>4. CASE "indicator_names" \notin Asked(c)
  <2>1. PICK n : e \in AvailabilityFor(c, n)
    BY <1>4 DEF Listings, Listed
  <2>2. PICK r \in rows :
           /\ e = Entry(r.data_type, r.place, NoValue)
           /\ \A s \in Slots \ Asked(c) : c.state[s] # {} => e[s] \in c.state[s] \cup {NoValue}
    BY <2>1, AvailabilityEntry
  <2>3. picked = Asked(c)
    BY <1>4
  <2>4. e["data_types"] = r.data_type /\ \A p \in PlaceSlots : e[p] = r.place[p]
    BY <2>2, SlotNames DEF Entry
  <2>5. /\ r.data_type \in DataTypes /\ r.data_type \in Values
        /\ \A p \in PlaceSlots : r.place[p] \in Values
    BY <1>1, ObservationAssumption DEF Values
  <2>6. ASSUME NEW s \in picked
        PROVE  e[s] \in LoadedCatalog(c.dataset)[s]
    <3>1. s \in PlaceSlots \/ s = "data_types"
      BY <1>3, <1>4, <2>3, SlotNames
    <3>2. LoadedCatalog(c.dataset)["data_types"] = DataTypes
      BY SlotNames DEF LoadedCatalog
    <3>3. s \in PlaceSlots => LoadedCatalog(c.dataset)[s] = {x.place[s] : x \in rows}
      BY SlotNames DEF LoadedCatalog
    <3> QED
      BY <3>1, <3>2, <3>3, <2>4, <2>5
  <2>7. r \in InScope(rows, st)
    <3>1. st["data_types"] # {} => r.data_type \in st["data_types"]
      BY <2>2, <2>3, <2>4, <2>5, <1>1, SlotNames
    <3>2. \A p \in PlaceSlots : st[p] # {} => r.place[p] \in st[p]
      BY <2>2, <2>3, <2>4, <2>5, <1>1, SlotNames
    <3> QED
      BY <3>1, <3>2, RowInScope
  <2> QED
    BY <2>6, <2>7
<1>5. CASE "indicator_names" \in Asked(c)
  <2>1. picked = {"indicator_names", "data_types"}
    BY <1>5, AskedSlots
  <2>2. PICK xs, d : e \in IndicatorEntries(c, xs, d)
    <3>1. PICK n : l = IndicatorListing(c, said, n)
      BY <1>5 DEF Listings
    <3>2. PICK ys, ds : l.entries = {} \/ l.entries = UNION {IndicatorEntries(c, ys, d) : d \in ds}
      BY <3>1, Zenon DEF IndicatorListing, Listed
    <3> QED
      BY <3>2
  <2>3. e["data_types"] = d /\ e["indicator_names"] \in IndicatorsOf[d]
    BY <2>2, IndicatorEntry
  <2>4. PICK r \in rows : /\ r.data_type = d
                          /\ \A p \in PlaceSlots : c.state[p] # {} => r.place[p] \in c.state[p]
    BY <2>2, IndicatorEntry
  <2>5. d \in DataTypes
    BY <1>1, <2>4, ObservationAssumption
  <2>6. e["indicator_names"] \in Indicators /\ d \in DomainsOf(e["indicator_names"], c.dataset)
    BY <2>3, <2>4, <2>5, ObservationAssumption DEF DomainsOf
  <2>7. \A s \in picked : e[s] \in LoadedCatalog(c.dataset)[s]
    BY <2>1, <2>3, <2>5, <2>6, SlotNames DEF LoadedCatalog
  <2>8. r \in InScope(rows, st)
    <3>1. st["data_types"] = {d}
      BY <2>1, <2>3, SlotNames
    <3>2. \A p \in PlaceSlots : st[p] = c.state[p]
      BY <2>1, SlotNames
    <3> QED
      BY <3>1, <3>2, <2>4, RowInScope
  <2> QED
    BY <2>7, <2>8
<1> QED
  BY <1>4, <1>5

\* What a query lists can be chosen: it is offered, and leaves data in scope
\* (ObservationResolverQueryResponder.build).
THEOREM ListingsHaveData == Spec => []ListedCandidatesHaveData
<1>1. TypeOK => ListedCandidatesHaveData
  <2> SUFFICES ASSUME TypeOK, NEW t \in Turns,
                      "indicator_names" \in Asked(ctx[t]) => Cardinality(Asked(ctx[t])) = 1,
                      NEW l \in ListingsOf(t), NEW e \in l.entries
               PROVE  LET c == ctx[t]
                          picked == Asked(c) \cup IF "indicator_names" \in Asked(c)
                                                  THEN {"data_types"} ELSE {}
                      IN  /\ \A s \in picked : e[s] \in LoadedCatalog(c.dataset)[s]
                          /\ InScope(RowsFor(c.dataset),
                                     [s \in Slots |-> IF s \in picked THEN {e[s]}
                                                      ELSE c.state[s]]) # {}
    BY Zenon DEF ListedCandidatesHaveData
  <2>1. ctx[t].state \in SlotStates /\ ctx[t].dataset \in BOOLEAN
    BY DEF TypeOK, Contexts
  <2>2. l \in Listings(ctx[t], Mentions[ctx[t].message])
    BY DEF ListingsOf
  <2> QED
    BY <2>1, <2>2, ListedHasData, Zenon
<1> QED
  BY <1>1, TypeCorrect, PTL

\* Asking for indicators within the selection shows it: the rows of the
\* selected data type are found, its scope is the one used, and the listing
\* has all its indicators.
LEMMA SelectionShown ==
    ASSUME NEW c, NEW said, NEW d \in DataTypes, c.state \in SlotStates,
           ActionNames(c.intents) = {"query_indicators"},
           ExplicitTypes(c, said, NoTask) = {}, c.state["data_types"] = {d},
           c.state["indicator_names"] \subseteq IndicatorsOf[d],
           InScope(RowsFor(c.dataset), c.state) # {},
           NEW l \in Listings(c, said)
    PROVE  /\ Answerable(c, l)
           /\ IndicatorsOf[d] \subseteq {e["indicator_names"] : e \in OfType(l.entries, d)}
<1> DEFINE selected == c.state["indicator_names"]
           wanted == [Wanted(Asked(c), c.state, {}) EXCEPT !["data_types"] = {}]
           rows   == Where(Availability(c.dataset), wanted)
           types  == {e["data_types"] : e \in rows}
           scope  == QueryScope(c, said, NoTask, types)
           used   == IF scope.status = "resolved" THEN scope.types ELSE types
           entries == UNION {IndicatorEntries(c, rows, x) : x \in used}
<1>1. Asked(c) = {"indicator_names"} /\ TurnTasks(c) = {NoTask}
  <2>1. "query_indicators" \in KnownQueries /\ QueriedSlot["query_indicators"] = "indicator_names"
    BY SlotNames DEF KnownQueries, QueriedSlot
  <2>2. "query_indicators" \notin Tasks
    BY <2>1, IntentsAssumption DEF OtherIntents, Queries
  <2> QED
    BY <2>1, <2>2 DEF Asked, TurnTasks
<1>2. l = IndicatorListing(c, said, NoTask)
  BY <1>1 DEF Listings
<1>3. PICK r \in RowsFor(c.dataset) : /\ r.data_type = d
                                      /\ \A p \in PlaceSlots : c.state[p] # {} => r.place[p] \in c.state[p]
  <2>1. IsSingle(c.state["data_types"])
    BY FS_Singleton DEF IsSingle
  <2> QED
    BY <2>1 DEF InScope
<1>4. r.place \in [PlaceSlots -> Places] /\ r \in Rows
  BY ObservationAssumption DEF RowsFor
<1> DEFINE row == Entry(r.data_type, r.place, NoValue)
<1>5. row["data_types"] = d /\ \A p \in PlaceSlots : row[p] = r.place[p]
  BY <1>3, SlotNames DEF Entry
<1>6. row \in rows
  <2>1. row \in Availability(c.dataset)
    BY DEF Availability
  <2>2. ASSUME NEW s \in Slots, wanted[s] # {}
        PROVE  row[s] \in wanted[s]
    <3>1. s \in PlaceSlots
      BY <2>2, <1>1, SlotNames DEF Wanted
    <3>2. wanted[s] = c.state[s]
      BY <3>1, <1>1, SlotNames DEF Wanted
    <3> QED
      BY <2>2, <3>1, <3>2, <1>3, <1>5
  <2> HIDE DEF wanted, row
  <2> QED
    BY <2>1, <2>2 DEF Where
<1>7. d \in types /\ rows # {}
  BY <1>5, <1>6
<1>8. scope.status # "invalid" /\ d \in used
  <2>1. TypesOfIndicator(c) # {} => d \in TypesOfIndicator(c)
    <3> SUFFICES ASSUME TypesOfIndicator(c) # {} PROVE d \in TypesOfIndicator(c)
      OBVIOUS
    <3>1. PICK i \in selected \cap c.catalog["indicator_names"] : TRUE
      BY DEF TypesOfIndicator
    <3>2. d \in DomainsOf(i, c.dataset)
      BY <3>1, <1>3 DEF DomainsOf
    <3> QED
      BY <3>1, <3>2 DEF TypesOfIndicator
  <2>2. SelectedTypeScope(c.state["data_types"], types) = Scope("resolved", {d})
    BY <1>7, FS_Singleton DEF SelectedTypeScope
  <2>3. ScopeOf({}) = Scope("pass", {})
    BY DEF ScopeOf
  <2>4. scope = OrElse(ScopeOf(TypesOfIndicator(c)), Scope("resolved", {d}))
    <3> HIDE DEF types
    <3> QED
      BY <2>2, <2>3 DEF QueryScope, OrElse, Scope
  <2>5. CASE TypesOfIndicator(c) = {}
    <3>1. scope = Scope("resolved", {d})
      BY <2>3, <2>4, <2>5 DEF OrElse, Scope
    <3> HIDE DEF scope
    <3> QED
      BY <3>1 DEF Scope
  <2>6. CASE TypesOfIndicator(c) # {}
    <3>1. scope = ScopeOf(TypesOfIndicator(c)) /\ scope.status \in {"resolved", "conflict"}
          /\ (scope.status = "resolved" => scope.types = TypesOfIndicator(c))
      BY <2>4, <2>6 DEF OrElse, Scope, ScopeOf
    <3> HIDE DEF scope, types
    <3> QED
      BY <3>1, <2>1, <2>6, <1>7
  <2> QED
    BY <2>5, <2>6
<1>9. \A i \in IndicatorsOf[d] : Entry(d, r.place, i) \in IndicatorEntries(c, rows, d)
  <2> DEFINE at == [p \in PlaceSlots |-> IF c.state[p] # {} THEN c.state[p]
                                         ELSE {x[p] : x \in OfType(rows, d)}]
             places == {pl \in [PlaceSlots -> UNION {at[p] : p \in PlaceSlots}] :
                           \A p \in PlaceSlots : pl[p] \in at[p]}
  <2>1. IndicatorEntries(c, rows, d) =
           {Entry(d, pl, i) : pl \in places, i \in IndicatorsAt(d, at, RowsFor(c.dataset))}
    BY DEF IndicatorEntries
  <2>2. row \in OfType(rows, d)
    BY <1>5, <1>6 DEF OfType
  <2>3. \A p \in PlaceSlots : r.place[p] \in at[p]
    <3> HIDE DEF row, rows
    <3> QED
      BY <2>2, <1>3, <1>5
  <2> HIDE DEF at
  <2>4. r.place \in places
    BY <2>3, <1>4
  <2>5. IndicatorsAt(d, at, RowsFor(c.dataset)) = IndicatorsOf[d]
    BY <2>3, <1>3 DEF IndicatorsAt
  <2> HIDE DEF places, rows
  <2> SUFFICES ASSUME NEW i \in IndicatorsAt(d, at, RowsFor(c.dataset))
               PROVE  Entry(d, r.place, i) \in IndicatorEntries(c, rows, d)
    BY <2>5
  <2> QED
    BY <2>1, <2>4
<1>10. \A i \in IndicatorsOf[d] : /\ Entry(d, r.place, i) \in entries
                                  /\ Entry(d, r.place, i)["indicator_names"] = i
                                  /\ Entry(d, r.place, i)["data_types"] = d
  <2>1. \A i : /\ Entry(d, r.place, i)["indicator_names"] = i
               /\ Entry(d, r.place, i)["data_types"] = d
    BY SlotNames DEF Entry
  <2> HIDE DEF used, rows
  <2> QED
    BY <2>1, <1>8, <1>9
<1>11. IndicatorListing(c, said, NoTask) =
         IF rows = {} THEN Listed({})
         ELSE IF scope.status = "invalid" THEN [known |-> FALSE, entries |-> {}]
         ELSE IF selected # {} /\ ~\E e \in entries : e["indicator_names"] \in selected
              THEN Listed({})
         ELSE Listed(entries)
  BY DEF IndicatorListing
<1>12. ~(selected # {} /\ ~\E e \in entries : e["indicator_names"] \in selected)
  <2> HIDE DEF entries
  <2> QED
    BY <1>10
<1>13. l.known /\ l.entries = entries
  <2> HIDE DEF entries, scope, rows, selected
  <2> QED
    BY <1>2, <1>7, <1>8, <1>11, <1>12 DEF Listed
<1> HIDE DEF entries
<1>14. Answerable(c, l)
  BY <1>10, <1>13 DEF Answerable
<1>15. IndicatorsOf[d] \subseteq {e["indicator_names"] : e \in OfType(entries, d)}
  BY <1>10 DEF OfType
<1> QED
  BY <1>13, <1>14, <1>15

\* What a query lists does not depend on the plan made of it.
LEMMA QueriesIgnorePlan ==
    ASSUME NEW c, NEW x, NEW said, x.intents = c.intents, x.state = c.state, x.task = c.task,
           x.catalog = c.catalog, x.dataset = c.dataset
    PROVE  QueryPlans(x, said) = QueryPlans(c, said)
<1>1. Asked(x) = Asked(c) /\ TurnTasks(x) = TurnTasks(c)
  BY DEF Asked, TurnTasks
<1>2. \A n : AvailabilityFor(x, n) = AvailabilityFor(c, n)
  BY <1>1 DEF AvailabilityFor
<1>3. \A n, types : QueryScope(x, said, n, types) = QueryScope(c, said, n, types)
  BY DEF QueryScope, ExplicitTypes, TypesOfIndicator
<1>4. \A rows, d : IndicatorEntries(x, rows, d) = IndicatorEntries(c, rows, d)
  BY DEF IndicatorEntries
<1>5. ASSUME NEW n
      PROVE  IndicatorListing(x, said, n) = IndicatorListing(c, said, n)
  <2> DEFINE rows  == Where(Availability(c.dataset),
                            [Wanted(Asked(c), c.state, {}) EXCEPT !["data_types"] = {}])
             types == {e["data_types"] : e \in rows}
             scope == QueryScope(c, said, n, types)
             used  == IF scope.status = "resolved" THEN scope.types ELSE types
             of(y) == UNION {IndicatorEntries(y, rows, d) : d \in used}
             show(y) == IF rows = {} THEN Listed({})
                        ELSE IF scope.status = "invalid" THEN [known |-> FALSE, entries |-> {}]
                        ELSE IF /\ c.state["indicator_names"] # {}
                                /\ ~\E e \in of(y) : e["indicator_names"] \in c.state["indicator_names"]
                             THEN Listed({})
                        ELSE Listed(of(y))
  <2>1. of(x) = of(c)
    <3> HIDE DEF rows, used
    <3> QED
      BY <1>4
  <2>2. IndicatorListing(c, said, n) = show(c)
    BY DEF IndicatorListing
  <2>3. IndicatorListing(x, said, n) = show(x)
    <3>1. QueryScope(x, said, n, types) = scope
      BY <1>3
    <3> QED
      BY <3>1, <1>1 DEF IndicatorListing
  <2> HIDE DEF of
  <2>4. show(x) = show(c)
    BY <2>1
  <2> HIDE DEF show
  <2> QED
    BY <2>2, <2>3, <2>4
<1>6. Listings(x, said) = Listings(c, said)
  BY <1>1, <1>2, <1>5 DEF Listings
<1>7. \A l : Answerable(x, l) <=> Answerable(c, l)
  BY <1>1 DEF Answerable
<1> QED
  BY <1>6, <1>7 DEF QueryPlans

\* The steps before a turn's slots are committed.
BeforeCommit == {"idle", "load_task", "load_request", "catalog", "pre_recognize", "recognize",
                 "recognizing", "infer", "normalize", "resolve", "validate", "commit"}

\* A turn computes no slots before its commit, and an answer without computed
\* slots is the only one the planner did not make of the turn's context.
Planned(t) ==
    /\ pc[t] \in BeforeCommit => ctx[t].state = NoSlots
    /\ pc[t] = "save_task" => ctx[t].state = NoSlots \/ ctx[t].plan \in PlansOf(t)

PlannedInv == \A t \in Turns : Planned(t)

LEMMA ProceedPlanned ==
    ASSUME TypeOK, NEW t \in Turns, NEW step, NEW c, Proceed(t, step, c),
           c.state = NoSlots \/ step \notin BeforeCommit \cup {"save_task"}
    PROVE  Planned(t)'
BY DEF TypeOK, Proceed, Goto, Planned, BeforeCommit

LEMMA LeavePlanned ==
    ASSUME TypeOK, NEW t \in Turns, Leave(t)
    PROVE  Planned(t)'
BY DEF TypeOK, Leave, Goto, Planned, Blank

\* Every action of a turn keeps it so.
LEMMA MoverPlanned ==
    ASSUME TypeOK, PlannedInv, NEW t \in Turns, TurnNext(t)
    PROVE  Planned(t)'
<1> USE DEF Running
<1>a. ctx[t] \in Contexts
  BY DEF TypeOK
<1>b. pc[t] \in BeforeCommit => ctx[t].state = NoSlots
  BY DEF PlannedInv, Planned
<1>c. ASSUME NEW c, NEW step, Proceed(t, step, c), pc[t] \in BeforeCommit,
             c.state = ctx[t].state
      PROVE  Planned(t)'
  BY <1>b, <1>c, ProceedPlanned
<1>1. ASSUME NEW s \in Sessions, NEW m \in Messages, NEW d \in Workspaces, Arrive(t, s, m, d)
      PROVE  Planned(t)'
  BY <1>1, <1>a, <1>c DEF Arrive, BeforeCommit, Contexts
<1>2. CASE LoadTaskContext(t) \/ LoadPendingRequest(t) \/ LoadCatalog(t) \/ PreRecognize(t)
           \/ NormalizeResolverQuery(t) \/ ResolveSlots(t)
  BY <1>2, <1>a, <1>c DEF LoadTaskContext, LoadPendingRequest, LoadCatalog, PreRecognize,
     NormalizeResolverQuery, ResolveSlots, BeforeCommit, Contexts
<1>3. CASE CallRecognizer(t)
  BY <1>3, <1>b DEF CallRecognizer, Goto, TypeOK, Planned, BeforeCommit
<1>4. ASSUME NEW d, Recognized(t, d)
      PROVE  Planned(t)'
  <2> DEFINE c == [ctx[t] EXCEPT !.intents = NormalizeQueries(d.intents)]
  <2>1. /\ pc[t] = "recognizing"
        /\ \E p, step : Proceed(t, step, [c EXCEPT !.plan = p]) \/ Proceed(t, step, c)
    BY <1>4 DEF Recognized, Answer
  <2>2. c.state = ctx[t].state /\ \A p : [c EXCEPT !.plan = p].state = ctx[t].state
    BY <1>a DEF Contexts
  <2> HIDE DEF c
  <2> QED
    BY <2>1, <2>2, <1>c DEF BeforeCommit
<1>5. CASE InferIndicator(t)
  <2>1. PICK is, dr, pl, rq, step :
           Proceed(t, step, [ctx[t] EXCEPT !.intents = is, !.drop = dr, !.plan = pl, !.request = rq])
    BY <1>5 DEF InferIndicator, Answer
  <2> DEFINE c == [ctx[t] EXCEPT !.intents = is, !.drop = dr, !.plan = pl, !.request = rq]
  <2>2. c.state = ctx[t].state /\ pc[t] = "infer" /\ Proceed(t, step, c)
    BY <2>1, <1>5, <1>a DEF InferIndicator, Contexts
  <2> HIDE DEF c
  <2> QED
    BY <2>2, <1>c DEF BeforeCommit
<1>6. CASE ValidateSlots(t)
  <2> DEFINE c == [ctx[t] EXCEPT !.plan = MakePlan("clarify", "invalid_slots", NoTask, {})]
  <2>1. Proceed(t, "commit", ctx[t]) \/ Proceed(t, "save_task", c) \/ Leave(t)
    BY <1>6 DEF ValidateSlots, Answer
  <2>2. c.state = ctx[t].state /\ pc[t] = "validate"
    BY <1>6, <1>a DEF ValidateSlots, Contexts
  <2> HIDE DEF c
  <2> QED
    BY <2>1, <2>2, <1>c, LeavePlanned DEF BeforeCommit
<1>7. CASE CommitSlots(t) \/ Autofill(t) \/ WriteSlots(t) \/ SaveTaskContext(t)
  BY <1>7, ProceedPlanned DEF CommitSlots, Autofill, WriteSlots, SaveTaskContext, BeforeCommit
<1>8. CASE Plan(t)
  <2>1. PICK p \in PlansOf(t) : Answer(t, [ctx[t] EXCEPT !.plan = p])
    BY <1>8 DEF Plan
  <2> DEFINE c == [ctx[t] EXCEPT !.plan = p]
  <2>2. /\ c.plan = p /\ c.intents = ctx[t].intents /\ c.state = ctx[t].state
        /\ c.task = ctx[t].task /\ c.catalog = ctx[t].catalog /\ c.dataset = ctx[t].dataset
        /\ c.before = ctx[t].before /\ c.message = ctx[t].message
    BY <1>a DEF Contexts
  <2>3. Answer(t, c)
    BY <2>1
  <2> HIDE DEF c
  <2>4. pc'[t] = "save_task" /\ ctx'[t] = c
    BY <2>3 DEF TypeOK, Answer, Proceed, Goto
  <2>5. QueryPlans(c, Mentions[c.message]) = QueryPlans(ctx[t], Mentions[c.message])
    BY <2>2, QueriesIgnorePlan
  <2>6. PlansOf(t)' = PlansOf(t)
    BY <2>2, <2>4, <2>5 DEF PlansOf
  <2> QED
    BY <2>1, <2>2, <2>4, <2>6 DEF Planned, BeforeCommit
<1>9. CASE PlanningFails(t) \/ SavePendingRequest(t) \/ GatewayFails(t) \/ RecognizerFails(t)
  BY <1>9, LeavePlanned DEF PlanningFails, SavePendingRequest, GatewayFails, RecognizerFails
<1>10. CASE Suspend(t) \/ Resume(t)
  BY <1>10, <1>b DEF Suspend, Resume, CallsGateway, Planned
<1> QED
  BY <1>1, <1>2, <1>3, <1>4, <1>5, <1>6, <1>7, <1>8, <1>9, <1>10
  DEF TurnNext, Step, RecognizerReturns

LEMMA PlannedInvariant == Spec => []PlannedInv
<1>1. Init => PlannedInv
  BY DEF Init, PlannedInv, Planned, Blank
<1>2. TypeOK /\ PlannedInv /\ [Next]_vars => PlannedInv'
  <2> SUFFICES ASSUME TypeOK, PlannedInv, [Next]_vars, NEW u \in Turns PROVE Planned(u)'
    BY DEF PlannedInv
  <2>1. Planned(u)
    BY DEF PlannedInv
  <2>2. ASSUME pc'[u] = pc[u], ctx'[u] = ctx[u] PROVE Planned(u)'
    <3>1. PlansOf(u)' = PlansOf(u)
      BY <2>2 DEF PlansOf
    <3> QED
      BY <2>1, <2>2, <3>1 DEF Planned
  <2>3. CASE UNCHANGED vars
    BY <2>2, <2>3 DEF vars
  <2>4. ASSUME NEW t \in Turns, TurnNext(t) PROVE Planned(u)'
    <3>1. CASE u = t
      BY <2>4, <3>1, MoverPlanned
    <3>2. CASE u # t
      BY <2>2, <2>4, <3>2, OneTurnMoves
    <3> QED
      BY <3>1, <3>2
  <2> QED
    BY <2>3, <2>4 DEF Next
<1> QED
  BY <1>1, <1>2, TypeCorrect, PTL DEF Spec

\* Asking for indicators shows all of the selected data type, whatever tasks
\* the session has pending or active (build_observation_scope_policy).
THEOREM SelectionIsShown == Spec => []QueryShowsSelection
<1>1. TypeOK /\ PlannedInv => QueryShowsSelection
  <2> SUFFICES ASSUME TypeOK, PlannedInv, NEW t \in Turns, NEW d \in DataTypes,
                      pc[t] = "save_task", ActionNames(ctx[t].intents) = {"query_indicators"},
                      ExplicitTypes(ctx[t], Mentions[ctx[t].message], NoTask) = {},
                      ctx[t].state["data_types"] = {d},
                      ctx[t].state["indicator_names"] \subseteq IndicatorsOf[d],
                      InScope(RowsFor(ctx[t].dataset), ctx[t].state) # {}
               PROVE  /\ ctx[t].plan.kind = "reply"
                      /\ \A l \in ListingsOf(t) : IndicatorsOf[d] \subseteq
                            {e["indicator_names"] : e \in OfType(l.entries, d)}
    BY Zenon DEF QueryShowsSelection
  <2>1. ctx[t].state \in SlotStates
    BY DEF TypeOK, Contexts
  <2>2. \A l \in ListingsOf(t) :
           /\ Answerable(ctx[t], l)
           /\ IndicatorsOf[d] \subseteq {e["indicator_names"] : e \in OfType(l.entries, d)}
    BY <2>1, SelectionShown DEF ListingsOf
  <2>3. ctx[t].plan \in PlansOf(t)
    <3>1. ctx[t].state # NoSlots
      BY SlotNames DEF NoSlots
    <3> QED
      BY <3>1 DEF PlannedInv, Planned
  <2>4. "query_indicators" \in Queries
    BY SlotNames DEF Queries, KnownQueries, QueriedSlot
  <2>5. PlansOf(t) = QueryPlans(ctx[t], Mentions[ctx[t].message])
    BY <2>4 DEF PlansOf, BuildPlans
  <2>6. ctx[t].plan = QueryReply
    BY <2>2, <2>3, <2>5 DEF QueryPlans, ListingsOf
  <2>7. QueryReply.kind = "reply"
    BY DEF QueryReply, MakePlan
  <2> QED
    BY <2>2, <2>6, <2>7, Zenon
<1> QED
  BY <1>1, TypeCorrect, PlannedInvariant, PTL
----------------------------------------------------------------------------
(* Switching tasks.                                                        *)

\* The steps with a narrowed catalog, and those with a batch resolved in it.
NarrowedAt == {"recognize", "recognizing", "infer", "normalize", "resolve", "validate",
               "commit", "autofill", "write", "plan"}

ResolvedAt == {"validate", "commit", "autofill", "write", "plan"}

\* Where turn context c comes from when its turn is at a step.
SwitchAt(at, c) ==
    /\ at = "pre_recognize" => c.catalog = LoadedCatalog(c.dataset)
    /\ at \in NarrowedAt =>
          c.catalog = Narrowed(LoadedCatalog(c.dataset), Mentions[c.message], c.dataset)
    /\ at \in ResolvedAt => c.batch = Resolve(c.intents, c.catalog)
    /\ at = "autofill" => c.state = Commit(c.before, c.batch)
    /\ at \in {"write", "plan"} =>
          \/ AutofillTasks(c.intents) = {}
          \/ \E n \in AutofillTasks(c.intents) :
                c.state \in Autofilled(Commit(c.before, c.batch), Touched(c.batch), n,
                                       RowsFor(c.dataset))

SwitchInv == \A t \in Turns : SwitchAt(pc[t], ctx[t])

\* A step that replaces a turn's context by one that fits the next step.
LEMMA ProceedSwitch ==
    ASSUME TypeOK, NEW t \in Turns, NEW step, NEW c, Proceed(t, step, c), SwitchAt(step, c)
    PROVE  SwitchAt(pc[t], ctx[t])'
BY DEF TypeOK, Proceed, Goto, SwitchAt

\* Of some steps nothing is said.
LEMMA SilentSwitch ==
    ASSUME NEW c, NEW step \in {"idle", "load_task", "load_request", "catalog", "save_task",
                                "save_request"}
    PROVE  SwitchAt(step, c)
BY DEF SwitchAt, NarrowedAt, ResolvedAt

\* Every action of a turn keeps it so.
LEMMA MoverSwitch ==
    ASSUME TypeOK, SwitchInv, NEW t \in Turns, TurnNext(t)
    PROVE  SwitchAt(pc[t], ctx[t])'
<1> USE DEF Running
<1>a. ctx[t] \in Contexts
  BY DEF TypeOK
<1>b. SwitchAt(pc[t], ctx[t])
  BY DEF SwitchInv
<1>c. ASSUME NEW c, NEW step, Proceed(t, step, c),
             step \in {"load_task", "load_request", "catalog", "save_task", "save_request"}
      PROVE  SwitchAt(pc[t], ctx[t])'
  BY <1>c, ProceedSwitch, SilentSwitch
<1>d. ASSUME Leave(t)
      PROVE  SwitchAt(pc[t], ctx[t])'
  <2>1. pc'[t] = "idle"
    BY <1>d DEF Leave, Goto, TypeOK
  <2> QED
    BY <2>1 DEF SwitchAt, NarrowedAt, ResolvedAt
<1>1. ASSUME NEW s \in Sessions, NEW m \in Messages, NEW d \in Workspaces, Arrive(t, s, m, d)
      PROVE  SwitchAt(pc[t], ctx[t])'
  BY <1>1, <1>c DEF Arrive
<1>2. CASE LoadTaskContext(t) \/ LoadPendingRequest(t) \/ SaveTaskContext(t)
  BY <1>2, <1>c DEF LoadTaskContext, LoadPendingRequest, SaveTaskContext
<1>3. CASE LoadCatalog(t)
  <2> DEFINE c == [ctx[t] EXCEPT !.catalog = LoadedCatalog(ctx[t].dataset)]
  <2>1. c.catalog = LoadedCatalog(c.dataset)
    BY <1>a DEF Contexts
  <2>2. Proceed(t, "pre_recognize", c)
    BY <1>3 DEF LoadCatalog
  <2> HIDE DEF c
  <2>3. SwitchAt("pre_recognize", c)
    BY <2>1 DEF SwitchAt, NarrowedAt, ResolvedAt
  <2> QED
    BY <2>2, <2>3, ProceedSwitch
<1>4. CASE PreRecognize(t)
  <2> DEFINE cat == Narrowed(ctx[t].catalog, Mentions[ctx[t].message], ctx[t].dataset)
             c == [ctx[t] EXCEPT !.catalog = cat]
  <2>1. c.catalog = cat /\ c.dataset = ctx[t].dataset /\ c.message = ctx[t].message
    BY <1>a DEF Contexts
  <2>2. Proceed(t, "recognize", c)
    BY <1>4 DEF PreRecognize
  <2>3. ctx[t].catalog = LoadedCatalog(ctx[t].dataset)
    BY <1>4, <1>b DEF PreRecognize, SwitchAt
  <2>4. c.catalog = Narrowed(LoadedCatalog(c.dataset), Mentions[c.message], c.dataset)
    BY <2>1, <2>3
  <2> HIDE DEF c, cat
  <2>5. SwitchAt("recognize", c)
    BY <2>4 DEF SwitchAt, NarrowedAt, ResolvedAt
  <2> QED
    BY <2>2, <2>5, ProceedSwitch
<1>5. CASE CallRecognizer(t)
  <2>1. pc[t] = "recognize" /\ pc'[t] = "recognizing" /\ ctx'[t] = ctx[t]
    BY <1>5 DEF CallRecognizer, Goto, TypeOK
  <2> QED
    BY <2>1, <1>b DEF SwitchAt, NarrowedAt, ResolvedAt
<1>6. ASSUME NEW c, NEW step \in {"infer", "normalize", "resolve"}, Proceed(t, step, c),
             pc[t] \in {"recognizing", "infer", "normalize"},
             c.catalog = ctx[t].catalog, c.dataset = ctx[t].dataset, c.message = ctx[t].message
      PROVE  SwitchAt(pc[t], ctx[t])'
  <2>1. c.catalog = Narrowed(LoadedCatalog(c.dataset), Mentions[c.message], c.dataset)
    BY <1>6, <1>b DEF SwitchAt, NarrowedAt
  <2>2. SwitchAt(step, c)
    BY <2>1 DEF SwitchAt, NarrowedAt, ResolvedAt
  <2> QED
    BY <1>6, <2>2, ProceedSwitch
<1>7. ASSUME NEW d, Recognized(t, d)
      PROVE  SwitchAt(pc[t], ctx[t])'
  <2> DEFINE c == [ctx[t] EXCEPT !.intents = NormalizeQueries(d.intents)]
  <2>1. \/ Proceed(t, "infer", c)
        \/ \E p : Proceed(t, "save_task", [c EXCEPT !.plan = p])
    BY <1>7 DEF Recognized, Answer
  <2>2. /\ c.catalog = ctx[t].catalog /\ c.dataset = ctx[t].dataset
        /\ c.message = ctx[t].message /\ pc[t] = "recognizing"
    BY <1>7, <1>a DEF Contexts, Recognized
  <2> HIDE DEF c
  <2> QED
    BY <2>1, <2>2, <1>6, <1>c
<1>8. CASE InferIndicator(t)
  <2>1. PICK is, dr, pl, rq :
           LET c == [ctx[t] EXCEPT !.intents = is, !.drop = dr, !.plan = pl, !.request = rq]
           IN  Proceed(t, "normalize", c) \/ Proceed(t, "save_task", c)
    BY <1>8 DEF InferIndicator, Answer
  <2> DEFINE c == [ctx[t] EXCEPT !.intents = is, !.drop = dr, !.plan = pl, !.request = rq]
  <2>2. /\ c.catalog = ctx[t].catalog /\ c.dataset = ctx[t].dataset
        /\ c.message = ctx[t].message /\ pc[t] = "infer"
    BY <1>8, <1>a DEF Contexts, InferIndicator
  <2>3. Proceed(t, "normalize", c) \/ Proceed(t, "save_task", c)
    BY <2>1
  <2> HIDE DEF c
  <2> QED
    BY <2>2, <2>3, <1>6, <1>c
<1>9. CASE NormalizeResolverQuery(t)
  <2> DEFINE c == [ctx[t] EXCEPT !.intents = InjectQuery(@)]
  <2>1. /\ c.catalog = ctx[t].catalog /\ c.dataset = ctx[t].dataset
        /\ c.message = ctx[t].message /\ pc[t] = "normalize" /\ Proceed(t, "resolve", c)
    BY <1>9, <1>a DEF Contexts, NormalizeResolverQuery
  <2> HIDE DEF c
  <2> QED
    BY <2>1, <1>6
<1>10. CASE ResolveSlots(t)
  <2> DEFINE c == [ctx[t] EXCEPT !.batch = Resolve(ctx[t].intents, ctx[t].catalog)]
  <2>1. /\ c.catalog = ctx[t].catalog /\ c.dataset = ctx[t].dataset
        /\ c.message = ctx[t].message /\ c.intents = ctx[t].intents
        /\ c.batch = Resolve(ctx[t].intents, ctx[t].catalog)
        /\ pc[t] = "resolve" /\ Proceed(t, "validate", c)
    BY <1>10, <1>a DEF Contexts, ResolveSlots
  <2> HIDE DEF c
  <2>2. ctx[t].catalog = Narrowed(LoadedCatalog(ctx[t].dataset), Mentions[ctx[t].message],
                                  ctx[t].dataset)
    BY <2>1, <1>b DEF SwitchAt, NarrowedAt
  <2>3. SwitchAt("validate", c)
    BY <2>1, <2>2 DEF SwitchAt, NarrowedAt, ResolvedAt
  <2> QED
    BY <2>1, <2>3, ProceedSwitch
<1>11. CASE ValidateSlots(t)
  <2>1. \/ Proceed(t, "commit", ctx[t])
        \/ \E c : Proceed(t, "save_task", c)
        \/ Leave(t)
    BY <1>11 DEF ValidateSlots, Answer
  <2>2. SwitchAt("commit", ctx[t])
    BY <1>11, <1>b DEF ValidateSlots, SwitchAt, NarrowedAt, ResolvedAt
  <2> QED
    BY <2>1, <2>2, <1>c, <1>d, ProceedSwitch
<1>12. CASE CommitSlots(t)
  <2> DEFINE now == slots[ctx[t].session]
             c == [ctx[t] EXCEPT !.before = now, !.state = Commit(now, ctx[t].batch)]
  <2>1. /\ c.catalog = ctx[t].catalog /\ c.dataset = ctx[t].dataset
        /\ c.message = ctx[t].message /\ c.intents = ctx[t].intents
        /\ c.batch = ctx[t].batch /\ c.before = now /\ c.state = Commit(now, ctx[t].batch)
    BY <1>a DEF Contexts
  <2>2. pc[t] = "commit" /\ Proceed(t, "autofill", c)
    BY <1>12 DEF CommitSlots
  <2> HIDE DEF c, now
  <2>3. /\ ctx[t].catalog = Narrowed(LoadedCatalog(ctx[t].dataset), Mentions[ctx[t].message],
                                     ctx[t].dataset)
        /\ ctx[t].batch = Resolve(ctx[t].intents, ctx[t].catalog)
    BY <2>2, <1>b DEF SwitchAt, NarrowedAt, ResolvedAt
  <2>4. SwitchAt("autofill", c)
    BY <2>1, <2>3 DEF SwitchAt, NarrowedAt, ResolvedAt
  <2> QED
    BY <2>2, <2>4, ProceedSwitch
<1>13. CASE Autofill(t)
  <2> DEFINE filled(n) == Autofilled(ctx[t].state, Touched(ctx[t].batch), n,
                                     RowsFor(ctx[t].dataset))
  <2>1. PICK st : /\ Proceed(t, "write", [ctx[t] EXCEPT !.state = st])
                  /\ \/ AutofillTasks(ctx[t].intents) = {}
                     \/ \E n \in AutofillTasks(ctx[t].intents) : st \in filled(n)
    BY <1>13 DEF Autofill
  <2> DEFINE c == [ctx[t] EXCEPT !.state = st]
  <2>2. /\ c.catalog = ctx[t].catalog /\ c.dataset = ctx[t].dataset
        /\ c.message = ctx[t].message /\ c.intents = ctx[t].intents
        /\ c.batch = ctx[t].batch /\ c.before = ctx[t].before /\ c.state = st
    BY <1>a DEF Contexts
  <2>3. pc[t] = "autofill" /\ Proceed(t, "write", c)
    BY <1>13, <2>1 DEF Autofill
  <2> HIDE DEF c
  <2>4. /\ ctx[t].catalog = Narrowed(LoadedCatalog(ctx[t].dataset), Mentions[ctx[t].message],
                                     ctx[t].dataset)
        /\ ctx[t].batch = Resolve(ctx[t].intents, ctx[t].catalog)
        /\ ctx[t].state = Commit(ctx[t].before, ctx[t].batch)
    BY <2>3, <1>b DEF SwitchAt, NarrowedAt, ResolvedAt
  <2>5. \/ AutofillTasks(c.intents) = {}
        \/ \E n \in AutofillTasks(c.intents) :
              c.state \in Autofilled(Commit(c.before, c.batch), Touched(c.batch), n,
                                     RowsFor(c.dataset))
    BY <2>1, <2>2, <2>4
  <2>6. SwitchAt("write", c)
    BY <2>2, <2>4, <2>5 DEF SwitchAt, NarrowedAt, ResolvedAt
  <2> QED
    BY <2>3, <2>6, ProceedSwitch
<1>14. CASE WriteSlots(t)
  <2>1. pc[t] = "write" /\ Proceed(t, "plan", ctx[t])
    BY <1>14 DEF WriteSlots
  <2>2. SwitchAt("plan", ctx[t])
    BY <2>1, <1>b DEF SwitchAt, NarrowedAt, ResolvedAt
  <2> QED
    BY <2>1, <2>2, ProceedSwitch
<1>15. CASE Plan(t)
  BY <1>15, <1>c DEF Plan, Answer
<1>16. CASE PlanningFails(t) \/ SavePendingRequest(t) \/ GatewayFails(t) \/ RecognizerFails(t)
  BY <1>16, <1>d DEF PlanningFails, SavePendingRequest, GatewayFails, RecognizerFails
<1>17. CASE Suspend(t) \/ Resume(t)
  BY <1>17, <1>b DEF Suspend, Resume
<1> QED
  BY <1>1, <1>2, <1>3, <1>4, <1>5, <1>7, <1>8, <1>9, <1>10, <1>11, <1>12, <1>13, <1>14,
     <1>15, <1>16, <1>17 DEF TurnNext, Step, RecognizerReturns

LEMMA SwitchInvariant == Spec => []SwitchInv
<1>1. Init => SwitchInv
  BY SilentSwitch DEF Init, SwitchInv
<1>2. TypeOK /\ SwitchInv /\ [Next]_vars => SwitchInv'
  <2> SUFFICES ASSUME TypeOK, SwitchInv, [Next]_vars, NEW u \in Turns
               PROVE  SwitchAt(pc[u], ctx[u])'
    BY DEF SwitchInv
  <2>1. SwitchAt(pc[u], ctx[u])
    BY DEF SwitchInv
  <2>2. CASE UNCHANGED vars
    BY <2>1, <2>2 DEF vars
  <2>3. ASSUME NEW t \in Turns, TurnNext(t) PROVE SwitchAt(pc[u], ctx[u])'
    <3>1. CASE u = t
      BY <2>3, <3>1, MoverSwitch
    <3>2. CASE u # t
      BY <2>1, <2>3, <3>2, OneTurnMoves
    <3> QED
      BY <3>1, <3>2
  <2> QED
    BY <2>2, <2>3 DEF Next
<1> QED
  BY <1>1, <1>2, TypeCorrect, PTL DEF Spec

\* The data type fill for a task of one data type selects that one, whatever
\* was selected before.
LEMMA TypeFilled ==
    ASSUME NEW state \in SlotStates, NEW task, NEW d, TaskDomains[task] = {d}, NEW rows
    PROVE  FillDataType(state, {}, task, rows) = {Put(state, "data_types", d)}
<1>1. IsSingle(TaskDomains[task])
  BY FS_Singleton DEF IsSingle
<1> QED
  BY <1>1 DEF FillDataType

\* The places fill leaves the places that are set, and fills the others from
\* one row of data in the scope.
LEMMA PlacesFilled ==
    ASSUME NEW state \in SlotStates, NEW d \in DataTypes, state["data_types"] = {d},
           NEW rows \in SUBSET Rows, InScope(rows, state) # {},
           NEW new \in FillPlaces(state, {}, rows)
    PROVE  /\ new \in SlotStates
           /\ new["data_types"] = {d}
           /\ new["indicator_names"] = state["indicator_names"]
           /\ \A p \in PlaceSlots : state[p] # {} => new[p] = state[p]
           /\ \E r \in rows : r.data_type = d /\ \A p \in PlaceSlots : r.place[p] \in new[p]
<1> DEFINE open == {p \in PlaceSlots \ {} : state[p] = {}}
<1>1. new \in SlotStates
  BY FillPlacesIsGood DEF GoodFill
<1>2. \A r \in InScope(rows, state) :
         /\ r \in rows /\ r.data_type = d
         /\ \A p \in PlaceSlots : state[p] = {} \/ r.place[p] \in state[p]
  <2>1. IsSingle(state["data_types"])
    BY FS_Singleton DEF IsSingle
  <2> QED
    BY <2>1 DEF InScope
<1>3. CASE open = {}
  <2>1. new = state
    BY <1>3 DEF FillPlaces
  <2>2. \A p \in PlaceSlots : state[p] # {}
    BY <1>3
  <2> HIDE DEF open
  <2> QED
    BY <1>1, <1>2, <2>1, <2>2
<1>4. CASE open # {}
  <2>1. new \in {[s \in Slots |-> IF s \in open THEN {r.place[s]} ELSE state[s]] :
                     r \in InScope(rows, state)}
    BY <1>4 DEF FillPlaces
  <2>2. \A p \in PlaceSlots : p \in open <=> state[p] = {}
    OBVIOUS
  <2>3. open \subseteq PlaceSlots
    OBVIOUS
  <2> HIDE DEF open
  <2>4. PICK r \in InScope(rows, state) :
           new = [s \in Slots |-> IF s \in open THEN {r.place[s]} ELSE state[s]]
    BY <2>1
  <2>5. \A p \in PlaceSlots : /\ state[p] # {} => new[p] = state[p]
                              /\ r.place[p] \in new[p]
    BY <1>2, <2>2, <2>4, SlotNames
  <2>6. /\ new["data_types"] = {d}
        /\ new["indicator_names"] = state["indicator_names"]
    BY <2>3, <2>4, SlotNames
  <2> QED
    BY <1>1, <1>2, <2>5, <2>6
<1> QED
  BY <1>3, <1>4

\* The indicator fill leaves an indicator of the data type selected where
\* Sigma lists some, the preferred one among them if there is one.
LEMMA IndicatorFilled ==
    ASSUME NEW state \in SlotStates, NEW d \in DataTypes, state["data_types"] = {d},
           NEW rows,
           \E r \in rows : r.data_type = d /\ \A p \in PlaceSlots : r.place[p] \in state[p],
           IndicatorsOf[d] # {}, Preferred[d] \in IndicatorsOf[d] \cup {NoValue},
           NEW new \in FillIndicator(state, {}, rows)
    PROVE  /\ new["indicator_names"] # {}
           /\ new["indicator_names"] \subseteq IndicatorsOf[d]
           /\ \A s \in Slots \ {"indicator_names"} : new[s] = state[s]
<1> DEFINE now == state["indicator_names"]
           choices == IF now = {Preferred[d]} THEN now
                      ELSE IF Preferred[d] \in IndicatorsOf[d] THEN {Preferred[d]}
                      ELSE IF now = {} \/ ~(now \subseteq IndicatorsOf[d]) THEN IndicatorsOf[d]
                      ELSE now
<1>1. IndicatorsAt(d, state, rows) = IndicatorsOf[d]
  BY DEF IndicatorsAt
<1>2. IsSingle(state["data_types"])
  BY FS_Singleton DEF IsSingle
<1>3. \A p \in PlaceSlots : state[p] # {}
  OBVIOUS
<1>4. state["data_types"] \cap DataTypes = {d}
  OBVIOUS
<1>5. \/ new = state /\ choices = now
      \/ choices # now /\ \E v \in choices : new = Put(state, "indicator_names", v)
  <2> DEFINE listed(e) == IndicatorsAt(e, state, rows)
             choicesOf(e) ==
                IF now = {Preferred[e]} \/ listed(e) = {} THEN now
                ELSE IF Preferred[e] \in listed(e) THEN {Preferred[e]}
                ELSE IF now = {} \/ ~(now \subseteq listed(e)) THEN listed(e)
                ELSE now
             fill(e) == IF choicesOf(e) = now THEN {state}
                        ELSE {Put(state, "indicator_names", v) : v \in choicesOf(e)}
  <2>1. new \in UNION {fill(e) : e \in state["data_types"] \cap DataTypes}
    BY <1>2, <1>3 DEF FillIndicator
  <2>2. choicesOf(d) = choices
    BY <1>1
  <2> HIDE DEF choices, choicesOf
  <2>3. new \in fill(d)
    <3> HIDE DEF fill
    <3> QED
      BY <2>1, <1>4
  <2> QED
    BY <2>2, <2>3
<1>6. NoValue \notin now
  BY ObservationAssumption, SlotNames DEF SlotStates
<1>7. CASE new = state /\ choices = now
  <2>1. now # {} /\ now \subseteq IndicatorsOf[d]
    BY <1>6, <1>7
  <2> QED
    BY <1>7, <2>1
<1>8. ASSUME choices # now, NEW v \in choices, new = Put(state, "indicator_names", v)
      PROVE  /\ new["indicator_names"] # {}
             /\ new["indicator_names"] \subseteq IndicatorsOf[d]
             /\ \A s \in Slots \ {"indicator_names"} : new[s] = state[s]
  <2>1. v \in IndicatorsOf[d]
    BY <1>8
  <2> HIDE DEF choices
  <2>2. new["indicator_names"] = {v} /\ \A s \in Slots \ {"indicator_names"} : new[s] = state[s]
    BY <1>8, SlotNames DEF Put, SlotStates
  <2> QED
    BY <2>1, <2>2
<1> QED
  BY <1>5, <1>7, <1>8

\* What autofill makes of a session for a task that is named alone.
LEMMA TaskFilled ==
    ASSUME NEW state \in SlotStates, NEW n \in Tasks, NEW d \in DataTypes,
           TaskDomains[n] = {d}, NEW rows \in SUBSET Rows,
           InScope(rows, Put(state, "data_types", d)) # {},
           IndicatorsOf[d] # {}, Preferred[d] \in IndicatorsOf[d] \cup {NoValue},
           NEW new \in Autofilled(state, {}, n, rows)
    PROVE  /\ new["data_types"] = {d}
           /\ new["indicator_names"] # {} /\ new["indicator_names"] \subseteq IndicatorsOf[d]
           /\ \A p \in PlaceSlots : new[p] # {} /\ (state[p] # {} => new[p] = state[p])
           /\ \E r \in rows : r.data_type = d
<1> DEFINE typed == Put(state, "data_types", d)
<1>1. /\ typed \in SlotStates /\ typed["data_types"] = {d}
      /\ \A s \in Slots \ {"data_types"} : typed[s] = state[s]
  BY SlotNames DEF Put, SlotStates, Values
<1>2. rows # {}
  BY DEF InScope
<1>3. FillDataType(state, {}, n, rows) = {typed}
  BY TypeFilled
<1> HIDE DEF typed
<1>4. PICK placed \in FillPlaces(typed, {}, rows) : new \in FillIndicator(placed, {}, rows)
  BY <1>2, <1>3 DEF Autofilled
<1>5. InScope(rows, typed) # {}
  BY DEF typed
<1>6. /\ placed \in SlotStates /\ placed["data_types"] = {d}
      /\ \A p \in PlaceSlots : typed[p] # {} => placed[p] = typed[p]
      /\ \E r \in rows : r.data_type = d /\ \A p \in PlaceSlots : r.place[p] \in placed[p]
  BY <1>1, <1>4, <1>5, PlacesFilled
<1>7. /\ new["indicator_names"] # {} /\ new["indicator_names"] \subseteq IndicatorsOf[d]
      /\ \A s \in Slots \ {"indicator_names"} : new[s] = placed[s]
  BY <1>4, <1>6, IndicatorFilled
<1>8. new["data_types"] = {d}
  BY <1>6, <1>7, SlotNames
<1>9. \A p \in PlaceSlots : new[p] # {} /\ (state[p] # {} => new[p] = state[p])
  BY <1>1, <1>6, <1>7, SlotNames
<1> QED
  BY <1>6, <1>7, <1>8, <1>9

\* A message that names no other data type and no indicator does not narrow
\* the indicators of the data type away.
LEMMA TypeStaysOffered ==
    ASSUME NEW d \in DataTypes, NEW said, said \cap (DataTypes \cup Indicators) \subseteq {d},
           NEW w, \E r \in RowsFor(w) : r.data_type = d, NEW i \in IndicatorsOf[d]
    PROVE  /\ i \in Narrowed(LoadedCatalog(w), said, w)["indicator_names"]
           /\ d \in DomainsOf(i, w)
<1> DEFINE cat == LoadedCatalog(w)
           hit == [s \in Slots |-> cat[s] \cap said]
           ofTypes == {j \in cat["indicator_names"] : DomainsOf(j, w) \cap hit["data_types"] # {}}
<1>1. d \in DomainsOf(i, w)
  BY DEF DomainsOf
<1>2. /\ cat["data_types"] = DataTypes
      /\ cat["indicator_names"] = {j \in Indicators : DomainsOf(j, w) # {}}
  BY SlotNames DEF LoadedCatalog
<1>3. i \in cat["indicator_names"]
  BY <1>1, <1>2, ObservationAssumption
<1>4. /\ hit["data_types"] = cat["data_types"] \cap said
      /\ hit["indicator_names"] = cat["indicator_names"] \cap said
  BY SlotNames
<1>5. Narrowed(cat, said, w)["indicator_names"] =
         IF ofTypes # {} THEN ofTypes
         ELSE IF hit["indicator_names"] # {} THEN hit["indicator_names"]
         ELSE cat["indicator_names"]
  BY SlotNames DEF Narrowed
<1> HIDE DEF cat, hit
<1>6. CASE d \in said
  <2>1. d \in hit["data_types"]
    BY <1>2, <1>4, <1>6
  <2>2. i \in ofTypes
    BY <1>1, <1>3, <2>1
  <2> QED
    BY <1>1, <1>5, <2>2 DEF cat
<1>7. CASE d \notin said
  <2>1. hit["data_types"] = {} /\ hit["indicator_names"] = {}
    BY <1>2, <1>4, <1>7
  <2>2. ofTypes = {}
    BY <2>1
  <2> QED
    BY <1>1, <1>3, <1>5, <2>1, <2>2 DEF cat
<1> QED
  BY <1>6, <1>7

\* A turn that only names a task of one data type, wherever its session comes
\* from, runs it for that data type with indicators of it.
THEOREM SwitchCorrect == Spec => []SwitchedTaskRuns
<1>1. TypeOK /\ SwitchInv => SwitchedTaskRuns
  <2> SUFFICES ASSUME TypeOK, SwitchInv, NEW t \in Turns, NEW n \in Tasks, NEW d \in DataTypes,
                      pc[t] = "plan", AsksOnlyFor(t, n), TaskDomains[n] = {d},
                      SigmaServes(ctx[t], d)
               PROVE  LET c == ctx[t]
                          chosen == c.state["indicator_names"]
                      IN  /\ c.state["data_types"] = {d}
                          /\ chosen # {} /\ chosen \subseteq IndicatorsOf[d]
                          /\ \A p \in PlaceSlots : c.before[p] # {} => c.state[p] = c.before[p]
                          /\ (\A i \in chosen : <<i, d>> \in Indexed) =>
                                PlansOf(t) = {MakePlan("task", "", n, Changed(c.before, c.state))}
    BY Zenon DEF SwitchedTaskRuns
  <2> DEFINE c == ctx[t]
             rows == RowsFor(c.dataset)
  <2>1. c \in Contexts /\ c.before \in SlotStates
    BY DEF TypeOK, Contexts
  <2>2. ActionNames(c.intents) = {n} /\ Touched(c.batch) = {}
    BY DEF AsksOnlyFor
  <2>3. n \notin OtherIntents /\ AutofillTasks(c.intents) = {n}
    BY <2>2, IntentsAssumption DEF AutofillTasks
  <2>4. SwitchAt("plan", c)
    BY DEF SwitchInv
  <2>5. Commit(c.before, c.batch) = c.before
    <3>1. ~c.batch.all
      BY <2>2, <2>3, <2>4 DEF SwitchAt, ResolvedAt, Resolve, OtherIntents
    <3>2. \A s \in Slots : c.batch.on[s].act = "none"
      BY <2>2 DEF Touched
    <3>3. Commit(c.before, c.batch) = [s \in Slots |-> c.before[s]]
      BY <3>1, <3>2 DEF Commit
    <3> QED
      BY <2>1, <3>3 DEF SlotStates
  <2>6. c.state \in Autofilled(c.before, {}, n, rows)
    BY <2>2, <2>3, <2>4, <2>5 DEF SwitchAt
  <2>7. rows \in SUBSET Rows
    BY DEF RowsFor
  <2>8. /\ InScope(rows, Put(c.before, "data_types", d)) # {} /\ IndicatorsOf[d] # {}
        /\ Preferred[d] \in IndicatorsOf[d] \cup {NoValue}
    BY DEF SigmaServes
  <2>9. /\ c.state["data_types"] = {d}
        /\ c.state["indicator_names"] # {} /\ c.state["indicator_names"] \subseteq IndicatorsOf[d]
        /\ \A p \in PlaceSlots :
              c.state[p] # {} /\ (c.before[p] # {} => c.state[p] = c.before[p])
        /\ \E r \in rows : r.data_type = d
    BY <2>1, <2>6, <2>7, <2>8, TaskFilled
  <2>10. ASSUME \A i \in c.state["indicator_names"] : <<i, d>> \in Indexed
         PROVE  PlansOf(t) = {MakePlan("task", "", n, Changed(c.before, c.state))}
    <3>1. Missing(n, c.state) = {}
      BY <2>9, SlotNames, ObservationAssumption DEF Missing
    <3>2. c.catalog = Narrowed(LoadedCatalog(c.dataset), Mentions[c.message], c.dataset)
      BY <2>4 DEF SwitchAt, NarrowedAt
    <3>3. Mentions[c.message] \cap (DataTypes \cup Indicators) \subseteq {d}
      BY DEF AsksOnlyFor
    <3>4. ASSUME NEW i \in c.state["indicator_names"]
          PROVE  i \in c.catalog["indicator_names"] /\ d \in DomainsOf(i, c.dataset)
      <4>1. i \in IndicatorsOf[d] /\ \E r \in RowsFor(c.dataset) : r.data_type = d
        BY <2>9
      <4> HIDE DEF c
      <4> QED
        BY <4>1, <3>2, <3>3, TypeStaysOffered
    <3>5. ParamTypes(n, c.state) = {d}
      BY <2>9, FS_Singleton DEF ParamTypes
    <3>6. HasParams(n, c.state, c.catalog, c.dataset)
      BY <2>10, <3>4, <3>5 DEF HasParams
    <3>7. Matched({n}) = {n}
      BY ObservationAssumption DEF Matched
    <3>8. {n} \cap Queries = {} /\ "clear_context" \notin {n} /\ "current" \notin {n}
      BY <2>3 DEF OtherIntents
    <3> DEFINE changed == Changed(c.before, c.state)
               answers == QueryPlans(c, Mentions[c.message])
    <3>9. TaskPlans(n, c.state, c.catalog, c.dataset, changed)
             = {MakePlan("task", "", n, changed)}
      BY <3>1, <3>6 DEF TaskPlans
    <3>10. PlansOf(t) = BuildPlans({n}, c.state, changed, c.task.active, c.catalog, c.dataset,
                                   answers)
      BY <2>2 DEF PlansOf
    <3> HIDE DEF c, changed, answers
    <3>11. BuildPlans({n}, c.state, changed, c.task.active, c.catalog, c.dataset, answers)
              = UNION {TaskPlans(m, c.state, c.catalog, c.dataset, changed) : m \in {n}}
      BY <3>7, <3>8 DEF BuildPlans
    <3> QED
      BY <3>9, <3>10, <3>11 DEF changed
  <2> QED
    BY <2>9, <2>10
<1> QED
  BY <1>1, TypeCorrect, SwitchInvariant, PTL
=============================================================================
