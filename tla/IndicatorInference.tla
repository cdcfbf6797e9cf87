------------------------- MODULE IndicatorInference -------------------------
(***************************************************************************)
(* What happens to the recognizer's decision before slots are resolved:    *)
(* the resolver-query normalisation of ThemisRecognitionStep, the          *)
(* observation scope policy, ObservationIndicatorInferenceStep and         *)
(* ObservationResolverQueryNormalizationStep.                              *)
(***************************************************************************)
EXTENDS Observation

HasIndicator(i) == i.slot = "indicator_names" /\ i.target # NoValue

HasDataType(i) == i.slot = "data_types" /\ i.target # NoValue

\* _normalize_resolver_query_decision: a query that only names an entity
\* becomes an action; one that names a target is kept and repeated as one.
NormalizeQueries(intents) ==
    LET actless(i) == i.name \in Queries /\ i.act = "none"
        slotOnly(i) == actless(i) /\ i.target = NoValue /\ i.slot # "none"
        targeted(i) == actless(i) /\ i.target # NoValue
    IN  {i \in intents : ~slotOnly(i)}
        \cup {ActionIntent(i.name) : i \in {j \in intents : slotOnly(j) \/ targeted(j)}}

----------------------------------------------------------------------------
(* ObservationScopePolicy: the first rule that does not pass decides.      *)

Scope(status, types) == [status |-> status, types |-> types]

ScopeOf(types) ==
    IF types = {} THEN Scope("pass", {})
    ELSE IF Cardinality(types) = 1 THEN Scope("resolved", types)
    ELSE Scope("conflict", types)

OrElse(scope, next) == IF scope.status = "pass" THEN next ELSE scope

\* The inference step gives the policy no selected data type and no task, so
\* only the explicit and the indicator rule can speak.
ResolveScope(explicit, ofIndicators) ==
    OrElse(ScopeOf(explicit), ScopeOf(ofIndicators))

\* The data types the message mentions, if pre-recognition matched any.
MentionedTypes(said, cat, dataset) ==
    IF said \cap LoadedCatalog(dataset)["data_types"] # {}
    THEN cat["data_types"] ELSE {}

----------------------------------------------------------------------------
(* ObservationIndicatorInferenceStep.                                      *)

\* _pending_data_type_selection: the data type with which this turn answers
\* the pending request, as a set of at most one element.
Restored(intents, request, cat, said, bare) ==
    IF request = NoRequest \/ \E i \in intents : HasIndicator(i) THEN {}
    ELSE LET named  == {i.target : i \in {j \in intents : HasDataType(j)}}
                          \cap cat["data_types"]
             chosen == IF named # {} THEN named
                       ELSE IF bare THEN said \cap cat["data_types"] ELSE {}
             fits   == chosen \cap request.candidates
         IN  IF Cardinality(fits) = 1 THEN fits ELSE {}

IsDataTypeScope(i) == i.name \in Tasks /\ i.act = "none" /\ HasDataType(i)

\* One intent rewritten: a task intent that only names a data type becomes
\* an action, and an indicator the catalog knows becomes a valid operation.
Rewritten(i, cat) ==
    IF IsDataTypeScope(i) THEN ActionIntent(i.name)
    ELSE IF HasIndicator(i) /\ i.name \notin Queries
            /\ i.target \in cat["indicator_names"]
         THEN [i EXCEPT !.act = IF i.act = "none" THEN "replace" ELSE i.act,
                        !.valid = TRUE]
         ELSE i

\* Seeded bug: the indicator asked about joins the ones already selected.
RestoredAsAdded(request) ==
    [name |-> "indicator_list", act |-> "add", slot |-> "indicator_names",
     target |-> request.indicator, valid |-> TRUE]

RestoredIntent(request) ==
    [name |-> "indicator_list", act |-> "replace", slot |-> "indicator_names",
     target |-> request.indicator, valid |-> TRUE]

\* The task inferred for a data type: the last one of the catalog wins.
TasksFor(d) ==
    LET ts == {t \in Tasks : d \in TaskDomains[t]}
    IN  {t \in ts : \A u \in ts : Rank[u] <= Rank[t]}

\* The outcome of the step: the decision's intents, the plan it ends the
\* turn with (or NoPlan), the request it raises (or NoRequest) and whether
\* the pending request is to be dropped.
Infer(intents, request, cat, said, bare, dataset) ==
    LET restored == Restored(intents, request, cat, said, bare)
        back     == restored # {}
        rewritten == {Rewritten(i, cat) : i \in intents}
                     \cup (IF back THEN {RestoredIntent(request)} ELSE {})
        asking   == {i \in intents : HasIndicator(i) /\ i.name \notin Queries}
        targets  == {i.target : i \in asking}
                    \cup (IF back THEN {request.indicator} ELSE {})
        explicit == (IF back THEN restored ELSE MentionedTypes(said, cat, dataset))
                    \cup {i.target : i \in {j \in intents : HasDataType(j)}}
                    \cup UNION {TaskDomains[n] : n \in ActionNames(rewritten) \cap Tasks}
        ofIndicators == UNION {DomainsOf(i, dataset) :
                                  i \in targets \cap cat["indicator_names"]}
        scope == ResolveScope(explicit, ofIndicators)
        inferred == IF scope.status = "resolved"
                    THEN UNION {TasksFor(d) : d \in scope.types} ELSE {}
        outcome(is, p, r, c) == [intents |-> is, plan |-> p, raised |-> r, drop |-> c]
    IN  IF targets = {} THEN outcome(rewritten, NoPlan, NoRequest, FALSE)
        ELSE IF scope.status = "conflict"
             THEN outcome(rewritten,
                          MakePlan("clarify", "ambiguous_slots", NoTask, {}),
                          IF ~back /\ Cardinality(asking) = 1
                          THEN [indicator |-> CHOOSE v \in targets : TRUE,
                                candidates |-> scope.types]
                          ELSE NoRequest,
                          FALSE)
        ELSE outcome(rewritten \cup {ActionIntent(n) : n \in inferred},
                     NoPlan, NoRequest, back)

\* ObservationResolverQueryNormalizationStep: asking for the indicators of a
\* data type, with no action of its own, is a resolver query.
InjectQuery(intents) ==
    IF ActionNames(intents) = {}
       /\ \E i \in intents : i.name = "indicator_list" /\ HasDataType(i)
    THEN intents \cup {ActionIntent("query_indicators")}
    ELSE intents
=============================================================================
