------------------------- MODULE ConversationProofs -------------------------
(***************************************************************************)
(* What holds across the turns of a conversation: the answer to a pending  *)
(* question serves it, a clear forgets the session, and a session with one *)
(* turn in flight has no task, question or slots but its turns' own.       *)
(***************************************************************************)
EXTENDS SynapseTurnsProofs

----------------------------------------------------------------------------
(* Answering a pending request.                                            *)

\* A request asks for the data type of an indicator.
FiledRequest(r) == r # NoRequest => r.indicator \notin DataTypes \cup Places

Cleared(c) == "clear_context" \in ActionNames(c.intents)

\* The turn answers request r with the data type x: its tasks are for x ...
Restores(is, r, x) ==
    /\ x \in DataTypes /\ r # NoRequest /\ x \in r.candidates
    /\ AutofillTasks(is) # {}
    /\ \A n \in AutofillTasks(is) : TaskDomains[n] = {x}

\* ... and its operations set the indicator asked about, and no other type.
RestoringOperations(is, r, cat, x) ==
    /\ OperationsOn("indicator_names", is, cat) = {RestoredIntent(r)}
    /\ \A o \in OperationsOn("data_types", is, cat) : o.act = "replace" /\ o.target = x

RestoringBatch(b, r, x) ==
    /\ ~b.all
    /\ b.on["indicator_names"] = [act |-> "replace", vals |-> {r.indicator}]
    /\ \/ b.on["data_types"].act = "none"
       \/ b.on["data_types"] = [act |-> "replace", vals |-> {x}]

\* What is so of a turn at step `at' that has answered its request.
Serving(c, at, x) ==
    /\ Restores(c.intents, c.request, x)
    /\ \/ Cleared(c)
       \/ /\ at \in {"normalize", "resolve"} =>
                RestoringOperations(c.intents, c.request, c.catalog, x)
          /\ at \in {"validate", "commit"} => RestoringBatch(c.batch, c.request, x)
          /\ at = "commit" => c.request.indicator \in c.catalog["indicator_names"]
          /\ at \in {"autofill", "write", "plan", "save_task"} =>
                c.state["indicator_names"] = {c.request.indicator}
          /\ at = "autofill" => /\ RowsFor(c.dataset) # {}
                                /\ "indicator_names" \in Touched(c.batch)
                                /\ "data_types" \in Touched(c.batch) =>
                                       c.state["data_types"] = {x}
          /\ at \in {"write", "plan", "save_task"} => c.state["data_types"] = {x}
    /\ at = "save_task" => ~Cleared(c) /\ c.plan.task \in AutofillTasks(c.intents)

\* The steps of a turn that has its catalog, and of one that knows its answer.
Cataloged == {"pre_recognize", "recognize", "recognizing", "infer", "normalize", "resolve",
              "validate", "commit"}

Inferred == {"normalize", "resolve", "validate", "commit", "autofill", "write", "plan",
             "save_task"}

ServedAt(c, at) ==
    /\ FiledRequest(c.request)
    /\ at \in Cataloged =>
          \A s \in Slots : c.catalog[s] \subseteq LoadedCatalog(c.dataset)[s]
    /\ at = "infer" => \E d \in Readings[c.message] : c.intents = NormalizeQueries(d.intents)
    /\ at \in Inferred /\ c.drop /\ (at = "save_task" => c.plan.kind = "task")
          => \E x \in DataTypes : Serving(c, at, x)

ServedInv ==
    /\ \A s \in Sessions : FiledRequest(requests[s])
    /\ \A t \in Turns : ServedAt(ctx[t], pc[t])

\* A value another slot offers belongs to a slot that offers it.
LEMMA SlotOfOffers ==
    ASSUME NEW i, NEW cat
    PROVE  \/ SlotOf(i, cat) = i.slot
           \/ SlotOf(i, cat) \in Slots /\ i.target \in cat[SlotOf(i, cat)]
<1> DEFINE offering == {s \in Slots : i.target \in cat[s]}
           first(s) == s \in offering /\ \A u \in offering : Priority[s] <= Priority[u]
<1>1. CASE i.slot \in offering \/ offering = {}
  BY <1>1 DEF SlotOf
<1>2. CASE ~(i.slot \in offering \/ offering = {})
  <2>1. SlotOf(i, cat) = CHOOSE s \in offering : \A u \in offering : Priority[s] <= Priority[u]
    BY <1>2 DEF SlotOf
  <2>2. offering \subseteq {"sensors", "test_segments", "indicator_names", "data_types"}
    BY ObservationAssumption DEF Slots, MultiSlots
  <2>3. /\ Priority["sensors"] = 1 /\ Priority["test_segments"] = 2
        /\ Priority["indicator_names"] = 3 /\ Priority["data_types"] = 4
    BY DEF Priority
  <2> HIDE DEF offering
  <2>4. \E s : first(s)
    <3>1. CASE "sensors" \in offering
      BY <3>1, <2>2, <2>3
    <3>2. CASE "sensors" \notin offering /\ "test_segments" \in offering
      BY <3>2, <2>2, <2>3
    <3>3. CASE "sensors" \notin offering /\ "test_segments" \notin offering
               /\ "indicator_names" \in offering
      BY <3>3, <2>2, <2>3
    <3>4. CASE offering \subseteq {"data_types"}
      BY <3>4, <1>2, <2>3
    <3> QED
      BY <2>2, <3>1, <3>2, <3>3, <3>4
  <2>5. SlotOf(i, cat) \in offering
    BY <2>1, <2>4
  <2> QED
    BY <2>5 DEF offering
<1> QED
  BY <1>1, <1>2

\* What a catalog of values of Sigma offers in each slot.
LEMMA OfferedKinds ==
    ASSUME NEW w, NEW cat, \A s \in Slots : cat[s] \subseteq LoadedCatalog(w)[s]
    PROVE  /\ cat["data_types"] \subseteq DataTypes
           /\ cat["indicator_names"] \subseteq Indicators
           /\ \A p \in PlaceSlots : cat[p] \subseteq Places
<1>1. /\ LoadedCatalog(w)["data_types"] = DataTypes
      /\ LoadedCatalog(w)["indicator_names"] \subseteq Indicators
  BY SlotNames DEF LoadedCatalog
<1>2. ASSUME NEW p \in PlaceSlots
      PROVE  LoadedCatalog(w)[p] \subseteq Places
  <2>1. LoadedCatalog(w)[p] = {r.place[p] : r \in RowsFor(w)}
    BY SlotNames DEF LoadedCatalog
  <2>2. \A r \in RowsFor(w) : r.place[p] \in Places
    BY ObservationAssumption DEF RowsFor
  <2> QED
    BY <2>1, <2>2
<1> QED
  BY <1>1, <1>2, SlotNames

\* Where the recognizer files values by their kind, only an intent that names
\* the slot has an operation on the indicators or on the data type.
LEMMA FiledOperations ==
    ASSUME NEW w, NEW cat, \A s \in Slots : cat[s] \subseteq LoadedCatalog(w)[s],
           NEW is, NEW s \in {"indicator_names", "data_types"},
           NEW o \in OperationsOn(s, is, cat), Filed(o)
    PROVE  o.slot = s
<1>1. o.act # "none" /\ SlotOf(o, cat) = s
  BY DEF OperationsOn
<1>2. CASE o.target \in cat[s]
  <2>1. o.target \in Indicators \cup DataTypes
    BY <1>2, OfferedKinds
  <2>2. o.slot # "none"
    BY <1>1, <2>1 DEF Filed
  <2> QED
    BY <1>2, <2>2, OfferedKinds DEF Filed
<1> QED
  BY <1>1, <1>2, SlotOfOffers

\* The operation restored for a request is one on the indicators.
LEMMA RestoredOperation ==
    ASSUME NEW w, NEW cat, \A s \in Slots : cat[s] \subseteq LoadedCatalog(w)[s],
           NEW r \in Requests, FiledRequest(r), NEW is
    PROVE  /\ SlotOf(RestoredIntent(r), cat) = "indicator_names"
           /\ RestoredIntent(r) \in is =>
                 RestoredIntent(r) \in OperationsOn("indicator_names", is, cat)
           /\ RestoredIntent(r) \notin OperationsOn("data_types", is, cat)
<1> DEFINE i == RestoredIntent(r)
<1>1. /\ i.slot = "indicator_names" /\ i.target = r.indicator
      /\ i.act = "replace" /\ i.valid
  BY DEF RestoredIntent
<1>2. r.indicator # NoValue /\ r.indicator \notin DataTypes \cup Places
  BY ObservationAssumption, RequestAssumption DEF Requests, FiledRequest
<1> HIDE DEF i
<1>3. SlotOf(i, cat) = "indicator_names"
  <2>1. CASE SlotOf(i, cat) \in Slots /\ i.target \in cat[SlotOf(i, cat)]
    BY <1>1, <1>2, <2>1, OfferedKinds, SlotNames
  <2> QED
    BY <1>1, <2>1, SlotOfOffers
<1> QED
  BY <1>1, <1>2, <1>3 DEF OperationsOn, i

\* Normalising resolver queries adds only intents without slot and target.
LEMMA NormalizedFiled ==
    ASSUME FilesValues, NEW m \in Messages, NEW d \in Readings[m], NEW S,
           S = NormalizeQueries(d.intents)
    PROVE  /\ \A i \in S : Filed(i)
           /\ IsFiniteSet({i.target : i \in S})
<1>1. \A i \in S : i \in d.intents \/ (i.slot = "none" /\ i.act = "none" /\ i.target = NoValue)
  BY DEF NormalizeQueries, ActionIntent
<1>2. \A i \in S : Filed(i)
  BY <1>1 DEF FilesValues, Filed
<1>3. IsFiniteSet({i.target : i \in d.intents})
  <2> DEFINE T == {i.target : i \in d.intents}
             f == [i \in d.intents |-> i.target]
  <2>1. f \in Surjection(d.intents, T)
    BY DEF Surjection
  <2>2. IsFiniteSet(d.intents)
    BY DEF FilesValues
  <2> HIDE DEF f, T
  <2>3. IsFiniteSet(T)
    BY <2>1, <2>2, FS_Surjection
  <2> QED
    BY <2>3 DEF T
<1>4. {i.target : i \in S} \subseteq {i.target : i \in d.intents} \cup {NoValue}
  BY <1>1
<1>5. IsFiniteSet({i.target : i \in d.intents} \cup {NoValue})
  BY <1>3, FS_Singleton, FS_Union
<1>6. IsFiniteSet({i.target : i \in S})
  BY <1>4, <1>5, FS_Subset
<1> QED
  BY <1>2, <1>6

\* Naming the action intents of a set of names.
LEMMA ActionNamesOf ==
    /\ \A S, T : ActionNames(S \cup T) = ActionNames(S) \cup ActionNames(T)
    /\ \A N : ActionNames({ActionIntent(n) : n \in N}) = N
<1>1. \A S, T : ActionNames(S \cup T) = ActionNames(S) \cup ActionNames(T)
  BY Zenon DEF ActionNames
<1>2. ASSUME NEW N
      PROVE  ActionNames({ActionIntent(n) : n \in N}) = N
  <2> DEFINE S == {ActionIntent(n) : n \in N}
  <2>1. \A n \in N : ActionIntent(n) \in S /\ IsAction(ActionIntent(n)) /\ ActionIntent(n).name = n
    BY DEF ActionIntent, IsAction
  <2>2. \A i \in S : i.name \in N
    BY DEF ActionIntent
  <2> HIDE DEF S
  <2>3. N \subseteq ActionNames(S)
    BY <2>1 DEF ActionNames
  <2>4. ActionNames(S) \subseteq N
    BY <2>2 DEF ActionNames
  <2>5. ActionNames(S) = N
    BY <2>3, <2>4
  <2> QED
    BY <2>5 DEF S
<1> QED
  BY <1>1, <1>2

\* A turn that drops its request answers it: ObservationIndicatorInferenceStep
\* sets the indicator asked about and names the task of the one data type.
LEMMA InferServes ==
    ASSUME TaskPerType, NEW is \in SUBSET Intents, \A i \in is : Filed(i),
           IsFiniteSet({i.target : i \in is}),
           NEW r \in Requests \cup {NoRequest}, FiledRequest(r),
           NEW w \in BOOLEAN, NEW cat \in Catalogs,
           \A s \in Slots : cat[s] \subseteq LoadedCatalog(w)[s],
           NEW said, NEW bare, NEW o, o = Infer(is, r, cat, said, bare, w), o.drop
    PROVE  /\ o.plan = NoPlan /\ o.raised = NoRequest
           /\ \E x \in DataTypes : /\ Restores(o.intents, r, x)
                                   /\ RestoringOperations(o.intents, r, cat, x)
<1> DEFINE restored  == Restored(is, r, cat, said, bare)
           back      == restored # {}
           rewritten == {Rewritten(i, cat) : i \in is}
                        \cup (IF back THEN {RestoredIntent(r)} ELSE {})
           asking    == {i \in is : HasIndicator(i) /\ i.name \notin Queries}
           targets   == {i.target : i \in asking}
                        \cup (IF back THEN {r.indicator} ELSE {})
           typed     == {i.target : i \in {j \in is : HasDataType(j)}}
           ofTasks   == UNION {TaskDomains[n] : n \in ActionNames(rewritten) \cap Tasks}
           explicit == (IF back THEN restored ELSE MentionedTypes(said, cat, w))
                       \cup typed \cup ofTasks
           ofIndicators == UNION {DomainsOf(i, w) : i \in targets \cap cat["indicator_names"]}
           scope     == ResolveScope(explicit, ofIndicators)
           inferred  == IF scope.status = "resolved"
                        THEN UNION {TasksFor(d) : d \in scope.types} ELSE {}
           out       == rewritten \cup {ActionIntent(n) : n \in inferred}
<1>1. /\ back /\ scope.status # "conflict"
      /\ o = [intents |-> out, plan |-> NoPlan, raised |-> NoRequest, drop |-> back]
  <2> DEFINE other == [intents |-> rewritten,
                       plan |-> MakePlan("clarify", "ambiguous_slots", NoTask, {}),
                       raised |-> IF ~back /\ Cardinality(asking) = 1
                                  THEN [indicator |-> CHOOSE v \in targets : TRUE,
                                        candidates |-> scope.types]
                                  ELSE NoRequest,
                       drop |-> FALSE]
             none == [intents |-> rewritten, plan |-> NoPlan, raised |-> NoRequest,
                      drop |-> FALSE]
             full == [intents |-> out, plan |-> NoPlan, raised |-> NoRequest, drop |-> back]
  <2>1. o = IF targets = {} THEN none ELSE IF scope.status = "conflict" THEN other ELSE full
    BY DEF Infer
  <2>2. none.drop = FALSE /\ other.drop = FALSE /\ full.drop = back
    OBVIOUS
  <2> HIDE DEF none, other, full, scope, back, targets
  <2>3. targets # {} /\ scope.status # "conflict" /\ o = full
    BY <2>1, <2>2
  <2>4. back
    BY <2>2, <2>3
  <2> QED
    BY <2>3, <2>4 DEF full
<1>2. o.intents = out /\ o.plan = NoPlan /\ o.raised = NoRequest
  <2> HIDE DEF out, back
  <2> QED
    BY <1>1
<1>3. PICK x : restored = {x} /\ x \in r.candidates /\ x \in DataTypes
  <2> DEFINE named  == {i.target : i \in {j \in is : HasDataType(j)}} \cap cat["data_types"]
             chosen == IF named # {} THEN named
                       ELSE IF bare THEN said \cap cat["data_types"] ELSE {}
             fits   == chosen \cap r.candidates
  <2>1. restored = fits /\ Cardinality(fits) = 1
    BY <1>1 DEF Restored
  <2>2. fits \subseteq DataTypes
    BY OfferedKinds
  <2>3. fits \subseteq r.candidates
    OBVIOUS
  <2> HIDE DEF fits, restored
  <2>4. IsFiniteSet(fits)
    BY <2>2, FS_Subset DEF TaskPerType
  <2>5. PICK x : fits = {x}
    BY <2>1, <2>4, FS_Singleton
  <2> QED
    BY <2>1, <2>2, <2>3, <2>5
<1>4. r # NoRequest /\ \A i \in is : ~HasIndicator(i)
  BY <1>1 DEF Restored
<1>5. explicit = {x} /\ scope = Scope("resolved", {x})
  <2>1. explicit = {x} \cup typed \cup ofTasks
    <3> HIDE DEF restored, typed, ofTasks
    <3> QED
      BY <1>3
  <2>2. typed \subseteq {i.target : i \in is}
    OBVIOUS
  <2>3. ofTasks \subseteq DataTypes
    <3>1. \A n \in Tasks : TaskDomains[n] \subseteq DataTypes
      BY ObservationAssumption
    <3> HIDE DEF rewritten
    <3> QED
      BY <3>1
  <2>4. IsFiniteSet(explicit)
    <3> HIDE DEF explicit, typed, ofTasks
    <3>1. IsFiniteSet(DataTypes \cup {i.target : i \in is})
      BY FS_Union DEF TaskPerType
    <3>2. explicit \subseteq DataTypes \cup {i.target : i \in is}
      BY <1>3, <2>1, <2>2, <2>3
    <3> QED
      BY <3>1, <3>2, FS_Subset
  <2> HIDE DEF explicit, typed, ofTasks, ofIndicators
  <2>5. explicit # {}
    BY <2>1
  <2>6. Cardinality(explicit) = 1 /\ scope = Scope("resolved", explicit)
    BY <1>1, <2>5 DEF ResolveScope, OrElse, ScopeOf, Scope
  <2>7. PICK y : explicit = {y}
    BY <2>4, <2>6, FS_Singleton
  <2>8. explicit = {x}
    BY <2>1, <2>7
  <2> QED
    BY <2>6, <2>8
<1>6. inferred = TasksFor(x)
  <2> HIDE DEF scope
  <2> QED
    BY <1>5 DEF Scope
<1> HIDE DEF inferred
<1>7. typed \subseteq {x} /\ ofTasks \subseteq {x}
  <2> HIDE DEF typed, ofTasks, restored
  <2> QED
    BY <1>5
<1>8. Restores(o.intents, r, x)
  <2>1. AutofillTasks(out) = (ActionNames(rewritten) \cap Tasks) \cup TasksFor(x)
    <3>1. TasksFor(x) \subseteq Tasks
      BY DEF TasksFor
    <3> HIDE DEF rewritten
    <3> DEFINE named == {ActionIntent(n) : n \in inferred}
    <3>2. ActionNames(named) = TasksFor(x)
      BY <1>6, ActionNamesOf
    <3> HIDE DEF named
    <3>3. ActionNames(rewritten \cup named) = ActionNames(rewritten) \cup TasksFor(x)
      BY <3>2, ActionNamesOf
    <3>4. ActionNames(out) = ActionNames(rewritten) \cup TasksFor(x)
      BY <3>3 DEF named
    <3> QED
      BY <3>1, <3>4 DEF AutofillTasks
  <2>2. \A n \in TasksFor(x) : n \in Tasks /\ x \in TaskDomains[n]
    BY DEF TasksFor
  <2>3. \A n \in ActionNames(rewritten) \cap Tasks : n \in Tasks /\ TaskDomains[n] \subseteq {x}
    <3> HIDE DEF rewritten
    <3> QED
      BY <1>7
  <2>4. TasksFor(x) # {}
    BY <1>3 DEF TaskPerType
  <2> HIDE DEF out, rewritten
  <2>5. \A n \in AutofillTasks(out) : TaskDomains[n] = {x}
    BY <2>1, <2>2, <2>3 DEF TaskPerType
  <2> QED
    BY <1>2, <1>3, <1>4, <2>1, <2>4, <2>5 DEF Restores
<1>9. ASSUME NEW i \in out
      PROVE  i = RestoredIntent(r) \/ i \in is \/ i.act = "none"
  <2>1. \A j \in is : Rewritten(j, cat) = j \/ Rewritten(j, cat).act = "none"
    BY <1>4 DEF Rewritten, ActionIntent
  <2>2. \A n : ActionIntent(n).act = "none"
    BY DEF ActionIntent
  <2> HIDE DEF back
  <2> QED
    BY <2>1, <2>2
<1>10. r \in Requests /\ RestoredIntent(r) \in out
  <2> HIDE DEF restored
  <2> QED
    BY <1>1, <1>4
<1>11. OperationsOn("indicator_names", out, cat) = {RestoredIntent(r)}
  <2>1. ASSUME NEW i \in OperationsOn("indicator_names", out, cat)
        PROVE  i = RestoredIntent(r)
    <3> HIDE DEF out
    <3>1. i \in out /\ i.act # "none" /\ i.target # NoValue
      BY DEF OperationsOn
    <3>2. CASE i \in is
      <4>1. i.slot = "indicator_names"
        BY <3>2, FiledOperations
      <4> QED
        BY <3>1, <3>2, <4>1, <1>4 DEF HasIndicator
    <3> QED
      BY <3>1, <3>2, <1>9
  <2> HIDE DEF out
  <2> QED
    BY <2>1, <1>10, RestoredOperation
<1>12. ASSUME NEW i \in OperationsOn("data_types", out, cat)
       PROVE  i.act = "replace" /\ i.target = x
  <2>1. i \in out /\ i.act # "none" /\ i.target # NoValue
    BY DEF OperationsOn
  <2>2. i # RestoredIntent(r)
    <3> HIDE DEF out
    <3> QED
      BY <1>10, RestoredOperation
  <2>3. i \in is
    <3> HIDE DEF out
    <3> QED
      BY <1>9, <2>1, <2>2
  <2>4. i.slot = "data_types"
    <3> HIDE DEF out
    <3> QED
      BY <2>3, FiledOperations
  <2>5. i.target \in typed
    BY <2>1, <2>3, <2>4 DEF HasDataType
  <2>6. i.act = "replace"
    <3> HIDE DEF out
    <3> QED
      BY <2>1, <2>3, <2>4 DEF Filed
  <2> HIDE DEF typed, out
  <2> QED
    BY <2>5, <2>6, <1>7
<1> HIDE DEF out
<1> QED
  BY <1>2, <1>3, <1>8, <1>11, <1>12 DEF RestoringOperations

\* Resolving such operations gives such a batch, unless the turn clears.
LEMMA ResolveServes ==
    ASSUME NEW is, NEW r, NEW cat, NEW x, RestoringOperations(is, r, cat, x),
           "clear_context" \notin ActionNames(is)
    PROVE  RestoringBatch(Resolve(is, cat), r, x)
<1> DEFINE b == Resolve(is, cat)
           ops(s) == OperationsOn(s, is, cat)
<1>1. \A s \in Slots : b.on[s] = [act  |-> IF ops(s) = {} THEN "none"
                                           ELSE (CHOOSE o \in ops(s) : TRUE).act,
                                  vals |-> {o.target : o \in ops(s)}]
  BY DEF Resolve
<1> HIDE DEF b
<1>2. b.on["indicator_names"] = [act |-> "replace", vals |-> {r.indicator}]
  <2>1. ops("indicator_names") = {RestoredIntent(r)}
    BY DEF RestoringOperations
  <2>2. RestoredIntent(r).act = "replace" /\ RestoredIntent(r).target = r.indicator
    BY DEF RestoredIntent
  <2> HIDE DEF ops
  <2>3. (CHOOSE o \in ops("indicator_names") : TRUE) = RestoredIntent(r)
    BY <2>1
  <2>4. {o.target : o \in ops("indicator_names")} = {r.indicator}
    BY <2>1, <2>2
  <2> QED
    BY <1>1, <2>1, <2>2, <2>3, <2>4, SlotNames
<1>3. \/ b.on["data_types"].act = "none"
      \/ b.on["data_types"] = [act |-> "replace", vals |-> {x}]
  <2>1. \A o \in ops("data_types") : o.act = "replace" /\ o.target = x
    BY DEF RestoringOperations
  <2> HIDE DEF ops
  <2>2. CASE ops("data_types") = {}
    <3>1. b.on["data_types"] = [act |-> "none", vals |-> {o.target : o \in ops("data_types")}]
      BY <1>1, <2>2, SlotNames
    <3> QED
      BY <3>1
  <2>3. CASE ops("data_types") # {}
    <3>1. (CHOOSE o \in ops("data_types") : TRUE).act = "replace"
      BY <2>1, <2>3
    <3>2. {o.target : o \in ops("data_types")} = {x}
      BY <2>1, <2>3
    <3> QED
      BY <1>1, <2>3, <3>1, <3>2, SlotNames
  <2> QED
    BY <2>2, <2>3
<1>4. ~b.all
  BY DEF Resolve, b
<1> QED
  BY <1>2, <1>3, <1>4 DEF RestoringBatch, b

\* Such a batch is committed as it is.
LEMMA CommitServes ==
    ASSUME NEW b \in Batches, NEW r, NEW x, NEW before, RestoringBatch(b, r, x)
    PROVE  /\ Commit(before, b)["indicator_names"] = {r.indicator}
           /\ "indicator_names" \in Touched(b)
           /\ "data_types" \in Touched(b) => Commit(before, b)["data_types"] = {x}
BY SlotNames DEF RestoringBatch, Commit, Touched

\* Autofill for a task of one data type sets it, where Sigma has rows and the
\* user named no data type.
LEMMA AutofillServes ==
    ASSUME NEW state \in SlotStates, NEW touched, "indicator_names" \in touched,
           NEW x \in DataTypes, "data_types" \in touched => state["data_types"] = {x},
           NEW n \in Tasks, TaskDomains[n] = {x},
           NEW rows \in SUBSET Rows, rows # {},
           NEW new \in Autofilled(state, touched, n, rows)
    PROVE  /\ new["indicator_names"] = state["indicator_names"]
           /\ new["data_types"] = {x}
<1>1. PICK typed \in FillDataType(state, touched, n, rows) :
        \E placed \in FillPlaces(typed, touched, rows) :
           new \in FillIndicator(placed, touched, rows)
  BY DEF Autofilled
<1>2. PICK placed \in FillPlaces(typed, touched, rows) :
         new \in FillIndicator(placed, touched, rows)
  BY <1>1
<1>3. typed["data_types"] = {x}
  <2>1. CASE "data_types" \in touched
    BY <2>1 DEF FillDataType
  <2>2. CASE "data_types" \notin touched
    <3>1. IsSingle(TaskDomains[n])
      BY FS_Singleton DEF IsSingle
    <3>2. typed = Put(state, "data_types", x)
      BY <2>2, <3>1 DEF FillDataType
    <3> QED
      BY <3>2, SlotNames DEF Put, SlotStates
  <2> QED
    BY <2>1, <2>2
<1>4. placed["data_types"] = typed["data_types"]
  <2> DEFINE open == {p \in PlaceSlots \ touched : typed[p] = {}}
             at(r) == [s \in Slots |-> IF s \in open THEN {r.place[s]} ELSE typed[s]]
  <2>1. placed = typed \/ \E r \in InScope(rows, typed) : placed = at(r)
    BY DEF FillPlaces
  <2>2. "data_types" \in Slots /\ "data_types" \notin open
    BY SlotNames
  <2> HIDE DEF open
  <2>3. \A r : at(r)["data_types"] = typed["data_types"]
    BY <2>2
  <2> QED
    BY <2>1, <2>3
<1>5. new = placed
  BY <1>2 DEF FillIndicator
<1>6. new["indicator_names"] = state["indicator_names"]
  BY AutofilledIsGood, SlotNames DEF GoodFill
<1> QED
  BY <1>3, <1>4, <1>5, <1>6

\* A turn that names tasks and is answered with a task runs one it names.
LEMMA NamedTask ==
    ASSUME NEW names, NEW state, NEW changed, NEW active, NEW cat, NEW w,
           NEW answers \in SUBSET {QueryReply, QueryClarify},
           NEW p \in BuildPlans(names, state, changed, active, cat, w, answers),
           p.kind = "task", names # {}
    PROVE  p.task \in names \cap Tasks /\ "clear_context" \notin names
<1> DEFINE chosen == IF Matched(names) # {} THEN Matched(names)
                     ELSE Continued(names, changed, active)
<1>1. chosen \subseteq names \cap Tasks
  BY DEF Matched, Continued
<1> HIDE DEF chosen
<1>2. /\ \A ch : MakePlan("context_clear", "", NoTask, ch).kind = "context_clear"
      /\ \A ch : MakePlan("context_update", "", NoTask, ch).kind = "context_update"
      /\ \A ch : MakePlan("reply", "", NoTask, ch).kind = "reply"
      /\ QueryReply.kind = "reply" /\ QueryClarify.kind = "clarify"
      /\ \A n, ch : MakePlan("clarify", "missing_slots", n, ch).kind = "clarify"
      /\ \A n, ch : MakePlan("task", "", n, ch).task = n
  BY DEF MakePlan, QueryReply, QueryClarify
<1>3. p \notin answers
  <2>1. p # QueryReply
    BY <1>2
  <2>2. p # QueryClarify
    BY <1>2
  <2> QED
    BY <2>1, <2>2
<1>4. /\ "clear_context" \notin names
      /\ p \in UNION {TaskPlans(t, state, cat, w, changed) : t \in chosen}
  <2>1. /\ p # MakePlan("context_clear", "", NoTask, changed)
        /\ p # MakePlan("reply", "", NoTask, changed)
        /\ p # MakePlan("context_update", "", NoTask, changed)
        /\ p # MakePlan("reply", "", NoTask, {})
    BY <1>2
  <2> QED
    BY <2>1, <1>3 DEF BuildPlans, chosen
<1>5. PICK t \in chosen : p \in TaskPlans(t, state, cat, w, changed)
  BY <1>4
<1>6. p = MakePlan("task", "", t, changed)
  <2>1. MakePlan("clarify", "missing_slots", t, changed).kind = "clarify"
    BY <1>2
  <2> QED
    BY <2>1, <1>5 DEF TaskPlans
<1>7. p.task = t
  BY <1>2, <1>6
<1> QED
  BY <1>1, <1>4, <1>7

\* A request that inference raises is about an indicator.
LEMMA RaisedFiled ==
    ASSUME NEW is, \A i \in is : Filed(i), NEW r, FiledRequest(r),
           NEW cat, NEW said, NEW bare, NEW w
    PROVE  FiledRequest(Infer(is, r, cat, said, bare, w).raised)
<1> DEFINE restored  == Restored(is, r, cat, said, bare)
           back      == restored # {}
           rewritten == {Rewritten(i, cat) : i \in is}
                        \cup (IF back THEN {RestoredIntent(r)} ELSE {})
           asking    == {i \in is : HasIndicator(i) /\ i.name \notin Queries}
           targets   == {i.target : i \in asking}
                        \cup (IF back THEN {r.indicator} ELSE {})
           explicit == (IF back THEN restored ELSE MentionedTypes(said, cat, w))
                       \cup {i.target : i \in {j \in is : HasDataType(j)}}
                       \cup UNION {TaskDomains[n] : n \in ActionNames(rewritten) \cap Tasks}
           ofIndicators == UNION {DomainsOf(i, w) : i \in targets \cap cat["indicator_names"]}
           scope     == ResolveScope(explicit, ofIndicators)
           raised    == Infer(is, r, cat, said, bare, w).raised
<1>1. \/ raised = NoRequest
      \/ /\ targets # {} /\ ~back
         /\ raised = [indicator |-> CHOOSE v \in targets : TRUE, candidates |-> scope.types]
  BY DEF Infer
<1>2. \A i \in asking : i.target \notin DataTypes \cup Places
  BY SlotNames DEF HasIndicator, Filed
<1> HIDE DEF raised, scope, back, asking
<1>3. ASSUME targets # {}, ~back
      PROVE  (CHOOSE v \in targets : TRUE) \notin DataTypes \cup Places
  BY <1>2, <1>3
<1> DEFINE chosen == CHOOSE v \in targets : TRUE
<1>4. raised = NoRequest \/ (chosen \notin DataTypes \cup Places /\ raised.indicator = chosen)
  BY <1>1, <1>3
<1> HIDE DEF targets, chosen
<1>5. FiledRequest(raised)
  BY <1>4 DEF FiledRequest
<1> QED
  BY <1>5 DEF raised

LEMMA ProceedServed ==
    ASSUME TypeOK, NEW t \in Turns, NEW step, NEW c, Proceed(t, step, c), ServedAt(c, step)
    PROVE  ServedAt(ctx'[t], pc'[t])
<1>1. ctx'[t] = c /\ pc'[t] = step
  BY DEF TypeOK, Proceed, Goto
<1> QED
  BY <1>1

\* Nothing is said of a turn that has ended or has no catalog yet.
LEMMA LeaveServed ==
    ASSUME TypeOK, NEW t \in Turns, Leave(t)
    PROVE  ServedAt(ctx'[t], pc'[t])
<1>1. ctx'[t] = Blank /\ pc'[t] = "idle"
  BY DEF TypeOK, Leave, Goto
<1> QED
  BY <1>1 DEF ServedAt, Blank, FiledRequest, Cataloged, Inferred

LEMMA OpeningServed ==
    ASSUME NEW c, NEW at, at \in {"load_task", "load_request", "catalog", "save_request"},
           FiledRequest(c.request)
    PROVE  ServedAt(c, at)
BY DEF ServedAt, Cataloged, Inferred

\* Nor of one whose answer is no task.
LEMMA RefusedServed ==
    ASSUME NEW c, FiledRequest(c.request), c.plan.kind # "task"
    PROVE  ServedAt(c, "save_task")
BY DEF ServedAt, Cataloged

\* Every action of a turn keeps it so.
LEMMA MoverServed ==
    ASSUME FilesValues, TaskPerType, TypeOK, ServedInv, NEW t \in Turns, TurnNext(t)
    PROVE  ServedAt(ctx'[t], pc'[t])
<1> USE DEF Running
<1>a. ctx[t] \in Contexts /\ ServedAt(ctx[t], pc[t]) /\ FiledRequest(ctx[t].request)
  BY DEF TypeOK, ServedInv, ServedAt
<1>b. ASSUME NEW c, NEW step, Proceed(t, step, c), ServedAt(c, step)
      PROVE  ServedAt(ctx'[t], pc'[t])
  BY <1>b, ProceedServed
<1>1. ASSUME NEW s \in Sessions, NEW m \in Messages, NEW d \in Workspaces, Arrive(t, s, m, d)
      PROVE  ServedAt(ctx'[t], pc'[t])
  <2> DEFINE c == [ctx[t] EXCEPT !.session = s, !.message = m, !.dataset = d]
  <2>1. FiledRequest(c.request)
    BY <1>a DEF Contexts
  <2>2. Proceed(t, "load_task", c)
    BY <1>1 DEF Arrive
  <2> HIDE DEF c
  <2> QED
    BY <2>1, <2>2, <1>b, OpeningServed
<1>2. CASE LoadTaskContext(t)
  <2> DEFINE c == [ctx[t] EXCEPT !.task = tasks[ctx[t].session]]
  <2>1. FiledRequest(c.request)
    BY <1>a DEF Contexts
  <2>2. Proceed(t, "load_request", c)
    BY <1>2 DEF LoadTaskContext
  <2> HIDE DEF c
  <2> QED
    BY <2>1, <2>2, <1>b, OpeningServed
<1>3. CASE LoadPendingRequest(t)
  <2> DEFINE c == [ctx[t] EXCEPT !.request = requests[ctx[t].session]]
  <2>1. FiledRequest(c.request)
    BY <1>a DEF Contexts, ServedInv
  <2>2. Proceed(t, "catalog", c)
    BY <1>3 DEF LoadPendingRequest
  <2> HIDE DEF c
  <2> QED
    BY <2>1, <2>2, <1>b, OpeningServed
<1>4. CASE LoadCatalog(t)
  <2> DEFINE c == [ctx[t] EXCEPT !.catalog = LoadedCatalog(ctx[t].dataset)]
  <2>1. FiledRequest(c.request) /\ c.catalog = LoadedCatalog(c.dataset)
    BY <1>a DEF Contexts
  <2>2. Proceed(t, "pre_recognize", c)
    BY <1>4 DEF LoadCatalog
  <2> HIDE DEF c
  <2>3. ServedAt(c, "pre_recognize")
    BY <2>1 DEF ServedAt, Inferred
  <2> QED
    BY <2>2, <2>3, <1>b
<1>5. CASE PreRecognize(t)
  <2> DEFINE c == [ctx[t] EXCEPT !.catalog = Narrowed(ctx[t].catalog, Mentions[ctx[t].message],
                                                      ctx[t].dataset)]
  <2>1. /\ FiledRequest(c.request) /\ c.dataset = ctx[t].dataset
        /\ c.catalog = Narrowed(ctx[t].catalog, Mentions[ctx[t].message], ctx[t].dataset)
        /\ ctx[t].catalog \in Catalogs
    BY <1>a DEF Contexts
  <2>2. Proceed(t, "recognize", c) /\ pc[t] = "pre_recognize"
    BY <1>5 DEF PreRecognize
  <2> HIDE DEF c
  <2>3. \A s \in Slots : ctx[t].catalog[s] \subseteq LoadedCatalog(c.dataset)[s]
    BY <1>a, <2>1, <2>2 DEF ServedAt, Cataloged
  <2>4. \A s \in Slots : c.catalog[s] \subseteq ctx[t].catalog[s]
    BY <2>1, NarrowedShrinks
  <2>5. \A s \in Slots : c.catalog[s] \subseteq LoadedCatalog(c.dataset)[s]
    BY <2>3, <2>4
  <2>6. ServedAt(c, "recognize")
    BY <2>1, <2>5 DEF ServedAt, Inferred
  <2> QED
    BY <2>2, <2>6, <1>b
<1>6. CASE CallRecognizer(t)
  <2>1. ctx'[t] = ctx[t] /\ pc[t] = "recognize" /\ pc'[t] = "recognizing"
    BY <1>6 DEF CallRecognizer, Goto, TypeOK
  <2> QED
    BY <2>1, <1>a DEF ServedAt, Cataloged, Inferred
<1>7. ASSUME NEW d \in Readings[ctx[t].message], Recognized(t, d)
      PROVE  ServedAt(ctx'[t], pc'[t])
  <2> DEFINE c == [ctx[t] EXCEPT !.intents = NormalizeQueries(d.intents)]
             p == MakePlan("reply", "", NoTask, {})
             q == MakePlan("clarify", "ambiguous_intent", NoTask, {})
  <2>1. /\ pc[t] = "recognizing"
        /\ \/ Proceed(t, "save_task", [c EXCEPT !.plan = p])
           \/ Proceed(t, "save_task", [c EXCEPT !.plan = q])
           \/ Proceed(t, "infer", c)
    BY <1>7 DEF Recognized, Answer
  <2>2. /\ c \in Contexts /\ c.request = ctx[t].request /\ c.catalog = ctx[t].catalog
        /\ c.dataset = ctx[t].dataset /\ c.message = ctx[t].message
        /\ c.intents = NormalizeQueries(d.intents)
    <3>1. d.intents \in SUBSET Intents
      BY <1>a, <1>7, TurnsAssumption DEF Contexts, Decisions
    <3>2. NormalizeQueries(d.intents) \in SUBSET Intents
      BY <3>1, NormalizeQueriesType
    <3> QED
      BY <3>2, <1>a DEF Contexts
  <2>3. p.kind # "task" /\ q.kind # "task"
    BY DEF MakePlan
  <2> HIDE DEF c, p, q
  <2>4. ASSUME NEW r, r.kind # "task"
        PROVE  ServedAt([c EXCEPT !.plan = r], "save_task")
    <3> DEFINE e == [c EXCEPT !.plan = r]
    <3>1. FiledRequest(e.request) /\ e.plan = r
      BY <1>a, <2>2 DEF Contexts
    <3> HIDE DEF e
    <3>2. ServedAt(e, "save_task")
      BY <3>1, <2>4, RefusedServed
    <3> QED
      BY <3>2 DEF e
  <2>5. ServedAt(c, "infer")
    BY <1>7, <1>a, <2>1, <2>2 DEF ServedAt, Cataloged, Inferred
  <2> QED
    BY <2>1, <2>3, <2>4, <2>5, <1>b
<1>8. CASE InferIndicator(t)
  <2> DEFINE is == ctx[t].intents
             w  == ctx[t].dataset
             o == Infer(is, ctx[t].request, ctx[t].catalog, Mentions[ctx[t].message],
                        ctx[t].message \in Bare, w)
             c == [ctx[t] EXCEPT !.intents = o.intents, !.drop = o.drop, !.plan = o.plan,
                                 !.request = IF o.raised = NoRequest THEN @ ELSE o.raised]
  <2>1. /\ pc[t] = "infer"
        /\ \/ o.plan = NoPlan /\ Proceed(t, "normalize", c)
           \/ o.plan # NoPlan /\ Proceed(t, "save_task", c)
    BY <1>8 DEF InferIndicator, Answer
  <2>2. /\ is \in SUBSET Intents /\ w \in BOOLEAN /\ ctx[t].catalog \in Catalogs
        /\ ctx[t].request \in Requests \cup {NoRequest} /\ ctx[t].message \in Messages
    BY <1>a DEF Contexts
  <2>3. \A s \in Slots : ctx[t].catalog[s] \subseteq LoadedCatalog(w)[s]
    BY <1>a, <2>1 DEF ServedAt, Cataloged
  <2>4. PICK d \in Readings[ctx[t].message] : is = NormalizeQueries(d.intents)
    BY <1>a, <2>1 DEF ServedAt
  <2>5. (\A i \in is : Filed(i)) /\ IsFiniteSet({i.target : i \in is})
    BY <2>2, <2>4, NormalizedFiled
  <2>6. FiledRequest(o.raised)
    BY <1>a, <2>5, RaisedFiled
  <2>7. /\ c.intents = o.intents /\ c.drop = o.drop /\ c.plan = o.plan
        /\ c.request = IF o.raised = NoRequest THEN ctx[t].request ELSE o.raised
        /\ c.catalog = ctx[t].catalog /\ c.dataset = w
    BY <1>a DEF Contexts
  <2>8. o.plan # NoPlan => o.plan.kind = "clarify"
    BY InferAnswers
  <2>9. o.drop => /\ o.plan = NoPlan /\ o.raised = NoRequest
                  /\ \E x \in DataTypes :
                        /\ Restores(o.intents, ctx[t].request, x)
                        /\ RestoringOperations(o.intents, ctx[t].request, ctx[t].catalog, x)
    <3> HIDE DEF is
    <3> QED
      BY <1>a, <2>2, <2>3, <2>5, InferServes
  <2> HIDE DEF c, o, is, w
  <2>10. FiledRequest(c.request)
    BY <1>a, <2>6, <2>7
  <2>11. CASE o.plan # NoPlan /\ Proceed(t, "save_task", c)
    BY <2>7, <2>8, <2>10, <2>11, <1>b, RefusedServed
  <2>12. CASE o.plan = NoPlan /\ Proceed(t, "normalize", c)
    <3>1. c.drop => \E x \in DataTypes : Serving(c, "normalize", x)
      BY <2>7, <2>9 DEF Serving
    <3>2. ServedAt(c, "normalize")
      BY <2>3, <2>7, <2>10, <3>1 DEF ServedAt
    <3> QED
      BY <2>12, <3>2, <1>b
  <2> QED
    BY <2>1, <2>11, <2>12
<1>9. CASE NormalizeResolverQuery(t)
  <2> DEFINE c == [ctx[t] EXCEPT !.intents = InjectQuery(@)]
  <2>1. Proceed(t, "resolve", c) /\ pc[t] = "normalize"
    BY <1>9 DEF NormalizeResolverQuery
  <2>2. /\ c.intents = InjectQuery(ctx[t].intents) /\ c.drop = ctx[t].drop
        /\ c.request = ctx[t].request /\ c.catalog = ctx[t].catalog
        /\ c.dataset = ctx[t].dataset
    BY <1>a DEF Contexts
  <2> HIDE DEF c
  <2>3. ASSUME c.drop PROVE \E x \in DataTypes : Serving(c, "resolve", x)
    <3>1. PICK x \in DataTypes : Serving(ctx[t], "normalize", x)
      BY <1>a, <2>1, <2>2, <2>3 DEF ServedAt, Inferred
    <3>2. ActionNames(ctx[t].intents) # {}
      BY <3>1 DEF Serving, Restores, AutofillTasks
    <3>3. c.intents = ctx[t].intents
      BY <2>2, <3>2 DEF InjectQuery
    <3> QED
      BY <2>2, <3>1, <3>3 DEF Serving, Cleared
  <2>4. ServedAt(c, "resolve")
    BY <1>a, <2>1, <2>2, <2>3 DEF ServedAt, Cataloged
  <2> QED
    BY <2>1, <2>4, <1>b
<1>10. CASE ResolveSlots(t)
  <2> DEFINE c == [ctx[t] EXCEPT !.batch = Resolve(ctx[t].intents, ctx[t].catalog)]
  <2>1. Proceed(t, "validate", c) /\ pc[t] = "resolve"
    BY <1>10 DEF ResolveSlots
  <2>2. /\ c.intents = ctx[t].intents /\ c.drop = ctx[t].drop
        /\ c.request = ctx[t].request /\ c.catalog = ctx[t].catalog
        /\ c.dataset = ctx[t].dataset
        /\ c.batch = Resolve(ctx[t].intents, ctx[t].catalog)
    BY <1>a DEF Contexts
  <2> HIDE DEF c
  <2>3. ASSUME c.drop PROVE \E x \in DataTypes : Serving(c, "validate", x)
    <3>1. PICK x \in DataTypes : Serving(ctx[t], "resolve", x)
      BY <1>a, <2>1, <2>2, <2>3 DEF ServedAt, Inferred
    <3>2. Cleared(c) \/ RestoringBatch(c.batch, c.request, x)
      BY <2>2, <3>1, ResolveServes DEF Serving, Cleared
    <3> QED
      BY <2>2, <3>1, <3>2 DEF Serving, Cleared
  <2>4. ServedAt(c, "validate")
    BY <1>a, <2>1, <2>2, <2>3 DEF ServedAt, Cataloged
  <2> QED
    BY <2>1, <2>4, <1>b
<1>11. CASE ValidateSlots(t)
  <2> DEFINE c == [ctx[t] EXCEPT !.plan = MakePlan("clarify", "invalid_slots", NoTask, {})]
  <2>1. /\ pc[t] = "validate"
        /\ \/ /\ InvalidSlots(ctx[t].batch, ctx[t].catalog) = {}
              /\ Proceed(t, "commit", ctx[t])
           \/ Proceed(t, "save_task", c)
           \/ Leave(t)
    BY <1>11 DEF ValidateSlots, Answer
  <2>2. c.request = ctx[t].request /\ c.plan.kind # "task"
    BY <1>a DEF Contexts, MakePlan
  <2> HIDE DEF c
  <2>3. ServedAt(c, "save_task")
    BY <1>a, <2>2, RefusedServed
  <2>4. ASSUME InvalidSlots(ctx[t].batch, ctx[t].catalog) = {}, ctx[t].drop
        PROVE  \E x \in DataTypes : Serving(ctx[t], "commit", x)
    <3>1. PICK x \in DataTypes : Serving(ctx[t], "validate", x)
      BY <1>a, <2>1, <2>4 DEF ServedAt, Inferred
    <3>2. RestoringBatch(ctx[t].batch, ctx[t].request, x)
             => ctx[t].request.indicator \in ctx[t].catalog["indicator_names"]
      BY <2>4, SlotNames DEF RestoringBatch, InvalidSlots
    <3> QED
      BY <3>1, <3>2 DEF Serving
  <2>5. InvalidSlots(ctx[t].batch, ctx[t].catalog) = {} => ServedAt(ctx[t], "commit")
    BY <1>a, <2>1, <2>4 DEF ServedAt, Cataloged
  <2> QED
    BY <2>1, <2>3, <2>5, <1>b, LeaveServed
<1>12. CASE CommitSlots(t)
  <2> DEFINE now == slots[ctx[t].session]
             new == Commit(now, ctx[t].batch)
             c == [ctx[t] EXCEPT !.before = now, !.state = new]
  <2>1. Proceed(t, "autofill", c) /\ pc[t] = "commit"
    BY <1>12 DEF CommitSlots
  <2>2. /\ c.intents = ctx[t].intents /\ c.drop = ctx[t].drop
        /\ c.request = ctx[t].request /\ c.batch = ctx[t].batch
        /\ c.dataset = ctx[t].dataset /\ c.state = new
        /\ ctx[t].batch \in Batches
    BY <1>a DEF Contexts
  <2> HIDE DEF c
  <2>3. ASSUME c.drop PROVE \E x \in DataTypes : Serving(c, "autofill", x)
    <3>1. PICK x \in DataTypes : Serving(ctx[t], "commit", x)
      BY <1>a, <2>1, <2>2, <2>3 DEF ServedAt, Inferred
    <3>2. CASE Cleared(ctx[t])
      BY <2>2, <3>1, <3>2 DEF Serving, Cleared
    <3>3. CASE ~Cleared(ctx[t])
      <4>1. /\ RestoringBatch(ctx[t].batch, ctx[t].request, x)
            /\ ctx[t].request.indicator \in ctx[t].catalog["indicator_names"]
        BY <3>1, <3>3 DEF Serving
      <4>2. /\ c.state["indicator_names"] = {c.request.indicator}
            /\ "indicator_names" \in Touched(c.batch)
            /\ "data_types" \in Touched(c.batch) => c.state["data_types"] = {x}
        BY <2>2, <4>1, CommitServes
      <4>3. ctx[t].request.indicator \in LoadedCatalog(c.dataset)["indicator_names"]
        BY <1>a, <2>1, <2>2, <4>1, SlotNames DEF ServedAt, Cataloged
      <4>4. RowsFor(c.dataset) # {}
        BY <4>3, SlotNames DEF LoadedCatalog, DomainsOf
      <4> QED
        BY <2>2, <3>1, <4>2, <4>4 DEF Serving
    <3> QED
      BY <3>2, <3>3
  <2>4. ServedAt(c, "autofill")
    BY <1>a, <2>2, <2>3 DEF ServedAt, Cataloged
  <2> QED
    BY <2>1, <2>4, <1>b
<1>13. CASE Autofill(t)
  <2> DEFINE names  == AutofillTasks(ctx[t].intents)
             filled == UNION {Autofilled(ctx[t].state, Touched(ctx[t].batch), n,
                                         RowsFor(ctx[t].dataset)) : n \in names}
  <2>1. PICK st \in IF names = {} THEN {ctx[t].state} ELSE filled :
               Proceed(t, "write", [ctx[t] EXCEPT !.state = st])
    BY <1>13 DEF Autofill
  <2> DEFINE c == [ctx[t] EXCEPT !.state = st]
  <2>2. Proceed(t, "write", c) /\ pc[t] = "autofill"
    BY <1>13, <2>1 DEF Autofill
  <2>3. /\ c.intents = ctx[t].intents /\ c.drop = ctx[t].drop
        /\ c.request = ctx[t].request /\ c.state = st
        /\ ctx[t].state \in SlotStates /\ ctx[t].dataset \in BOOLEAN
    BY <1>a DEF Contexts
  <2> HIDE DEF c
  <2>4. ASSUME c.drop PROVE \E x \in DataTypes : Serving(c, "write", x)
    <3>1. PICK x \in DataTypes : Serving(ctx[t], "autofill", x)
      BY <1>a, <2>2, <2>3, <2>4 DEF ServedAt, Inferred
    <3>2. CASE Cleared(ctx[t])
      BY <2>3, <3>1, <3>2 DEF Serving, Cleared
    <3>3. CASE ~Cleared(ctx[t])
      <4>1. names # {} /\ names \subseteq Tasks /\ \A n \in names : TaskDomains[n] = {x}
        BY <3>1 DEF Serving, Restores, AutofillTasks
      <4>2. st \in filled
        BY <2>1, <4>1
      <4> HIDE DEF names
      <4>3. PICK n \in names : st \in Autofilled(ctx[t].state, Touched(ctx[t].batch), n,
                                                 RowsFor(ctx[t].dataset))
        BY <4>2
      <4>4. RowsFor(ctx[t].dataset) \in SUBSET Rows
        BY DEF RowsFor
      <4>5. /\ ctx[t].state["indicator_names"] = {ctx[t].request.indicator}
            /\ RowsFor(ctx[t].dataset) # {}
            /\ "indicator_names" \in Touched(ctx[t].batch)
            /\ "data_types" \in Touched(ctx[t].batch) => ctx[t].state["data_types"] = {x}
        BY <3>1, <3>3 DEF Serving
      <4>6. /\ st["indicator_names"] = ctx[t].state["indicator_names"]
            /\ st["data_types"] = {x}
        BY <2>3, <4>1, <4>3, <4>4, <4>5, AutofillServes
      <4> QED
        BY <2>3, <3>1, <4>5, <4>6 DEF Serving
    <3> QED
      BY <3>2, <3>3
  <2>5. ServedAt(c, "write")
    BY <1>a, <2>3, <2>4 DEF ServedAt, Cataloged
  <2> QED
    BY <2>2, <2>5, <1>b
<1>14. CASE WriteSlots(t)
  <2>1. Proceed(t, "plan", ctx[t]) /\ pc[t] = "write"
    BY <1>14 DEF WriteSlots
  <2>2. ServedAt(ctx[t], "plan")
    BY <1>a, <2>1 DEF ServedAt, Cataloged, Inferred, Serving
  <2> QED
    BY <2>1, <2>2, <1>b
<1>15. CASE Plan(t)
  <2>1. PICK p \in PlansOf(t) : Proceed(t, "save_task", [ctx[t] EXCEPT !.plan = p])
    BY <1>15 DEF Plan, Answer
  <2> DEFINE c == [ctx[t] EXCEPT !.plan = p]
  <2>2. Proceed(t, "save_task", c) /\ pc[t] = "plan"
    BY <1>15, <2>1 DEF Plan
  <2>3. /\ c.intents = ctx[t].intents /\ c.drop = ctx[t].drop
        /\ c.request = ctx[t].request /\ c.state = ctx[t].state /\ c.plan = p
    BY <1>a DEF Contexts
  <2> HIDE DEF c
  <2>4. ASSUME c.drop, p.kind = "task"
        PROVE  \E x \in DataTypes : Serving(c, "save_task", x)
    <3>1. PICK x \in DataTypes : Serving(ctx[t], "plan", x)
      BY <1>a, <2>2, <2>3, <2>4 DEF ServedAt, Inferred
    <3>2. ActionNames(ctx[t].intents) # {}
      BY <3>1 DEF Serving, Restores, AutofillTasks
    <3>3. QueryPlans(ctx[t], Mentions[ctx[t].message]) \in SUBSET {QueryReply, QueryClarify}
      BY QueryPlansType
    <3>4. p.task \in AutofillTasks(c.intents) /\ ~Cleared(c)
      BY <2>1, <2>3, <2>4, <3>2, <3>3, NamedTask DEF PlansOf, AutofillTasks, Cleared
    <3> QED
      BY <2>3, <3>1, <3>4 DEF Serving, Cleared
  <2>5. ServedAt(c, "save_task")
    BY <1>a, <2>3, <2>4 DEF ServedAt, Cataloged
  <2> QED
    BY <2>2, <2>5, <1>b
<1>16. CASE SaveTaskContext(t)
  BY <1>16, <1>a, <1>b, OpeningServed DEF SaveTaskContext
<1>17. CASE PlanningFails(t) \/ SavePendingRequest(t) \/ GatewayFails(t) \/ RecognizerFails(t)
  BY <1>17, LeaveServed DEF PlanningFails, SavePendingRequest, GatewayFails, RecognizerFails
<1>18. CASE Suspend(t) \/ Resume(t)
  BY <1>18, <1>a DEF Suspend, Resume
<1> QED
  BY <1>1, <1>2, <1>3, <1>4, <1>5, <1>6, <1>7, <1>8, <1>9, <1>10, <1>11, <1>12, <1>13, <1>14,
     <1>15, <1>16, <1>17, <1>18
  DEF TurnNext, Step, RecognizerReturns

\* A step makes a session's request that of a turn, or none.
LEMMA RequestsServed ==
    ASSUME TypeOK, ServedInv, NEW t \in Turns, TurnNext(t), NEW s \in Sessions
    PROVE  FiledRequest(requests'[s])
<1>1. requests'[s] \in {requests[s], ctx[t].request, NoRequest}
  <2>1. CASE SavePendingRequest(t)
    BY <2>1 DEF SavePendingRequest, NextRequest, TypeOK
  <2>2. CASE ~SavePendingRequest(t)
    BY <2>2 DEF TurnNext, Arrive, Step, RecognizerReturns, Suspend, Resume, GatewayFails,
       LoadTaskContext, LoadPendingRequest, LoadCatalog, PreRecognize, CallRecognizer,
       Recognized, RecognizerFails, InferIndicator, NormalizeResolverQuery, ResolveSlots,
       ValidateSlots, CommitSlots, Autofill, WriteSlots, Plan, PlanningFails,
       SaveTaskContext, stores
  <2> QED
    BY <2>1, <2>2
<1> QED
  BY <1>1 DEF ServedInv, ServedAt, FiledRequest

LEMMA ServedInvariant ==
    ASSUME FilesValues, TaskPerType
    PROVE  Spec => []ServedInv
<1>1. Init => ServedInv
  BY DEF Init, ServedInv, ServedAt, Blank, FiledRequest, Cataloged, Inferred
<1>2. TypeOK /\ ServedInv /\ [Next]_vars => ServedInv'
  <2> SUFFICES ASSUME TypeOK, ServedInv, [Next]_vars PROVE ServedInv'
    OBVIOUS
  <2>1. CASE UNCHANGED vars
    BY <2>1 DEF vars, ServedInv
  <2>2. ASSUME NEW t \in Turns, TurnNext(t) PROVE ServedInv'
    <3>1. \A s \in Sessions : FiledRequest(requests'[s])
      BY <2>2, RequestsServed
    <3>2. ServedAt(ctx'[t], pc'[t])
      BY <2>2, MoverServed
    <3>3. \A u \in Turns \ {t} : ServedAt(ctx'[u], pc'[u])
      BY <2>2, OneTurnMoves DEF ServedInv
    <3> QED
      BY <3>1, <3>2, <3>3 DEF ServedInv
  <2> QED
    BY <2>1, <2>2 DEF Next
<1> QED
  BY <1>1, <1>2, TypeCorrect, PTL DEF Spec

\* The answer to a pending request ends in a task for the indicator asked
\* about, with a data type that was offered (ObservationIndicatorInferenceStep
\* and all that follows it): for every recognizer that files values under
\* their kind, where tasks and data types belong together.
THEOREM AnswersAreServed ==
    ASSUME FilesValues, TaskPerType
    PROVE  Spec => []AnswerServesTheRequest
<1>1. TypeOK /\ TurnInv /\ ServedInv => AnswerServesTheRequest
  <2> SUFFICES ASSUME TypeOK, TurnInv, ServedInv, NEW t \in Turns,
                      pc[t] = "save_task", ctx[t].drop, ctx[t].plan.kind = "task"
               PROVE  /\ SlotsOf(t)["indicator_names"] = {ctx[t].request.indicator}
                      /\ SlotsOf(t)["data_types"] \subseteq
                             ctx[t].request.candidates \cap TaskDomains[ctx[t].plan.task]
    BY DEF AnswerServesTheRequest
  <2>1. PICK x \in DataTypes : Serving(ctx[t], "save_task", x)
    BY DEF ServedInv, ServedAt, Inferred
  <2>2. /\ ctx[t].state["indicator_names"] = {ctx[t].request.indicator}
        /\ ctx[t].state["data_types"] = {x}
        /\ x \in ctx[t].request.candidates
        /\ TaskDomains[ctx[t].plan.task] = {x}
    BY <2>1 DEF Serving, Restores
  <2>3. SlotsOf(t) = ctx[t].state
    BY DEF TurnInv, TurnOK, Answers, Built
  <2> QED
    BY <2>2, <2>3
<1> QED
  BY <1>1, TurnInvariant, ServedInvariant, PTL

----------------------------------------------------------------------------
(* Clearing the context.                                                   *)

\* What is so of a turn with context c at step `at' that clears its session.
Clearing(c, at) ==
    /\ at = "infer" /\ Cleared(c) =>
          /\ \A i \in c.intents : ~HasIndicator(i) /\ ~HasDataType(i) /\ i.name \notin Tasks
          /\ c.message \notin Bare
    /\ at \in {"normalize", "resolve", "validate", "commit", "autofill", "write", "plan"}
          /\ Cleared(c) => AutofillTasks(c.intents) = {}
    /\ at \in {"validate", "commit"} /\ Cleared(c) => c.batch.all
    /\ at \in {"autofill", "write", "plan"} /\ Cleared(c) => c.state = NoSlots
    /\ at \in {"save_task", "save_request"} /\ c.plan.kind = "context_clear"
          => c.state = NoSlots

\* Once its task context is stored, it is an empty one.
Forgotten(t) ==
    pc[t] = "save_request" /\ ctx[t].plan.kind = "context_clear"
       => tasks[ctx[t].session] = NoTaskContext

ClearingInv == \A t \in Turns : Clearing(ctx[t], pc[t]) /\ Forgotten(t)

\* Normalising resolver queries leaves a clearing decision alone.
LEMMA NormalizedClear ==
    ASSUME NEW S, NEW T, T = NormalizeQueries(S), "clear_context" \in ActionNames(T),
           \A i \in S : ~HasIndicator(i) /\ ~HasDataType(i) /\ i.name \notin Tasks
    PROVE  \A i \in T : ~HasIndicator(i) /\ ~HasDataType(i) /\ i.name \notin Tasks
<1>1. \A i \in T : i \in S \/ \E n \in Queries : i = ActionIntent(n)
  BY DEF NormalizeQueries
<1>2. \A n \in Queries : /\ ActionIntent(n).slot = "none" /\ ActionIntent(n).name = n
                         /\ n \notin Tasks
  BY IntentsAssumption DEF ActionIntent, OtherIntents
<1> QED
  BY <1>1, <1>2, SlotNames DEF HasIndicator, HasDataType

LEMMA NormalizedClears ==
    ASSUME NEW S
    PROVE  "clear_context" \in ActionNames(NormalizeQueries(S))
              => "clear_context" \in ActionNames(S)
<1> SUFFICES ASSUME "clear_context" \in ActionNames(NormalizeQueries(S))
             PROVE  "clear_context" \in ActionNames(S)
  OBVIOUS
<1>1. PICK i \in NormalizeQueries(S) : IsAction(i) /\ i.name = "clear_context"
  BY DEF ActionNames
<1>2. i \in S \/ \E n \in Queries : i = ActionIntent(n)
  BY DEF NormalizeQueries
<1>3. "clear_context" \notin Queries
  BY DEF Queries, KnownQueries, QueriedSlot
<1>4. \A n : ActionIntent(n).name = n
  BY DEF ActionIntent
<1>5. i \in S
  BY <1>1, <1>2, <1>3, <1>4
<1> QED
  BY <1>1, <1>5 DEF ActionNames

\* So does the inference step, if the message is not a bare value.
LEMMA InferClears ==
    ASSUME NEW is, \A i \in is : ~HasIndicator(i) /\ ~HasDataType(i) /\ i.name \notin Tasks,
           NEW r, NEW cat, NEW said, NEW bare, ~bare, NEW w
    PROVE  Infer(is, r, cat, said, bare, w).intents = is
<1> DEFINE restored  == Restored(is, r, cat, said, bare)
           back      == restored # {}
           rewritten == {Rewritten(i, cat) : i \in is}
                        \cup (IF back THEN {RestoredIntent(r)} ELSE {})
           asking    == {i \in is : HasIndicator(i) /\ i.name \notin Queries}
           targets   == {i.target : i \in asking}
                        \cup (IF back THEN {r.indicator} ELSE {})
<1>1. restored = {}
  <2>1. {i.target : i \in {j \in is : HasDataType(j)}} \cap cat["data_types"] = {}
    OBVIOUS
  <2>2. Cardinality({}) # 1
    BY FS_EmptySet
  <2> QED
    BY <2>1, <2>2 DEF Restored
<1>2. asking = {}
  OBVIOUS
<1>3. \A i \in is : Rewritten(i, cat) = i
  BY DEF Rewritten, IsDataTypeScope
<1> HIDE DEF restored, asking
<1>4. targets = {}
  BY <1>1, <1>2
<1>5. rewritten = is
  BY <1>1, <1>3
<1> HIDE DEF targets, rewritten
<1>6. Infer(is, r, cat, said, bare, w).intents = rewritten
  BY <1>4 DEF Infer, targets, rewritten, asking, back, restored
<1> QED
  BY <1>5, <1>6

\* Neither the inference step nor the query injection makes a turn a clearing
\* one.
LEMMA InferNamesNoClear ==
    ASSUME NEW is \in SUBSET Intents, NEW r, NEW cat, NEW said, NEW bare, NEW w,
           "clear_context" \in ActionNames(Infer(is, r, cat, said, bare, w).intents)
    PROVE  "clear_context" \in ActionNames(is)
<1> DEFINE o == Infer(is, r, cat, said, bare, w).intents
<1>1. PICK i \in o : IsAction(i) /\ i.name = "clear_context"
  BY DEF ActionNames
<1>2. \/ \E j \in is : i = Rewritten(j, cat)
      \/ i = RestoredIntent(r)
      \/ \E n \in Tasks : i = ActionIntent(n)
  <2> DEFINE restored  == Restored(is, r, cat, said, bare)
             rewritten == {Rewritten(j, cat) : j \in is}
                          \cup (IF restored # {} THEN {RestoredIntent(r)} ELSE {})
  <2>1. \E N : N \subseteq Tasks /\ o \subseteq rewritten \cup {ActionIntent(n) : n \in N}
    <3> DEFINE asking   == {j \in is : HasIndicator(j) /\ j.name \notin Queries}
               targets  == {j.target : j \in asking}
                           \cup (IF restored # {} THEN {r.indicator} ELSE {})
               explicit == (IF restored # {} THEN restored ELSE MentionedTypes(said, cat, w))
                           \cup {j.target : j \in {k \in is : HasDataType(k)}}
                           \cup UNION {TaskDomains[n] : n \in ActionNames(rewritten) \cap Tasks}
               ofIndicators == UNION {DomainsOf(j, w) : j \in targets \cap cat["indicator_names"]}
               scope == ResolveScope(explicit, ofIndicators)
               inferred == IF scope.status = "resolved"
                           THEN UNION {TasksFor(d) : d \in scope.types} ELSE {}
    <3>1. o = rewritten \/ o = rewritten \cup {ActionIntent(n) : n \in inferred}
      BY DEF Infer
    <3>2. inferred \subseteq Tasks
      <4> HIDE DEF scope
      <4> QED
        BY DEF TasksFor
    <3> HIDE DEF o, rewritten, inferred
    <3> QED
      BY <3>1, <3>2
  <2>2. PICK N : N \subseteq Tasks /\ o \subseteq rewritten \cup {ActionIntent(n) : n \in N}
    BY <2>1
  <2> HIDE DEF o
  <2> QED
    BY <1>1, <2>2
<1>3. i # RestoredIntent(r)
  BY <1>1 DEF RestoredIntent, IsAction
<1>4. \A n : ActionIntent(n).name = n
  BY DEF ActionIntent
<1>5. "clear_context" \notin Tasks
  BY IntentsAssumption DEF OtherIntents
<1>6. PICK j \in is : i = Rewritten(j, cat)
  BY <1>1, <1>2, <1>3, <1>4, <1>5
<1>7. i = j
  <2>1. ~IsDataTypeScope(j)
    BY <1>1, <1>4, <1>5, <1>6 DEF Rewritten, IsDataTypeScope
  <2>2. ASSUME HasIndicator(j), i # j PROVE FALSE
    <3>1. i = [j EXCEPT !.act = IF j.act = "none" THEN "replace" ELSE j.act, !.valid = TRUE]
      BY <1>6, <2>1, <2>2 DEF Rewritten
    <3>2. i.slot = j.slot
      BY <3>1 DEF Intents
    <3> QED
      BY <1>1, <2>2, <3>2 DEF HasIndicator, IsAction
  <2> QED
    BY <1>6, <2>1, <2>2 DEF Rewritten
<1> QED
  BY <1>1, <1>7 DEF ActionNames

LEMMA InjectClears ==
    ASSUME NEW is, "clear_context" \in ActionNames(InjectQuery(is))
    PROVE  InjectQuery(is) = is
<1>1. ActionNames(is \cup {ActionIntent("query_indicators")})
         = ActionNames(is) \cup {"query_indicators"}
  <2> DEFINE N == {"query_indicators"}
             S == {ActionIntent(n) : n \in N}
  <2>1. S = {ActionIntent("query_indicators")}
    OBVIOUS
  <2>2. ActionNames(S) = N
    BY ActionNamesOf
  <2> HIDE DEF S
  <2>3. ActionNames(is \cup S) = ActionNames(is) \cup N
    BY <2>2, ActionNamesOf
  <2> QED
    BY <2>1, <2>3
<1> QED
  BY <1>1 DEF InjectQuery

\* Only a clearing turn is answered with a clearing plan.
LEMMA ClearPlan ==
    ASSUME NEW names, NEW state, NEW changed, NEW active, NEW cat, NEW w,
           NEW answers \in SUBSET {QueryReply, QueryClarify},
           NEW p \in BuildPlans(names, state, changed, active, cat, w, answers),
           p.kind = "context_clear"
    PROVE  "clear_context" \in names
<1> SUFFICES ASSUME "clear_context" \notin names PROVE FALSE
  OBVIOUS
<1> DEFINE chosen == IF Matched(names) # {} THEN Matched(names)
                     ELSE Continued(names, changed, active)
<1>1. /\ \A ch : MakePlan("context_update", "", NoTask, ch).kind = "context_update"
      /\ \A ch : MakePlan("reply", "", NoTask, ch).kind = "reply"
      /\ QueryReply.kind = "reply" /\ QueryClarify.kind = "clarify"
      /\ \A n, ch : MakePlan("clarify", "missing_slots", n, ch).kind = "clarify"
      /\ \A n, ch : MakePlan("task", "", n, ch).kind = "task"
  BY DEF MakePlan, QueryReply, QueryClarify
<1>2. p \notin answers
  <2>1. p # QueryReply
    BY <1>1
  <2>2. p # QueryClarify
    BY <1>1
  <2> QED
    BY <2>1, <2>2
<1>3. p \in UNION {TaskPlans(t, state, cat, w, changed) : t \in chosen}
  <2>1. /\ p # MakePlan("reply", "", NoTask, changed)
        /\ p # MakePlan("context_update", "", NoTask, changed)
        /\ p # MakePlan("reply", "", NoTask, {})
    BY <1>1
  <2> QED
    BY <2>1, <1>2 DEF BuildPlans
<1> HIDE DEF chosen
<1>4. PICK t \in chosen : p \in TaskPlans(t, state, cat, w, changed)
  BY <1>3
<1>5. /\ MakePlan("clarify", "missing_slots", t, changed).kind = "clarify"
      /\ MakePlan("task", "", t, changed).kind = "task"
  BY <1>1
<1> QED
  BY <1>4, <1>5 DEF TaskPlans

LEMMA ProceedClearing ==
    ASSUME TypeOK, NEW t \in Turns, NEW step, NEW c, Proceed(t, step, c), Clearing(c, step)
    PROVE  Clearing(ctx'[t], pc'[t])
<1>1. ctx'[t] = c /\ pc'[t] = step
  BY DEF TypeOK, Proceed, Goto
<1> QED
  BY <1>1

LEMMA LeaveClearing ==
    ASSUME TypeOK, NEW t \in Turns, Leave(t)
    PROVE  Clearing(ctx'[t], pc'[t])
<1>1. pc'[t] = "idle"
  BY DEF TypeOK, Leave, Goto
<1> QED
  BY <1>1 DEF Clearing

\* Every action of a turn keeps it so.
LEMMA MoverClearing ==
    ASSUME ClearsAlone, TypeOK, TurnInv, ClearingInv, NEW t \in Turns, TurnNext(t)
    PROVE  Clearing(ctx'[t], pc'[t]) /\ Forgotten(t)'
<1> USE DEF Running
<1>a. ctx[t] \in Contexts /\ Clearing(ctx[t], pc[t])
  BY DEF TypeOK, ClearingInv
<1>b. ASSUME NEW c, NEW step, Proceed(t, step, c), Clearing(c, step), step # "save_request"
      PROVE  Clearing(ctx'[t], pc'[t]) /\ Forgotten(t)'
  <2>1. pc'[t] # "save_request"
    BY <1>b DEF TypeOK, Proceed, Goto
  <2> QED
    BY <1>b, <2>1, ProceedClearing DEF Forgotten
<1>c. ASSUME NEW c, NEW step, Proceed(t, step, c),
             step \in {"load_task", "load_request", "catalog", "pre_recognize", "recognize"}
      PROVE  Clearing(ctx'[t], pc'[t]) /\ Forgotten(t)'
  <2>1. Clearing(c, step) /\ step # "save_request"
    BY <1>c DEF Clearing
  <2> QED
    BY <1>b, <1>c, <2>1
<1>d. ASSUME Leave(t) PROVE Clearing(ctx'[t], pc'[t]) /\ Forgotten(t)'
  BY <1>d, LeaveClearing DEF Forgotten, TypeOK, Leave, Goto
<1>1. ASSUME NEW s \in Sessions, NEW m \in Messages, NEW d \in Workspaces, Arrive(t, s, m, d)
      PROVE  Clearing(ctx'[t], pc'[t]) /\ Forgotten(t)'
  BY <1>1, <1>c DEF Arrive
<1>2. CASE LoadTaskContext(t) \/ LoadPendingRequest(t) \/ LoadCatalog(t) \/ PreRecognize(t)
  BY <1>2, <1>c DEF LoadTaskContext, LoadPendingRequest, LoadCatalog, PreRecognize
<1>3. CASE CallRecognizer(t)
  BY <1>3 DEF CallRecognizer, Goto, TypeOK, Clearing, Forgotten
<1>4. ASSUME NEW d \in Readings[ctx[t].message], Recognized(t, d)
      PROVE  Clearing(ctx'[t], pc'[t]) /\ Forgotten(t)'
  <2> DEFINE c == [ctx[t] EXCEPT !.intents = NormalizeQueries(d.intents)]
             p == MakePlan("reply", "", NoTask, {})
             q == MakePlan("clarify", "ambiguous_intent", NoTask, {})
  <2>1. \/ Proceed(t, "save_task", [c EXCEPT !.plan = p])
        \/ Proceed(t, "save_task", [c EXCEPT !.plan = q])
        \/ Proceed(t, "infer", c)
    BY <1>4 DEF Recognized, Answer
  <2>2. /\ c.intents = NormalizeQueries(d.intents) /\ c.message = ctx[t].message
        /\ ctx[t].message \in Messages
        /\ [c EXCEPT !.plan = p].plan = p /\ [c EXCEPT !.plan = q].plan = q
    BY <1>a DEF Contexts
  <2>3. p.kind = "reply" /\ q.kind = "clarify"
    BY DEF MakePlan
  <2> HIDE DEF c, p, q
  <2>4. Cleared(c) => /\ \A i \in c.intents : ~HasIndicator(i) /\ ~HasDataType(i)
                                              /\ i.name \notin Tasks
                      /\ c.message \notin Bare
    BY <1>4, <2>2, NormalizedClear, NormalizedClears DEF Cleared, ClearsAlone
  <2>5. Clearing(c, "infer")
    BY <2>4 DEF Clearing
  <2>6. ASSUME NEW e, e.plan \in {p, q}, Proceed(t, "save_task", e)
        PROVE  Clearing(ctx'[t], pc'[t]) /\ Forgotten(t)'
    <3>1. Clearing(e, "save_task")
      BY <2>3, <2>6 DEF Clearing
    <3> QED
      BY <2>6, <3>1, <1>b
  <2>7. CASE Proceed(t, "infer", c)
    BY <2>5, <2>7, <1>b
  <2>8. CASE Proceed(t, "save_task", [c EXCEPT !.plan = p])
    <3> DEFINE e == [c EXCEPT !.plan = p]
    <3>1. e.plan = p /\ Proceed(t, "save_task", e)
      BY <2>2, <2>8
    <3> HIDE DEF e
    <3> QED
      BY <2>6, <3>1
  <2>9. CASE Proceed(t, "save_task", [c EXCEPT !.plan = q])
    <3> DEFINE e == [c EXCEPT !.plan = q]
    <3>1. e.plan = q /\ Proceed(t, "save_task", e)
      BY <2>2, <2>9
    <3> HIDE DEF e
    <3> QED
      BY <2>6, <3>1
  <2> QED
    BY <2>1, <2>7, <2>8, <2>9
<1>5. CASE InferIndicator(t)
  <2> DEFINE is == ctx[t].intents
             bare == ctx[t].message \in Bare
             o == Infer(is, ctx[t].request, ctx[t].catalog, Mentions[ctx[t].message],
                        bare, ctx[t].dataset)
             c == [ctx[t] EXCEPT !.intents = o.intents, !.drop = o.drop, !.plan = o.plan,
                                 !.request = IF o.raised = NoRequest THEN @ ELSE o.raised]
  <2>1. /\ pc[t] = "infer"
        /\ \/ o.plan = NoPlan /\ Proceed(t, "normalize", c)
           \/ o.plan # NoPlan /\ Proceed(t, "save_task", c)
    BY <1>5 DEF InferIndicator, Answer
  <2>2. c.intents = o.intents /\ c.plan = o.plan
    BY <1>a DEF Contexts
  <2>3. o.plan # NoPlan => o.plan.kind = "clarify"
    BY InferAnswers
  <2>4. Cleared(ctx[t]) => o.intents = is /\ AutofillTasks(is) = {}
    <3>1. Cleared(ctx[t]) => /\ \A i \in is : ~HasIndicator(i) /\ ~HasDataType(i)
                                              /\ i.name \notin Tasks
                             /\ ~bare
      BY <1>a, <2>1 DEF Clearing
    <3>2. (\A i \in is : i.name \notin Tasks) => AutofillTasks(is) = {}
      BY DEF AutofillTasks, ActionNames
    <3> HIDE DEF bare, is
    <3> QED
      BY <3>1, <3>2, InferClears
  <2>5. "clear_context" \in ActionNames(o.intents) => Cleared(ctx[t])
    <3>1. is \in SUBSET Intents
      BY <1>a DEF Contexts
    <3> QED
      BY <3>1, InferNamesNoClear DEF Cleared
  <2> HIDE DEF c, o, is
  <2>6. Clearing(c, "normalize")
    BY <2>2, <2>4, <2>5 DEF Clearing, Cleared, is
  <2>7. o.plan # NoPlan => Clearing(c, "save_task")
    BY <2>2, <2>3 DEF Clearing
  <2> QED
    BY <2>1, <2>6, <2>7, <1>b
<1>6. CASE NormalizeResolverQuery(t)
  <2> DEFINE c == [ctx[t] EXCEPT !.intents = InjectQuery(@)]
  <2>1. Proceed(t, "resolve", c) /\ pc[t] = "normalize"
    BY <1>6 DEF NormalizeResolverQuery
  <2>2. c.intents = InjectQuery(ctx[t].intents)
    BY <1>a DEF Contexts
  <2> HIDE DEF c
  <2>3. Cleared(c) => c.intents = ctx[t].intents
    BY <2>2, InjectClears DEF Cleared
  <2>4. Clearing(c, "resolve")
    BY <1>a, <2>1, <2>3 DEF Clearing, Cleared
  <2> QED
    BY <2>1, <2>4, <1>b
<1>7. CASE ResolveSlots(t)
  <2> DEFINE c == [ctx[t] EXCEPT !.batch = Resolve(ctx[t].intents, ctx[t].catalog)]
  <2>1. Proceed(t, "validate", c) /\ pc[t] = "resolve"
    BY <1>7 DEF ResolveSlots
  <2>2. c.intents = ctx[t].intents /\ c.batch = Resolve(ctx[t].intents, ctx[t].catalog)
    BY <1>a DEF Contexts
  <2> HIDE DEF c
  <2>3. Cleared(c) => c.batch.all
    BY <2>2 DEF Cleared, Resolve, NoBatch
  <2>4. Clearing(c, "validate")
    BY <1>a, <2>1, <2>2, <2>3 DEF Clearing, Cleared
  <2> QED
    BY <2>1, <2>4, <1>b
<1>8. CASE ValidateSlots(t)
  <2> DEFINE c == [ctx[t] EXCEPT !.plan = MakePlan("clarify", "invalid_slots", NoTask, {})]
  <2>1. /\ pc[t] = "validate"
        /\ Proceed(t, "commit", ctx[t]) \/ Proceed(t, "save_task", c) \/ Leave(t)
    BY <1>8 DEF ValidateSlots, Answer
  <2>2. c.plan.kind = "clarify"
    BY <1>a DEF Contexts, MakePlan
  <2> HIDE DEF c
  <2>3. Clearing(c, "save_task")
    BY <2>2 DEF Clearing
  <2>4. Clearing(ctx[t], "commit")
    BY <1>a, <2>1 DEF Clearing
  <2> QED
    BY <2>1, <2>3, <2>4, <1>b, <1>d
<1>9. CASE CommitSlots(t)
  <2> DEFINE now == slots[ctx[t].session]
             c == [ctx[t] EXCEPT !.before = now, !.state = Commit(now, ctx[t].batch)]
  <2>1. Proceed(t, "autofill", c) /\ pc[t] = "commit"
    BY <1>9 DEF CommitSlots
  <2>2. c.intents = ctx[t].intents /\ c.state = Commit(now, ctx[t].batch)
    BY <1>a DEF Contexts
  <2> HIDE DEF c
  <2>3. Clearing(c, "autofill")
    BY <1>a, <2>1, <2>2 DEF Clearing, Cleared, Commit
  <2> QED
    BY <2>1, <2>3, <1>b
<1>10. CASE Autofill(t)
  <2> DEFINE names  == AutofillTasks(ctx[t].intents)
             filled == UNION {Autofilled(ctx[t].state, Touched(ctx[t].batch), n,
                                         RowsFor(ctx[t].dataset)) : n \in names}
  <2>1. PICK st \in IF names = {} THEN {ctx[t].state} ELSE filled :
               Proceed(t, "write", [ctx[t] EXCEPT !.state = st])
    BY <1>10 DEF Autofill
  <2> DEFINE c == [ctx[t] EXCEPT !.state = st]
  <2>2. Proceed(t, "write", c) /\ pc[t] = "autofill"
    BY <1>10, <2>1 DEF Autofill
  <2>3. c.intents = ctx[t].intents /\ c.state = st
    BY <1>a DEF Contexts
  <2> HIDE DEF c, filled
  <2>4. Cleared(c) => c.state = NoSlots
    BY <1>a, <2>1, <2>2, <2>3 DEF Clearing, Cleared
  <2>5. Clearing(c, "write")
    BY <1>a, <2>2, <2>3, <2>4 DEF Clearing, Cleared
  <2> QED
    BY <2>2, <2>5, <1>b
<1>11. CASE WriteSlots(t)
  <2>1. Proceed(t, "plan", ctx[t]) /\ pc[t] = "write"
    BY <1>11 DEF WriteSlots
  <2>2. Clearing(ctx[t], "plan")
    BY <1>a, <2>1 DEF Clearing
  <2> QED
    BY <2>1, <2>2, <1>b
<1>12. CASE Plan(t)
  <2>1. PICK p \in PlansOf(t) : Proceed(t, "save_task", [ctx[t] EXCEPT !.plan = p])
    BY <1>12 DEF Plan, Answer
  <2> DEFINE c == [ctx[t] EXCEPT !.plan = p]
  <2>2. Proceed(t, "save_task", c) /\ pc[t] = "plan"
    BY <1>12, <2>1 DEF Plan
  <2>3. c.state = ctx[t].state /\ c.plan = p
    BY <1>a DEF Contexts
  <2> HIDE DEF c
  <2>4. p.kind = "context_clear" => Cleared(ctx[t])
    BY <2>1, QueryPlansType, ClearPlan DEF PlansOf, Cleared
  <2>5. Clearing(c, "save_task")
    BY <1>a, <2>2, <2>3, <2>4 DEF Clearing
  <2> QED
    BY <2>2, <2>5, <1>b
<1>13. CASE SaveTaskContext(t)
  <2>1. /\ pc[t] = "save_task" /\ Proceed(t, "save_request", ctx[t])
        /\ tasks' = [tasks EXCEPT ![ctx[t].session] = NextTaskContext(@, ctx[t].plan)]
    BY <1>13 DEF SaveTaskContext
  <2>2. Clearing(ctx[t], "save_request")
    BY <1>a, <2>1 DEF Clearing
  <2>3. ctx'[t] = ctx[t]
    BY <2>1 DEF TypeOK, Proceed
  <2>4. ctx[t].plan.kind = "context_clear" => tasks'[ctx[t].session] = NoTaskContext
    BY <1>a, <2>1 DEF TypeOK, Contexts, NextTaskContext
  <2> QED
    BY <2>1, <2>2, <2>3, <2>4, ProceedClearing DEF Forgotten
<1>14. CASE PlanningFails(t) \/ SavePendingRequest(t) \/ GatewayFails(t) \/ RecognizerFails(t)
  BY <1>14, <1>d DEF PlanningFails, SavePendingRequest, GatewayFails, RecognizerFails
<1>15. CASE Suspend(t) \/ Resume(t)
  <2>1. ctx' = ctx /\ pc' = pc /\ pc[t] # "save_request"
    BY <1>15, TurnsAssumption DEF Suspend, Resume, CallsGateway
  <2> QED
    BY <1>a, <2>1 DEF Forgotten
<1> QED
  BY <1>1, <1>2, <1>3, <1>4, <1>5, <1>6, <1>7, <1>8, <1>9, <1>10, <1>11, <1>12, <1>13, <1>14,
     <1>15
  DEF TurnNext, Step, RecognizerReturns

\* The other turns do not interfere: one that stores its task context or its
\* request holds the loop.
LEMMA OthersClearing ==
    ASSUME TypeOK, TurnInv, ClearingInv, NEW t \in Turns, NEW u \in Turns \ {t}, TurnNext(t)
    PROVE  Clearing(ctx'[u], pc'[u]) /\ Forgotten(u)'
<1>1. pc'[u] = pc[u] /\ ctx'[u] = ctx[u]
  BY OneTurnMoves
<1>2. Clearing(ctx[u], pc[u])
  BY DEF ClearingInv
<1>3. loop # u
  BY MoverHasLoop, TurnsAssumption
<1>4. pc[u] # "save_request"
  BY <1>3 DEF TurnInv, TurnOK, OnLoop, CallsGateway
<1> QED
  BY <1>1, <1>2, <1>4 DEF Forgotten

LEMMA ClearingInvariant ==
    ASSUME ClearsAlone
    PROVE  Spec => []ClearingInv
<1>1. Init => ClearingInv
  BY DEF Init, ClearingInv, Clearing, Forgotten
<1>2. TypeOK /\ TurnInv /\ ClearingInv /\ [Next]_vars => ClearingInv'
  <2> SUFFICES ASSUME TypeOK, TurnInv, ClearingInv, [Next]_vars PROVE ClearingInv'
    OBVIOUS
  <2>1. CASE UNCHANGED vars
    BY <2>1 DEF vars, ClearingInv, Forgotten
  <2>2. ASSUME NEW t \in Turns, TurnNext(t) PROVE ClearingInv'
    BY <2>2, MoverClearing, OthersClearing DEF ClearingInv
  <2> QED
    BY <2>1, <2>2 DEF Next
<1> QED
  BY <1>1, <1>2, TurnInvariant, PTL DEF Spec

\* Who takes the step that ends its turn is answered from it.
LEMMA EndingStep ==
    ASSUME TypeOK, [Next]_vars, NEW t \in Turns, Moves(t, "save_request", "idle")
    PROVE  SavePendingRequest(t)
<1>1. pc'[t] # pc[t]
  BY DEF Moves
<1>2. PICK u \in Turns : TurnNext(u)
  BY <1>1 DEF vars, Next
<1>3. TurnNext(t)
  BY <1>1, <1>2, OneTurnMoves
<1> QED
  BY <1>3 DEF Moves, TurnNext, Arrive, Step, RecognizerReturns, Suspend, Resume,
     GatewayFails, CallsGateway, LoadTaskContext, LoadPendingRequest, LoadCatalog,
     PreRecognize, CallRecognizer, Recognized, RecognizerFails, InferIndicator,
     NormalizeResolverQuery, ResolveSlots, ValidateSlots, CommitSlots, Autofill,
     WriteSlots, Plan, PlanningFails, SaveTaskContext, Running

\* A turn answered with context_clear leaves its session as good as new,
\* whatever other turns are in flight (SlotCommitter and the two
\* run_after_plan committers): for every recognizer that reads a message as
\* clearing the context only if it asks for nothing else.
THEOREM ClearIsComplete ==
    ASSUME ClearsAlone
    PROVE  Spec => ClearForgetsTheSession
<1>1. ASSUME TypeOK, TurnInv, ClearingInv, [Next]_vars, NEW t \in Turns,
             Moves(t, "save_request", "idle"), ctx[t].plan.kind = "context_clear"
      PROVE  LET s == ctx[t].session
             IN  /\ slots[s] = NoSlots
                 /\ tasks[s] = NoTaskContext
                 /\ requests'[s] = NoRequest
  <2>1. pc[t] = "save_request"
    BY <1>1 DEF Moves
  <2>2. slots[ctx[t].session] = NoSlots
    BY <1>1, <2>1 DEF TurnInv, TurnOK, Answers, Built, ClearingInv, Clearing, SlotsOf
  <2>3. tasks[ctx[t].session] = NoTaskContext
    BY <1>1, <2>1 DEF ClearingInv, Forgotten
  <2>4. SavePendingRequest(t)
    BY <1>1, EndingStep
  <2>5. requests'[ctx[t].session] = NoRequest
    BY <1>1, <2>4 DEF SavePendingRequest, NextRequest, FinishesRequest, TypeOK, Contexts
  <2> QED
    BY <2>2, <2>3, <2>5
<1>2. TypeOK /\ TurnInv /\ ClearingInv /\ [Next]_vars =>
         [\A t \in Turns :
            Moves(t, "save_request", "idle") /\ ctx[t].plan.kind = "context_clear" =>
               LET s == ctx[t].session
               IN  /\ slots[s] = NoSlots
                   /\ tasks[s] = NoTaskContext
                   /\ requests'[s] = NoRequest]_vars
  BY <1>1
<1> QED
  BY <1>2, TurnInvariant, ClearingInvariant, PTL DEF Spec, ClearForgetsTheSession

----------------------------------------------------------------------------
(* Going on with a task.                                                   *)

\* The steps of a turn that has loaded its session's task context.
Loaded == {"load_request", "catalog", "pre_recognize", "recognize", "recognizing", "infer",
           "normalize", "resolve", "validate", "commit", "autofill", "write", "plan",
           "save_task"}

\* A turn with the session for itself has its task context as it is, and a
\* plan is for a task the turn names or for the active one.
Continues(t) ==
    /\ pc[t] \in Loaded => ctx[t].task = tasks[ctx[t].session]
    /\ pc[t] = "save_task" /\ ctx[t].plan.task # NoTask
          => AutofillTasks(ctx[t].intents) # {} \/ ctx[t].task.active # NoTask

ContinuesInv == \A t \in Turns : Continues(t)

\* The task of a plan is one of the turn's, or the active one.
LEMMA PlannedTask ==
    ASSUME NEW names, NEW state, NEW changed, NEW active, NEW cat, NEW w,
           NEW answers \in SUBSET {QueryReply, QueryClarify},
           NEW p \in BuildPlans(names, state, changed, active, cat, w, answers),
           p.task # NoTask
    PROVE  names \cap Tasks # {} \/ active # NoTask
<1> DEFINE chosen == IF Matched(names) # {} THEN Matched(names)
                     ELSE Continued(names, changed, active)
<1>1. /\ \A ch : MakePlan("context_clear", "", NoTask, ch).task = NoTask
      /\ \A ch : MakePlan("context_update", "", NoTask, ch).task = NoTask
      /\ \A ch : MakePlan("reply", "", NoTask, ch).task = NoTask
      /\ QueryReply.task = NoTask /\ QueryClarify.task = NoTask
  BY DEF MakePlan, QueryReply, QueryClarify
<1>2. p \notin answers
  <2>1. p # QueryReply
    BY <1>1
  <2>2. p # QueryClarify
    BY <1>1
  <2> QED
    BY <2>1, <2>2
<1>3. chosen # {}
  <2>1. /\ p # MakePlan("context_clear", "", NoTask, changed)
        /\ p # MakePlan("reply", "", NoTask, changed)
        /\ p # MakePlan("context_update", "", NoTask, changed)
        /\ p # MakePlan("reply", "", NoTask, {})
    BY <1>1
  <2> QED
    BY <2>1, <1>2 DEF BuildPlans
<1> QED
  BY <1>3, ObservationAssumption DEF Matched, Continued

\* A turn that goes on with the same session and task context.
LEMMA ProceedContinues ==
    ASSUME TypeOK, ContinuesInv, NEW t \in Turns, NEW step, NEW c, Proceed(t, step, c),
           tasks' = tasks, step # "save_task" \/ c.plan.task = NoTask,
           c.task = ctx[t].task, c.session = ctx[t].session,
           pc[t] \in Loaded \/ step \notin Loaded
    PROVE  Continues(t)'
<1>1. ctx'[t] = c /\ pc'[t] = step
  BY DEF TypeOK, Proceed, Goto
<1> QED
  BY <1>1 DEF ContinuesInv, Continues

LEMMA LeaveContinues ==
    ASSUME TypeOK, NEW t \in Turns, Leave(t)
    PROVE  Continues(t)'
BY DEF TypeOK, Leave, Goto, Continues, Loaded

\* Every action of a turn keeps it so.
LEMMA MoverContinues ==
    ASSUME TypeOK, ContinuesInv, NEW t \in Turns, TurnNext(t)
    PROVE  Continues(t)'
<1> USE DEF Running
<1>a. ctx[t] \in Contexts
  BY DEF TypeOK
<1>b. ASSUME NEW c, NEW step, Proceed(t, step, c), UNCHANGED stores, step # "save_task",
             c.task = ctx[t].task, c.session = ctx[t].session,
             pc[t] \in Loaded \/ step \notin Loaded
      PROVE  Continues(t)'
  BY <1>b, ProceedContinues DEF stores
<1>c. ASSUME NEW c, Proceed(t, "save_task", c), UNCHANGED stores, c.plan.task = NoTask,
             c.task = ctx[t].task, c.session = ctx[t].session, pc[t] \in Loaded
      PROVE  Continues(t)'
  BY <1>c, ProceedContinues DEF stores
<1>1. ASSUME NEW s \in Sessions, NEW m \in Messages, NEW d \in Workspaces, Arrive(t, s, m, d)
      PROVE  Continues(t)'
  <2>1. pc'[t] = "load_task"
    BY <1>1 DEF Arrive, Proceed, Goto, TypeOK
  <2> QED
    BY <2>1 DEF Continues, Loaded
<1>2. CASE LoadTaskContext(t)
  <2> DEFINE c == [ctx[t] EXCEPT !.task = tasks[ctx[t].session]]
  <2>1. c.task = tasks[c.session]
    BY <1>a DEF Contexts
  <2>2. Proceed(t, "load_request", c) /\ UNCHANGED stores
    BY <1>2 DEF LoadTaskContext
  <2> HIDE DEF c
  <2>3. ctx'[t] = c /\ pc'[t] = "load_request" /\ tasks' = tasks
    BY <2>2 DEF TypeOK, Proceed, Goto, stores
  <2> QED
    BY <2>1, <2>3 DEF Continues
<1>3. CASE LoadPendingRequest(t) \/ LoadCatalog(t) \/ PreRecognize(t)
           \/ NormalizeResolverQuery(t) \/ ResolveSlots(t) \/ CommitSlots(t)
  BY <1>3, <1>a, <1>b DEF LoadPendingRequest, LoadCatalog, PreRecognize,
     NormalizeResolverQuery, ResolveSlots, CommitSlots, Contexts, Loaded
<1>4. CASE CallRecognizer(t)
  <2>1. ctx' = ctx /\ tasks' = tasks /\ pc[t] = "recognize" /\ pc'[t] = "recognizing"
    BY <1>4 DEF CallRecognizer, Goto, TypeOK, stores
  <2> QED
    BY <2>1 DEF ContinuesInv, Continues, Loaded
<1>5. ASSUME NEW d, Recognized(t, d)
      PROVE  Continues(t)'
  <2> DEFINE c == [ctx[t] EXCEPT !.intents = NormalizeQueries(d.intents)]
             p == MakePlan("reply", "", NoTask, {})
             q == MakePlan("clarify", "ambiguous_intent", NoTask, {})
             cp == [c EXCEPT !.plan = p]
             cq == [c EXCEPT !.plan = q]
  <2>1. /\ pc[t] = "recognizing" /\ UNCHANGED stores
        /\ \/ Proceed(t, "save_task", cp) \/ Proceed(t, "save_task", cq)
           \/ Proceed(t, "infer", c)
    BY <1>5 DEF Recognized, Answer
  <2>2. /\ c.task = ctx[t].task /\ c.session = ctx[t].session
        /\ cp.task = ctx[t].task /\ cp.session = ctx[t].session /\ cp.plan = p
        /\ cq.task = ctx[t].task /\ cq.session = ctx[t].session /\ cq.plan = q
    BY <1>a DEF Contexts
  <2>3. p.task = NoTask /\ q.task = NoTask
    BY DEF MakePlan
  <2>4. pc[t] \in Loaded
    BY <2>1 DEF Loaded
  <2> HIDE DEF cp, cq, c, p, q
  <2> QED
    BY <2>1, <2>2, <2>3, <2>4, <1>b, <1>c
<1>6. CASE InferIndicator(t)
  <2> DEFINE o == Infer(ctx[t].intents, ctx[t].request, ctx[t].catalog,
                        Mentions[ctx[t].message], ctx[t].message \in Bare, ctx[t].dataset)
             c == [ctx[t] EXCEPT !.intents = o.intents, !.drop = o.drop, !.plan = o.plan,
                                 !.request = IF o.raised = NoRequest THEN @ ELSE o.raised]
  <2>1. /\ pc[t] = "infer" /\ UNCHANGED stores
        /\ \/ Proceed(t, "normalize", c)
           \/ o.plan # NoPlan /\ Proceed(t, "save_task", c)
    BY <1>6 DEF InferIndicator, Answer
  <2>2. c.task = ctx[t].task /\ c.session = ctx[t].session /\ c.plan = o.plan
    BY <1>a DEF Contexts
  <2>3. o.plan # NoPlan => o.plan.task = NoTask
    <3>1. o.plan # NoPlan => o.plan = MakePlan("clarify", "ambiguous_slots", NoTask, {})
      BY DEF Infer
    <3> HIDE DEF o
    <3> QED
      BY <3>1 DEF MakePlan
  <2>4. pc[t] \in Loaded
    BY <2>1 DEF Loaded
  <2> HIDE DEF c, o
  <2> QED
    BY <2>1, <2>2, <2>3, <2>4, <1>b, <1>c
<1>7. CASE ValidateSlots(t)
  <2> DEFINE c == [ctx[t] EXCEPT !.plan = MakePlan("clarify", "invalid_slots", NoTask, {})]
  <2>1. /\ pc[t] = "validate" /\ UNCHANGED stores
        /\ Proceed(t, "commit", ctx[t]) \/ Proceed(t, "save_task", c) \/ Leave(t)
    BY <1>7 DEF ValidateSlots, Answer
  <2>2. c.plan.task = NoTask /\ c.task = ctx[t].task /\ c.session = ctx[t].session
    BY <1>a DEF Contexts, MakePlan
  <2>3. pc[t] \in Loaded
    BY <2>1 DEF Loaded
  <2> HIDE DEF c
  <2> QED
    BY <2>1, <2>2, <2>3, <1>b, <1>c, LeaveContinues
<1>8. CASE Autofill(t)
  <2>1. PICK st : Proceed(t, "write", [ctx[t] EXCEPT !.state = st])
    BY <1>8 DEF Autofill
  <2> DEFINE c == [ctx[t] EXCEPT !.state = st]
  <2>2. Proceed(t, "write", c) /\ pc[t] = "autofill" /\ UNCHANGED stores
    BY <1>8, <2>1 DEF Autofill
  <2>3. c.task = ctx[t].task /\ c.session = ctx[t].session
    BY <1>a DEF Contexts
  <2> HIDE DEF c
  <2> QED
    BY <2>2, <2>3, <1>b DEF Loaded
<1>9. CASE WriteSlots(t)
  <2>1. Proceed(t, "plan", ctx[t]) /\ pc[t] = "write" /\ tasks' = tasks
    BY <1>9 DEF WriteSlots
  <2> QED
    BY <2>1, ProceedContinues DEF Loaded
<1>10. CASE Plan(t)
  <2>1. PICK p \in PlansOf(t) : Proceed(t, "save_task", [ctx[t] EXCEPT !.plan = p])
    BY <1>10 DEF Plan, Answer
  <2> DEFINE c == [ctx[t] EXCEPT !.plan = p]
  <2>2. Proceed(t, "save_task", c) /\ pc[t] = "plan" /\ tasks' = tasks
    BY <1>10, <2>1 DEF Plan, stores
  <2>3. /\ c.task = ctx[t].task /\ c.session = ctx[t].session /\ c.plan = p
        /\ c.intents = ctx[t].intents
    BY <1>a DEF Contexts
  <2> HIDE DEF c
  <2>4. ctx'[t] = c /\ pc'[t] = "save_task"
    BY <2>2 DEF TypeOK, Proceed, Goto
  <2>5. p.task # NoTask => AutofillTasks(c.intents) # {} \/ c.task.active # NoTask
    BY <2>1, <2>3, QueryPlansType, PlannedTask DEF PlansOf, AutofillTasks
  <2>6. ctx[t].task = tasks[ctx[t].session]
    BY <2>2 DEF ContinuesInv, Continues, Loaded
  <2> QED
    BY <2>2, <2>3, <2>4, <2>5, <2>6 DEF Continues
<1>11. CASE SaveTaskContext(t)
  <2>1. pc'[t] = "save_request"
    BY <1>11 DEF SaveTaskContext, Proceed, Goto, TypeOK
  <2> QED
    BY <2>1 DEF Continues, Loaded
<1>12. CASE PlanningFails(t) \/ SavePendingRequest(t) \/ GatewayFails(t) \/ RecognizerFails(t)
  BY <1>12, LeaveContinues DEF PlanningFails, SavePendingRequest, GatewayFails, RecognizerFails
<1>13. CASE Suspend(t) \/ Resume(t)
  BY <1>13 DEF Suspend, Resume, stores, ContinuesInv, Continues
<1> QED
  BY <1>1, <1>2, <1>3, <1>4, <1>5, <1>6, <1>7, <1>8, <1>9, <1>10, <1>11, <1>12, <1>13
  DEF TurnNext, Step, RecognizerReturns

\* The sessions of the other turns are left alone, where no session has two
\* turns in flight.
LEMMA OthersKeep ==
    ASSUME TypeOK, OneAtATime, NEW t \in Turns, NEW u \in Turns \ {t}, TurnNext(t),
           pc[u] # "idle"
    PROVE  LET s == ctx[u].session
           IN  /\ pc'[u] = pc[u] /\ ctx'[u] = ctx[u]
               /\ slots'[s] = slots[s] /\ tasks'[s] = tasks[s] /\ requests'[s] = requests[s]
<1>1. pc'[u] = pc[u] /\ ctx'[u] = ctx[u]
  BY OneTurnMoves
<1>2. \/ UNCHANGED stores
      \/ WriteSlots(t) \/ SaveTaskContext(t) \/ SavePendingRequest(t)
  BY DEF TurnNext, Arrive, Step, RecognizerReturns, Suspend, Resume, GatewayFails, LoadTaskContext,
         LoadPendingRequest, LoadCatalog, PreRecognize, CallRecognizer, Recognized,
         RecognizerFails, InferIndicator, NormalizeResolverQuery, ResolveSlots,
         ValidateSlots, CommitSlots, Autofill, Plan, PlanningFails
<1>3. CASE UNCHANGED stores
  BY <1>1, <1>3 DEF stores
<1>4. CASE WriteSlots(t) \/ SaveTaskContext(t) \/ SavePendingRequest(t)
  <2>1. pc[t] # "idle"
    BY <1>4 DEF WriteSlots, SaveTaskContext, SavePendingRequest, Running
  <2>2. ctx[t].session # ctx[u].session
    BY <2>1 DEF OneAtATime
  <2>3. /\ slots' = slots \/ \E x : slots' = [slots EXCEPT ![ctx[t].session] = x]
        /\ tasks' = tasks \/ \E x : tasks' = [tasks EXCEPT ![ctx[t].session] = x]
        /\ requests' = requests \/ \E x : requests' = [requests EXCEPT ![ctx[t].session] = x]
    BY <1>4 DEF WriteSlots, SaveTaskContext, SavePendingRequest
  <2>4. /\ DOMAIN slots = Sessions /\ DOMAIN tasks = Sessions /\ DOMAIN requests = Sessions
        /\ ctx[u].session \in Sessions
    BY DEF TypeOK, Contexts
  <2> HIDE DEF TypeOK
  <2>5. ASSUME NEW f, NEW a, NEW b \in DOMAIN f, a # b, NEW g, g = f \/ \E x : g = [f EXCEPT ![a] = x]
        PROVE  g[b] = f[b]
    BY <2>5
  <2> QED
    BY <1>1, <2>2, <2>3, <2>4, <2>5
<1> QED
  BY <1>2, <1>3, <1>4

LEMMA ContinuesInvariant == Spec /\ []OneAtATime => []ContinuesInv
<1>1. Init => ContinuesInv
  BY DEF Init, ContinuesInv, Continues, Loaded
<1>2. TypeOK /\ OneAtATime /\ ContinuesInv /\ [Next]_vars => ContinuesInv'
  <2> SUFFICES ASSUME TypeOK, OneAtATime, ContinuesInv, [Next]_vars PROVE ContinuesInv'
    OBVIOUS
  <2>1. CASE UNCHANGED vars
    BY <2>1 DEF vars, ContinuesInv, Continues
  <2>2. ASSUME NEW t \in Turns, TurnNext(t) PROVE ContinuesInv'
    <3>1. Continues(t)'
      BY <2>2, MoverContinues
    <3>2. ASSUME NEW u \in Turns \ {t}, pc[u] # "idle" PROVE Continues(u)'
      BY <2>2, <3>2, OthersKeep DEF ContinuesInv, Continues
    <3>3. ASSUME NEW u \in Turns \ {t}, pc[u] = "idle" PROVE Continues(u)'
      BY <2>2, <3>3, OneTurnMoves DEF Continues, Loaded
    <3> QED
      BY <3>1, <3>2, <3>3 DEF ContinuesInv
  <2> QED
    BY <2>1, <2>2 DEF Next
<1> QED
  BY <1>1, <1>2, TypeCorrect, PTL DEF Spec

\* While no session has two turns in flight, a session without any task gets
\* one only from a turn that names a task: slots alone start nothing and what
\* was cleared does not come back (TaskPlanBuilder, TaskContextCommitterStep).
THEOREM NoTaskUnasked == Spec /\ []OneAtATime => TasksAreAsked
<1>1. ASSUME TypeOK, ContinuesInv, [Next]_vars, NEW t \in Turns,
             Moves(t, "save_task", "save_request"),
             tasks[ctx[t].session] = NoTaskContext,
             tasks'[ctx[t].session] # NoTaskContext
      PROVE  AutofillTasks(ctx[t].intents) # {}
  <2>1. pc'[t] # pc[t] /\ pc[t] = "save_task" /\ pc'[t] = "save_request"
    BY <1>1 DEF Moves
  <2>2. PICK u \in Turns : TurnNext(u)
    BY <1>1, <2>1 DEF vars, Next
  <2>3. TurnNext(t)
    BY <1>1, <2>1, <2>2, OneTurnMoves
  <2>4. SaveTaskContext(t)
    BY <2>1, <2>3 DEF TurnNext, Arrive, Step, RecognizerReturns, Suspend, Resume,
       GatewayFails, CallsGateway, LoadTaskContext, LoadPendingRequest, LoadCatalog,
       PreRecognize, CallRecognizer, Recognized, RecognizerFails, InferIndicator,
       NormalizeResolverQuery, ResolveSlots, ValidateSlots, CommitSlots, Autofill,
       WriteSlots, Plan, PlanningFails, SavePendingRequest, Running
  <2>5. tasks'[ctx[t].session] = NextTaskContext(NoTaskContext, ctx[t].plan)
    BY <1>1, <2>4 DEF SaveTaskContext, TypeOK, Contexts
  <2>6. ctx[t].plan.task # NoTask
    BY <1>1, <2>5 DEF NextTaskContext, NoTaskContext
  <2>7. ctx[t].task.active = NoTask
    BY <1>1, <2>1 DEF ContinuesInv, Continues, Loaded, NoTaskContext
  <2> QED
    BY <1>1, <2>1, <2>6, <2>7 DEF ContinuesInv, Continues
<1>2. TypeOK /\ ContinuesInv /\ [Next]_vars =>
         [\A t \in Turns :
            /\ Moves(t, "save_task", "save_request")
            /\ tasks[ctx[t].session] = NoTaskContext
            /\ tasks'[ctx[t].session] # NoTaskContext
            => AutofillTasks(ctx[t].intents) # {}]_vars
  BY <1>1
<1> QED
  BY <1>2, TypeCorrect, ContinuesInvariant, PTL DEF Spec, TasksAreAsked

----------------------------------------------------------------------------
(* Going on with a request.                                                *)

\* The request a turn carries is its session's, but for one it raises itself.
Asking == (Loaded \ {"load_request"}) \cup {"save_request"}

Asks(t) ==
    pc[t] \in Asking =>
        \/ ctx[t].request = requests[ctx[t].session]
        \/ /\ pc[t] \in {"save_task", "save_request"}
           /\ ctx[t].plan.reason = "ambiguous_slots"

AsksInv == \A t \in Turns : Asks(t)

\* A turn that raises a request clarifies the data type.
LEMMA RaisesByClarifying ==
    ASSUME NEW is, NEW r, NEW cat, NEW said, NEW bare, NEW w
    PROVE  LET o == Infer(is, r, cat, said, bare, w)
           IN  o.raised = NoRequest \/ (o.plan # NoPlan /\ o.plan.reason = "ambiguous_slots")
<1> DEFINE o == Infer(is, r, cat, said, bare, w)
           p == MakePlan("clarify", "ambiguous_slots", NoTask, {})
<1>1. o.raised = NoRequest \/ o.plan = p
  BY DEF Infer
<1>2. p.reason = "ambiguous_slots" /\ NoPlan.reason # "ambiguous_slots"
  BY DEF MakePlan, NoPlan
<1> HIDE DEF o, p, NoPlan
<1> QED
  BY <1>1, <1>2 DEF o

\* A turn that goes on with the same session and request.
LEMMA ProceedAsks ==
    ASSUME TypeOK, AsksInv, NEW t \in Turns, NEW step, NEW c, Proceed(t, step, c),
           requests' = requests, c.request = ctx[t].request, c.session = ctx[t].session,
           step \in Asking => pc[t] \in Asking \ {"save_task", "save_request"}
    PROVE  Asks(t)'
<1>1. ctx'[t] = c /\ pc'[t] = step
  BY DEF TypeOK, Proceed, Goto
<1> QED
  BY <1>1 DEF AsksInv, Asks

LEMMA LeaveAsks ==
    ASSUME TypeOK, NEW t \in Turns, Leave(t)
    PROVE  Asks(t)'
BY DEF TypeOK, Leave, Goto, Asks, Asking, Loaded

\* Every action of a turn keeps it so.
LEMMA MoverAsks ==
    ASSUME TypeOK, AsksInv, NEW t \in Turns, TurnNext(t)
    PROVE  Asks(t)'
<1> USE DEF Running
<1>a. ctx[t] \in Contexts
  BY DEF TypeOK
<1>b. ASSUME NEW c, NEW step, Proceed(t, step, c), requests' = requests,
             c.request = ctx[t].request, c.session = ctx[t].session,
             step \in Asking => pc[t] \in Asking \ {"save_task", "save_request"}
      PROVE  Asks(t)'
  BY <1>b, ProceedAsks
<1>1. ASSUME NEW s \in Sessions, NEW m \in Messages, NEW d \in Workspaces, Arrive(t, s, m, d)
      PROVE  Asks(t)'
  <2>1. pc'[t] = "load_task"
    BY <1>1 DEF Arrive, Proceed, Goto, TypeOK
  <2> QED
    BY <2>1 DEF Asks, Asking, Loaded
<1>2. CASE LoadTaskContext(t)
  <2>1. pc'[t] = "load_request"
    BY <1>2 DEF LoadTaskContext, Proceed, Goto, TypeOK
  <2> QED
    BY <2>1 DEF Asks, Asking, Loaded
<1>3. CASE LoadPendingRequest(t)
  <2> DEFINE c == [ctx[t] EXCEPT !.request = requests[ctx[t].session]]
  <2>1. c.request = requests[c.session]
    BY <1>a DEF Contexts
  <2>2. Proceed(t, "catalog", c) /\ UNCHANGED stores
    BY <1>3 DEF LoadPendingRequest
  <2> HIDE DEF c
  <2>3. ctx'[t] = c /\ requests' = requests
    BY <2>2 DEF TypeOK, Proceed, Goto, stores
  <2> QED
    BY <2>1, <2>3 DEF Asks
<1>4. CASE LoadCatalog(t) \/ PreRecognize(t) \/ NormalizeResolverQuery(t) \/ ResolveSlots(t)
           \/ CommitSlots(t)
  BY <1>4, <1>a, <1>b DEF LoadCatalog, PreRecognize, NormalizeResolverQuery, ResolveSlots,
     CommitSlots, Contexts, Asking, Loaded, stores
<1>5. CASE CallRecognizer(t)
  <2>1. /\ ctx' = ctx /\ requests' = requests /\ pc[t] = "recognize"
        /\ pc'[t] = "recognizing"
    BY <1>5 DEF CallRecognizer, Goto, TypeOK, stores
  <2> QED
    BY <2>1 DEF AsksInv, Asks, Asking, Loaded
<1>6. ASSUME NEW d, Recognized(t, d)
      PROVE  Asks(t)'
  <2> DEFINE c == [ctx[t] EXCEPT !.intents = NormalizeQueries(d.intents)]
             cp == [c EXCEPT !.plan = MakePlan("reply", "", NoTask, {})]
             cq == [c EXCEPT !.plan = MakePlan("clarify", "ambiguous_intent", NoTask, {})]
  <2>1. /\ pc[t] = "recognizing" /\ requests' = requests
        /\ \/ Proceed(t, "save_task", cp) \/ Proceed(t, "save_task", cq)
           \/ Proceed(t, "infer", c)
    BY <1>6 DEF Recognized, Answer, stores
  <2>2. /\ c.request = ctx[t].request /\ c.session = ctx[t].session
        /\ cp.request = ctx[t].request /\ cp.session = ctx[t].session
        /\ cq.request = ctx[t].request /\ cq.session = ctx[t].session
    BY <1>a DEF Contexts
  <2>3. pc[t] \in Asking \ {"save_task", "save_request"}
    BY <2>1 DEF Asking, Loaded
  <2> HIDE DEF cp, cq, c
  <2> QED
    BY <2>1, <2>2, <2>3, <1>b
<1>7. CASE InferIndicator(t)
  <2> DEFINE o == Infer(ctx[t].intents, ctx[t].request, ctx[t].catalog,
                        Mentions[ctx[t].message], ctx[t].message \in Bare, ctx[t].dataset)
             c == [ctx[t] EXCEPT !.intents = o.intents, !.drop = o.drop, !.plan = o.plan,
                                 !.request = IF o.raised = NoRequest THEN @ ELSE o.raised]
  <2>1. /\ pc[t] = "infer" /\ requests' = requests
        /\ \/ o.plan = NoPlan /\ Proceed(t, "normalize", c)
           \/ o.plan # NoPlan /\ Proceed(t, "save_task", c)
    BY <1>7 DEF InferIndicator, Answer, stores
  <2>2. /\ c.session = ctx[t].session /\ c.plan = o.plan
        /\ c.request = IF o.raised = NoRequest THEN ctx[t].request ELSE o.raised
    BY <1>a DEF Contexts
  <2>3. o.raised = NoRequest \/ (o.plan # NoPlan /\ o.plan.reason = "ambiguous_slots")
    BY RaisesByClarifying
  <2>4. pc[t] \in Asking \ {"save_task", "save_request"}
    BY <2>1 DEF Asking, Loaded
  <2> HIDE DEF c, o
  <2>5. CASE o.raised = NoRequest
    BY <2>1, <2>2, <2>4, <2>5, <1>b
  <2>6. CASE o.raised # NoRequest
    <3>1. Proceed(t, "save_task", c) /\ c.plan.reason = "ambiguous_slots"
      BY <2>1, <2>2, <2>3, <2>6
    <3>2. ctx'[t] = c /\ pc'[t] = "save_task"
      BY <3>1 DEF TypeOK, Proceed, Goto
    <3> QED
      BY <3>1, <3>2 DEF Asks
  <2> QED
    BY <2>5, <2>6
<1>8. CASE ValidateSlots(t)
  <2> DEFINE c == [ctx[t] EXCEPT !.plan = MakePlan("clarify", "invalid_slots", NoTask, {})]
  <2>1. /\ pc[t] = "validate" /\ requests' = requests
        /\ Proceed(t, "commit", ctx[t]) \/ Proceed(t, "save_task", c) \/ Leave(t)
    BY <1>8 DEF ValidateSlots, Answer, stores
  <2>2. c.request = ctx[t].request /\ c.session = ctx[t].session
    BY <1>a DEF Contexts
  <2>3. pc[t] \in Asking \ {"save_task", "save_request"}
    BY <2>1 DEF Asking, Loaded
  <2> HIDE DEF c
  <2> QED
    BY <2>1, <2>2, <2>3, <1>b, LeaveAsks
<1>9. CASE Autofill(t)
  <2>1. PICK st : Proceed(t, "write", [ctx[t] EXCEPT !.state = st])
    BY <1>9 DEF Autofill
  <2> DEFINE c == [ctx[t] EXCEPT !.state = st]
  <2>2. Proceed(t, "write", c) /\ pc[t] = "autofill" /\ requests' = requests
    BY <1>9, <2>1 DEF Autofill, stores
  <2>3. c.request = ctx[t].request /\ c.session = ctx[t].session
    BY <1>a DEF Contexts
  <2> HIDE DEF c
  <2> QED
    BY <2>2, <2>3, <1>b DEF Asking, Loaded
<1>10. CASE WriteSlots(t)
  <2>1. Proceed(t, "plan", ctx[t]) /\ pc[t] = "write" /\ requests' = requests
    BY <1>10 DEF WriteSlots
  <2> QED
    BY <2>1, <1>b DEF Asking, Loaded
<1>11. CASE Plan(t)
  <2>1. PICK p \in PlansOf(t) : Proceed(t, "save_task", [ctx[t] EXCEPT !.plan = p])
    BY <1>11 DEF Plan, Answer
  <2> DEFINE c == [ctx[t] EXCEPT !.plan = p]
  <2>2. Proceed(t, "save_task", c) /\ pc[t] = "plan" /\ requests' = requests
    BY <1>11, <2>1 DEF Plan, stores
  <2>3. c.request = ctx[t].request /\ c.session = ctx[t].session
    BY <1>a DEF Contexts
  <2> HIDE DEF c
  <2> QED
    BY <2>2, <2>3, <1>b DEF Asking, Loaded
<1>12. CASE SaveTaskContext(t)
  <2>1. pc[t] = "save_task" /\ Proceed(t, "save_request", ctx[t]) /\ requests' = requests
    BY <1>12 DEF SaveTaskContext
  <2>2. ctx'[t] = ctx[t] /\ pc'[t] = "save_request"
    BY <2>1 DEF TypeOK, Proceed, Goto
  <2> QED
    BY <2>1, <2>2 DEF AsksInv, Asks, Asking, Loaded
<1>13. CASE PlanningFails(t) \/ SavePendingRequest(t) \/ GatewayFails(t) \/ RecognizerFails(t)
  BY <1>13, LeaveAsks DEF PlanningFails, SavePendingRequest, GatewayFails, RecognizerFails
<1>14. CASE Suspend(t) \/ Resume(t)
  BY <1>14 DEF Suspend, Resume, stores, AsksInv, Asks
<1> QED
  BY <1>1, <1>2, <1>3, <1>4, <1>5, <1>6, <1>7, <1>8, <1>9, <1>10, <1>11, <1>12, <1>13, <1>14
  DEF TurnNext, Step, RecognizerReturns

LEMMA AsksInvariant == Spec /\ []OneAtATime => []AsksInv
<1>1. Init => AsksInv
  BY DEF Init, AsksInv, Asks, Asking, Loaded
<1>2. TypeOK /\ OneAtATime /\ AsksInv /\ [Next]_vars => AsksInv'
  <2> SUFFICES ASSUME TypeOK, OneAtATime, AsksInv, [Next]_vars PROVE AsksInv'
    OBVIOUS
  <2>1. CASE UNCHANGED vars
    BY <2>1 DEF vars, stores, AsksInv, Asks
  <2>2. ASSUME NEW t \in Turns, TurnNext(t) PROVE AsksInv'
    <3>1. Asks(t)'
      BY <2>2, MoverAsks
    <3>2. ASSUME NEW u \in Turns \ {t}, pc[u] # "idle" PROVE Asks(u)'
      BY <2>2, <3>2, OthersKeep DEF AsksInv, Asks
    <3>3. ASSUME NEW u \in Turns \ {t}, pc[u] = "idle" PROVE Asks(u)'
      BY <2>2, <3>3, OneTurnMoves DEF Asks, Asking, Loaded
    <3> QED
      BY <3>1, <3>2, <3>3 DEF AsksInv
  <2> QED
    BY <2>1, <2>2 DEF Next
<1> QED
  BY <1>1, <1>2, TypeCorrect, PTL DEF Spec

\* While no session has two turns in flight, a session gets a pending request
\* only from the turn that asks: the stale request of run stale_request needs
\* a concurrent turn (PendingObservationRequestCommitterStep).
THEOREM NoRequestUnasked == Spec /\ []OneAtATime => RequestsAreAsked
<1> DEFINE Right == \A s \in Sessions :
                      requests[s] = NoRequest /\ requests'[s] # NoRequest =>
                        \E t \in Turns : /\ Moves(t, "save_request", "idle")
                                         /\ ctx[t].session = s
                                         /\ ctx[t].plan.reason = "ambiguous_slots"
<1>1. TypeOK /\ AsksInv /\ [Next]_vars => [Right]_vars
  <2> SUFFICES ASSUME TypeOK, AsksInv, Next, NEW s \in Sessions,
                      requests[s] = NoRequest, requests'[s] # NoRequest
               PROVE  \E t \in Turns : /\ Moves(t, "save_request", "idle")
                                       /\ ctx[t].session = s
                                       /\ ctx[t].plan.reason = "ambiguous_slots"
    OBVIOUS
  <2>1. PICK t \in Turns : TurnNext(t)
    BY DEF Next
  <2>2. SavePendingRequest(t)
    BY <2>1 DEF TurnNext, Arrive, Step, RecognizerReturns, Suspend, Resume, GatewayFails,
       LoadTaskContext, LoadPendingRequest, LoadCatalog, PreRecognize, CallRecognizer,
       Recognized, RecognizerFails, InferIndicator, NormalizeResolverQuery, ResolveSlots,
       ValidateSlots, CommitSlots, Autofill, WriteSlots, Plan, PlanningFails,
       SaveTaskContext, stores
  <2>3. /\ pc[t] = "save_request" /\ pc'[t] = "idle"
        /\ requests' = [requests EXCEPT ![ctx[t].session] = NextRequest(@, ctx[t])]
    BY <2>2 DEF SavePendingRequest, Running, Leave, Goto, TypeOK
  <2>4. ctx[t].session = s
    BY <2>3 DEF TypeOK
  <2>5. requests'[s] = NextRequest(NoRequest, ctx[t])
    BY <2>3, <2>4 DEF TypeOK
  <2>6. ctx[t].request # NoRequest
    BY <2>5 DEF NextRequest
  <2>7. ctx[t].plan.reason = "ambiguous_slots"
    BY <2>3, <2>4, <2>6 DEF AsksInv, Asks, Asking
  <2> QED
    BY <2>3, <2>4, <2>7 DEF Moves
<1> QED
  BY <1>1, TypeCorrect, AsksInvariant, PTL DEF Spec, RequestsAreAsked

----------------------------------------------------------------------------
(* Going on with the slots.                                                *)

\* Between the read and the write of its slots a turn finds them as they were.
Reads(t) == pc[t] \in {"autofill", "write"} => SlotsOf(t) = ctx[t].before

ReadsInv == \A t \in Turns : Reads(t)

LEMMA MoverReads ==
    ASSUME TypeOK, ReadsInv, NEW t \in Turns, TurnNext(t)
    PROVE  Reads(t)'
<1> USE DEF Running
<1>a. ctx[t] \in Contexts
  BY DEF TypeOK
<1>b. ASSUME NEW c, NEW step, Proceed(t, step, c), step \notin {"autofill", "write"}
      PROVE  Reads(t)'
  BY <1>b DEF TypeOK, Proceed, Goto, Reads
<1>c. ASSUME Leave(t) PROVE Reads(t)'
  BY <1>c DEF TypeOK, Leave, Goto, Reads
<1>1. CASE CommitSlots(t)
  <2> DEFINE now == slots[ctx[t].session]
             c == [ctx[t] EXCEPT !.before = now, !.state = Commit(now, ctx[t].batch)]
  <2>1. c.before = slots[c.session]
    BY <1>a DEF Contexts
  <2>2. Proceed(t, "autofill", c) /\ slots' = slots
    BY <1>1 DEF CommitSlots, stores
  <2> HIDE DEF c
  <2>3. ctx'[t] = c
    BY <2>2 DEF TypeOK, Proceed
  <2> QED
    BY <2>1, <2>2, <2>3 DEF Reads, SlotsOf
<1>2. CASE Autofill(t)
  <2>1. PICK st : Proceed(t, "write", [ctx[t] EXCEPT !.state = st])
    BY <1>2 DEF Autofill
  <2> DEFINE c == [ctx[t] EXCEPT !.state = st]
  <2>2. c.before = ctx[t].before /\ c.session = ctx[t].session
    BY <1>a DEF Contexts
  <2>3. Proceed(t, "write", c) /\ slots' = slots /\ pc[t] = "autofill"
    BY <1>2, <2>1 DEF Autofill, stores
  <2> HIDE DEF c
  <2>4. ctx'[t] = c
    BY <2>3 DEF TypeOK, Proceed
  <2> QED
    BY <2>2, <2>3, <2>4 DEF ReadsInv, Reads, SlotsOf
<1>3. CASE CallRecognizer(t)
  BY <1>3 DEF CallRecognizer, Goto, TypeOK, Reads
<1>4. CASE Suspend(t) \/ Resume(t)
  BY <1>4 DEF Suspend, Resume, stores, ReadsInv, Reads, SlotsOf
<1>5. ASSUME NEW s, NEW m, NEW d, Arrive(t, s, m, d)
      PROVE  Reads(t)'
  BY <1>5, <1>b DEF Arrive
<1>6. ASSUME NEW d, Recognized(t, d)
      PROVE  Reads(t)'
  BY <1>6, <1>b DEF Recognized, Answer
<1>7. CASE LoadTaskContext(t) \/ LoadPendingRequest(t) \/ LoadCatalog(t) \/ PreRecognize(t)
           \/ NormalizeResolverQuery(t) \/ ResolveSlots(t)
  BY <1>7, <1>b DEF LoadTaskContext, LoadPendingRequest, LoadCatalog, PreRecognize,
     NormalizeResolverQuery, ResolveSlots
<1>8. CASE InferIndicator(t)
  BY <1>8, <1>b DEF InferIndicator, Answer
<1>9. CASE ValidateSlots(t) \/ WriteSlots(t) \/ Plan(t) \/ SaveTaskContext(t)
  <2>1. CASE ValidateSlots(t)
    <3>1. Leave(t) \/ \E c, step : Proceed(t, step, c) /\ step \in {"commit", "save_task"}
      BY <2>1 DEF ValidateSlots, Answer
    <3> QED
      BY <3>1, <1>b, <1>c
  <2>2. CASE WriteSlots(t) \/ SaveTaskContext(t)
    BY <2>2, <1>b DEF WriteSlots, SaveTaskContext
  <2>3. CASE Plan(t)
    BY <2>3, <1>b DEF Plan, Answer
  <2> QED
    BY <1>9, <2>1, <2>2, <2>3
<1>10. CASE PlanningFails(t) \/ SavePendingRequest(t) \/ GatewayFails(t) \/ RecognizerFails(t)
  BY <1>10, <1>c DEF PlanningFails, SavePendingRequest, GatewayFails, RecognizerFails
<1> QED
  BY <1>1, <1>2, <1>3, <1>4, <1>5, <1>6, <1>7, <1>8, <1>9, <1>10
  DEF TurnNext, Step, RecognizerReturns

LEMMA ReadsInvariant == Spec /\ []OneAtATime => []ReadsInv
<1>1. Init => ReadsInv
  BY DEF Init, ReadsInv, Reads
<1>2. TypeOK /\ OneAtATime /\ ReadsInv /\ [Next]_vars => ReadsInv'
  <2> SUFFICES ASSUME TypeOK, OneAtATime, ReadsInv, [Next]_vars PROVE ReadsInv'
    OBVIOUS
  <2>1. CASE UNCHANGED vars
    BY <2>1 DEF vars, stores, ReadsInv, Reads, SlotsOf
  <2>2. ASSUME NEW t \in Turns, TurnNext(t) PROVE ReadsInv'
    <3>1. Reads(t)'
      BY <2>2, MoverReads
    <3>2. ASSUME NEW u \in Turns \ {t}, pc[u] # "idle" PROVE Reads(u)'
      BY <2>2, <3>2, OthersKeep DEF ReadsInv, Reads, SlotsOf
    <3>3. ASSUME NEW u \in Turns \ {t}, pc[u] = "idle" PROVE Reads(u)'
      BY <2>2, <3>3, OneTurnMoves DEF Reads
    <3> QED
      BY <3>1, <3>2, <3>3 DEF ReadsInv
  <2> QED
    BY <2>1, <2>2 DEF Next
<1> QED
  BY <1>1, <1>2, TypeCorrect, PTL DEF Spec

\* While no session has two turns in flight no slots are lost either, with a
\* gateway that suspends its callers as much as with one that blocks.
THEOREM NoUpdateIsLostInSession == Spec /\ []OneAtATime => NoLostUpdate
<1>1. ReadsInv => \A t \in Turns : Moves(t, "write", "plan") => SlotsOf(t) = ctx[t].before
  BY DEF ReadsInv, Reads, Moves
<1> QED
  BY <1>1, ReadsInvariant, PTL DEF NoLostUpdate
=============================================================================
