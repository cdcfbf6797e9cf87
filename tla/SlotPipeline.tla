---------------------------- MODULE SlotPipeline ----------------------------
(***************************************************************************)
(* The slot half of a turn: SlotResolutionStep with the observation        *)
(* pipeline, SlotValidationStep, the state transition of SlotCommitter and *)
(* the post-commit ObservationAutofillPolicy.                              *)
(*                                                                         *)
(* A decision carries, per slot, either one operation or only replaces     *)
(* (OneEffectPerSlot): the order of operations on one slot is the matter   *)
(* of module SlotStates.                                                   *)
(***************************************************************************)
EXTENDS Observation

\* _SLOT_NAMES_BY_TARGET_PRIORITY.
Priority == [sensors |-> 1, test_segments |-> 2, indicator_names |-> 3, data_types |-> 4]

\* _slot_name: an operation belongs to the slot the recognizer names if that
\* slot offers the value, else to the first slot that does.  One that names no
\* slot (no entity type, and none its intent implies) goes by its value alone.
SlotOf(i, cat) ==
    LET offering == {s \in Slots : i.target \in cat[s]}
    IN  IF i.slot \in offering \/ offering = {} THEN i.slot
        ELSE CHOOSE s \in offering : \A u \in offering : Priority[s] <= Priority[u]

\* The valid operations of a decision on slot s.  One without an action or a
\* target, or marked invalid, is dropped; a clear of a slot without candidates,
\* and a value nobody offers under no slot, go to a reference no slot has.
OperationsOn(s, intents, cat) ==
    {i \in intents : /\ i.act # "none" /\ i.target # NoValue /\ i.valid
                     /\ SlotOf(i, cat) = s
                     /\ i.act = "clear" => cat[s] # {}}

OneEffectPerSlot(intents, cat) ==
    \A s \in Slots :
        LET os == OperationsOn(s, intents, cat)
        IN  \/ \A i, j \in os : i.act = j.act /\ i.target = j.target
            \/ s \in MultiSlots /\ \A i \in os : i.act = "replace"

\* Replaces of a multi slot are coalesced into one; a clear_context action
\* replaces the whole batch by a clear-all.
Resolve(intents, cat) ==
    IF "clear_context" \in ActionNames(intents)
    THEN [NoBatch EXCEPT !.all = TRUE]
    ELSE [all |-> FALSE,
          on  |-> [s \in Slots |->
                      LET os == OperationsOn(s, intents, cat)
                      IN  [act  |-> IF os = {} THEN "none"
                                    ELSE (CHOOSE o \in os : TRUE).act,
                           vals |-> {o.target : o \in os}]]]

Touched(batch) == {s \in Slots : batch.on[s].act # "none"}

\* Seeded bug: only replaced values are looked up.
InvalidReplaces(batch, cat) ==
    {s \in Slots : batch.on[s].act = "replace" /\ ~(batch.on[s].vals \subseteq cat[s])}

\* GenericSlotValidator: every value of an operation other than a clear must
\* be offered by the turn's (narrowed) catalog.
InvalidSlots(batch, cat) ==
    {s \in Slots : /\ batch.on[s].act \notin {"none", "clear"}
                   /\ ~(batch.on[s].vals \subseteq cat[s])}

\* SlotCommitter.commit over SlotState.apply_all.
Commit(state, batch) ==
    IF batch.all THEN NoSlots
    ELSE [s \in Slots |->
            LET e == batch.on[s]
            IN  CASE e.act = "replace" -> e.vals
                  [] e.act = "add"     -> state[s] \cup e.vals
                  [] e.act = "remove"  -> state[s] \ e.vals
                  [] e.act = "clear"   -> {}
                  [] OTHER             -> state[s]]

\* SlotState.diff, as the slots whose value differs.
Changed(before, after) == {s \in Slots : before[s] # after[s]}

----------------------------------------------------------------------------
(* ObservationAutofillPolicy.operations_for: three fills, one after the    *)
(* other, none of a slot this turn's operations touched. Each operator is  *)
(* the set of states the fill may lead to ("the first" value is any one).  *)

IsSingle(vs) == Cardinality(vs) = 1

Put(state, s, v) == [state EXCEPT ![s] = {v}]

InScope(rows, state) ==
    {r \in rows : /\ IsSingle(state["data_types"]) => r.data_type \in state["data_types"]
                  /\ \A p \in PlaceSlots : state[p] = {} \/ r.place[p] \in state[p]}

\* Seeded bug: a data type another task has left selected stays.
FillOpenDataType(state, touched, task, rows) ==
    IF "data_types" \in touched \/ IsSingle(state["data_types"]) THEN {state}
    ELSE {Put(state, "data_types", d) : d \in TaskDomains[task]}

FillDataType(state, touched, task, rows) ==
    IF "data_types" \in touched THEN {state}
    ELSE IF IsSingle(TaskDomains[task])
         THEN {Put(state, "data_types", d) : d \in TaskDomains[task]}
    ELSE IF IsSingle(state["data_types"]) \/ InScope(rows, state) = {} THEN {state}
    ELSE {Put(state, "data_types", r.data_type) : r \in InScope(rows, state)}

\* Seeded bug: fills a place slot the user has just emptied.
FillEmptyPlaces(state, touched, rows) ==
    LET open == {p \in PlaceSlots : state[p] = {}}
    IN  IF InScope(rows, state) = {} THEN {state}
        ELSE {[s \in Slots |-> IF s \in open THEN {r.place[s]} ELSE state[s]] :
                  r \in InScope(rows, state)}

FillPlaces(state, touched, rows) ==
    LET open == {p \in PlaceSlots \ touched : state[p] = {}}
    IN  IF open = {} \/ InScope(rows, state) = {} THEN {state}
        ELSE {[s \in Slots |-> IF s \in open THEN {r.place[s]} ELSE state[s]] :
                  r \in InScope(rows, state)}

FillIndicator(state, touched, rows) ==
    LET now == state["indicator_names"]
        listed(d) == IndicatorsAt(d, state, rows)
        choices(d) ==
            IF now = {Preferred[d]} \/ listed(d) = {} THEN now
            ELSE IF Preferred[d] \in listed(d) THEN {Preferred[d]}
            ELSE IF now = {} \/ ~(now \subseteq listed(d)) THEN listed(d)
            ELSE now
        keeps(d) == choices(d) = now
    IN  IF \/ "indicator_names" \in touched
           \/ ~IsSingle(state["data_types"])
           \/ \E p \in PlaceSlots : state[p] = {}
        THEN {state}
        ELSE UNION {IF keeps(d) THEN {state}
                    ELSE {Put(state, "indicator_names", v) : v \in choices(d)} :
                        d \in state["data_types"] \cap DataTypes}

Autofilled(state, touched, task, rows) ==
    IF rows = {} THEN {state}
    ELSE UNION {UNION {FillIndicator(placed, touched, rows) :
                          placed \in FillPlaces(typed, touched, rows)} :
                    typed \in FillDataType(state, touched, task, rows)}

\* The task names autofill may work for; none means it is not consulted.
AutofillTasks(intents) == ActionNames(intents) \cap Tasks
=============================================================================
