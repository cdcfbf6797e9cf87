----------------------------- MODULE SlotStates -----------------------------
(***************************************************************************)
(* SlotState, SlotStateDiff and the coalescing of replaces, value by value *)
(* and in order: what modules SlotPipeline and SynapseTurns see as sets.   *)
(*                                                                         *)
(* A slot is absent, a single value or a list.  Besides committing batches *)
(* a client may roll the last commit back with the operations its diff     *)
(* gives.                                                                  *)
(***************************************************************************)
EXTENDS SlotPipeline, SequencesExt

CONSTANT OperationLists     \* operation lists that slot resolution may return

VARIABLES
    state,      \* slot -> its value
    before,     \* the state the last commit was computed on
    diff,       \* the last commit's diff
    batch       \* the operations last committed, as resolved

vars == <<state, before, diff, batch>>

Absent   == [one |-> FALSE, items |-> <<>>]
One(v)   == [one |-> TRUE, items |-> <<v>>]
ListOf(vs) == [one |-> FALSE, items |-> vs]

Operation(kind, s, value) == [kind |-> kind, slot |-> s, value |-> value]

\* Resolution names one value per operation.
Operations ==
    {Operation(k, s, One(v)) : k \in {"replace", "add", "remove"}, s \in Slots, v \in Values}
    \cup {Operation("clear", s, Absent) : s \in Slots}

ASSUME OperationsAssumption == OperationLists \subseteq Seq(Operations)

----------------------------------------------------------------------------
\* Seeded bug: a value that is already listed is listed again.
AppendAnyway(cell, v) == ListOf(Append(cell.items, v))

AppendUnique(cell, v) ==
    ListOf(IF Contains(cell.items, v) THEN cell.items ELSE Append(cell.items, v))

\* A slot that loses its last value is dropped.
Without(cell, v) ==
    ListOf(FoldLeft(LAMBDA rest, w : IF w = v THEN rest ELSE Append(rest, w),
                    <<>>, cell.items))

\* SlotState.apply.
Apply(st, op) ==
    [st EXCEPT ![op.slot] =
        CASE op.kind = "replace" -> op.value
          [] op.kind = "add"     -> AppendUnique(@, op.value.items[1])
          [] op.kind = "remove"  -> Without(@, op.value.items[1])
          [] op.kind = "clear"   -> Absent]

ApplyAll(st, ops) == FoldLeft(Apply, st, ops)

OnSlot(s, ops) == {op \in ToSet(ops) : op.slot = s}

OnlyReplaces(s, ops) ==
    OnSlot(s, ops) # {} /\ \A op \in OnSlot(s, ops) : op.kind = "replace"

\* The values that operations ops name for slot s, in one list.
Collected(s, ops) ==
    FoldLeft(LAMBDA cell, op : IF op.slot = s THEN AppendUnique(cell, op.value.items[1])
                               ELSE cell,
             Absent, ops)

\* Seeded bug: the last of several replaces wins.
CoalesceToLast(ops) == ops

\* _coalesce_multi_replaces: several replaces of a multi slot, and nothing
\* else, become one replace by the list of their values, in the first place.
Coalesce(ops) ==
    LET step(out, op) ==
            IF ~(op.slot \in MultiSlots /\ OnlyReplaces(op.slot, ops)) THEN Append(out, op)
            ELSE IF OnSlot(op.slot, out) # {} THEN out
            ELSE Append(out, Operation("replace", op.slot, Collected(op.slot, ops)))
    IN  FoldLeft(step, <<>>, ops)

\* Seeded bug: every slot that either state holds is reported.
DiffOfHeld(a, b) ==
    {[slot |-> s, from |-> a[s], to |-> b[s]] : s \in {u \in Slots : {a[u], b[u]} # {Absent}}}

\* SlotState.diff.
Diff(a, b) ==
    {[slot |-> s, from |-> a[s], to |-> b[s]] : s \in {u \in Slots : a[u] # b[u]}}

\* Seeded bug: a slot that was not there is replaced by nothing but its value.
KeepsAdded(changes) ==
    SetToSeq({Operation("replace", c.slot, IF c.from = Absent THEN c.to ELSE c.from) :
                 c \in changes})

\* SlotStateDiff.rollback_operations.
RollbackOperations(changes) ==
    SetToSeq({IF c.from = Absent THEN Operation("clear", c.slot, Absent)
              ELSE Operation("replace", c.slot, c.from) : c \in changes})

----------------------------------------------------------------------------
Init ==
    /\ state = [s \in Slots |-> Absent]
    /\ before = state
    /\ diff = {}
    /\ batch = <<>>

\* The commit of a new state, computed from an operation batch.
Become(new, ops) ==
    /\ state' = new
    /\ before' = state
    /\ diff' = Diff(state, new)
    /\ batch' = ops

CommitBatch(ops) == Become(ApplyAll(state, Coalesce(ops)), ops)

\* A batch with the clear-all reference.
ClearAll == Become([s \in Slots |-> Absent], <<>>)

RollBack == Become(ApplyAll(state, RollbackOperations(diff)), <<>>)

Next == (\E ops \in OperationLists : CommitBatch(ops)) \/ ClearAll \/ RollBack

Spec == Init /\ [][Next]_vars

----------------------------------------------------------------------------
(* The view of modules SlotPipeline and SynapseTurns.                      *)

SetsOf(st) == [s \in Slots |-> ToSet(st[s].items)]

\* The bound of SlotPipeline, OneEffectPerSlot, on a list of operations.
OneEffect(ops) ==
    \A s \in Slots :
        \/ Cardinality(OnSlot(s, ops)) <= 1
        \/ s \in MultiSlots /\ \A op \in OnSlot(s, ops) : op.kind = "replace"

BatchOf(ops) ==
    [all |-> FALSE,
     on  |-> [s \in Slots |->
                LET os == OnSlot(s, ops)
                IN  [act  |-> IF os = {} THEN "none" ELSE (CHOOSE op \in os : TRUE).kind,
                     vals |-> UNION {ToSet(op.value.items) : op \in os}]]]

----------------------------------------------------------------------------
\* Rolling the last commit back brings the state before it back, exactly:
\* values, order, and single value or list (SlotStateDiff.rollback_operations).
RollbackRestores == ApplyAll(state, RollbackOperations(diff)) = before

\* Whatever is added, removed and replaced, no slot lists a value twice: the
\* task's parameters and the indicator indexes are built from these lists.
ListsAreUnique ==
    \A s \in Slots : IsInjective(state[s].items)

\* As long as a batch has one effect per slot, committing it in order, value
\* by value, is the set-valued commit of module SlotPipeline.
CommitsAsSets ==
    [][batch' # <<>> /\ OneEffect(batch') =>
          SetsOf(state') = Commit(SetsOf(state), BatchOf(batch'))]_vars

\* The batch puts no value back that it has removed.
PutsNothingBack(ops) ==
    \A i, j \in DOMAIN ops :
        i < j /\ ops[i].kind = "remove" /\ ops[j].kind = "add"
           => ops[i].slot # ops[j].slot \/ ops[i].value # ops[j].value

\* The same operations committed again right away, as by a client that sends
\* its turn twice, leave each slot with the same values.  Nothing at all
\* changes, and the diff is empty, unless the batch puts back a value it has
\* removed: each commit then moves this value to the end of its list, and the
\* second answer reports the slot as changed again.
RetryChangesNothing ==
    [][batch' = batch /\ batch # <<>> =>
          /\ SetsOf(state') = SetsOf(state)
          /\ PutsNothingBack(batch) => state' = state /\ diff' = {}]_vars
=============================================================================
