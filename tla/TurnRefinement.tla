--------------------------- MODULE TurnRefinement ---------------------------
(***************************************************************************)
(* SynapseTurns, with a gateway that does not suspend turns or sessions    *)
(* that have one turn in flight, implements AtomicTurns.  A turn is        *)
(* answered, for the client, at the moment its plan is set: what the two   *)
(* run_after_plan steps are about to store is taken as stored, and slots   *)
(* stored for an answer that is not yet planned as not stored.             *)
(***************************************************************************)
EXTENDS TurnProperties

Phase(t) ==
    CASE pc[t] = "idle" -> "idle"
      [] pc[t] \in {"save_task", "save_request"} -> "answered"
      [] OTHER -> "open"

\* The turns of session s at one of these steps: one at most.
At(s, steps) == {t \in Turns : pc[t] \in steps /\ ctx[t].session = s}

The(turns) == CHOOSE t \in turns : TRUE

ClientSlots ==
    [s \in Sessions |->
        IF At(s, {"plan"}) = {} THEN slots[s]
        ELSE ctx[The(At(s, {"plan"}))].before]

ClientTasks ==
    [s \in Sessions |->
        IF At(s, {"save_task"}) = {} THEN tasks[s]
        ELSE NextTaskContext(tasks[s], ctx[The(At(s, {"save_task"}))].plan)]

ClientRequests ==
    [s \in Sessions |->
        IF At(s, {"save_task", "save_request"}) = {} THEN requests[s]
        ELSE NextRequest(requests[s],
                         ctx[The(At(s, {"save_task", "save_request"}))])]

ClientTurn(t) ==
    [phase  |-> Phase(t), session |-> ctx[t].session,
     seen   |-> IF Phase(t) = "open" THEN ctx[t].request ELSE NoRequest,
     answer |-> ctx[t].plan]

ClientTurns == [t \in Turns |-> ClientTurn(t)]

Client == INSTANCE AtomicTurns WITH slots <- ClientSlots, tasks <- ClientTasks,
                                    requests <- ClientRequests, turn <- ClientTurns

\* However turns interleave at the recognizer call, to the clients of a
\* session each turn happens in one step: the answer, the slots, the task
\* context and the open question belong together (conductor and stores).
TurnsAreAtomic == Client!Spec
=============================================================================
