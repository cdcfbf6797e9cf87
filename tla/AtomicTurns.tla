---------------------------- MODULE AtomicTurns ----------------------------
(***************************************************************************)
(* What Synapse promises to the clients of a session, without its pipeline:*)
(* a turn is accepted, sees the open question of its session, is answered  *)
(* in one step that moves slots, task context and open question together,  *)
(* and is replied to.  However many turns are in flight, their answers are *)
(* given one after the other, each on what the one before has left.        *)
(*                                                                         *)
(* A turn may also fail.  Then neither task context nor open question      *)
(* change, but the slots may: they are stored before the answer is planned *)
(* and nothing takes them back.                                            *)
(***************************************************************************)
EXTENDS SlotPipeline

CONSTANTS Sessions, Turns

VARIABLES slots, tasks, requests,   \* per session, as the client may find out
          turn                      \* per turn: its phase, session and answer

vars == <<slots, tasks, requests, turn>>

Free == [phase |-> "idle", session |-> CHOOSE s \in Sessions : TRUE,
         seen |-> NoRequest, answer |-> NoPlan]

Init ==
    /\ slots = [s \in Sessions |-> NoSlots]
    /\ tasks = [s \in Sessions |-> NoTaskContext]
    /\ requests = [s \in Sessions |-> NoRequest]
    /\ turn = [t \in Turns |-> Free]

Accept(t, s) ==
    /\ turn[t] = Free
    /\ turn' = [turn EXCEPT ![t] = [phase |-> "open", session |-> s,
                                    seen |-> NoRequest, answer |-> NoPlan]]
    /\ UNCHANGED <<slots, tasks, requests>>

\* The turn takes note of the question its message may answer.
Look(t) ==
    /\ turn[t].phase = "open"
    /\ turn' = [turn EXCEPT ![t].seen = requests[turn[t].session]]
    /\ UNCHANGED <<slots, tasks, requests>>

----------------------------------------------------------------------------
(* The answer.  The new values are read off the primed variables: they are *)
(* the implementation's choice, within what follows.                       *)

OnlySession(s) ==
    /\ slots' = [slots EXCEPT ![s] = slots'[s]]
    /\ \A n \in Slots : slots'[s][n] \subseteq LoadedCatalog(TRUE)[n]

\* An answer with a diff gives the whole difference; one that finds fault
\* with the slots the user named has changed none; an update has changed
\* some, a task has the slots it requires and a question about missing ones
\* asks for a reason.
SlotsAsAnswered(p, old, new) ==
    /\ p.kind \in {"task", "context_update", "context_clear"} \/ p.reason = "missing_slots"
          => p.changed = Changed(old, new)
    /\ p.reason \in {"invalid_slots", "ambiguous_slots"} => new = old
    /\ p.kind = "context_update" => new # old
    /\ p.kind = "task" => \A n \in RequiredSlots[p.task] : new[n] # {}
    /\ p.reason = "missing_slots" => \E n \in RequiredSlots[p.task] : new[n] = {}

\* The tasks of the session after the answer.
TasksAsAnswered(p, old, new) ==
    /\ p.kind = "task" => new = [pending |-> NoTask, active |-> p.task]
    /\ p.kind = "context_clear" => new = NoTaskContext
    /\ p.reason = "missing_slots" => new = [old EXCEPT !.pending = p.task]
    /\ p.kind \notin {"task", "context_clear"} /\ p.reason # "missing_slots" => new = old

\* The open question after the answer: none after a task, a clear or a
\* question about slots; else a new one, the one the turn has seen, the one
\* the session has, or none.
QuestionAsAnswered(p, seen, old, new) ==
    IF p.kind \in {"task", "context_clear"} \/ p.reason = "missing_slots"
    THEN new = NoRequest
    ELSE \/ new \in {NoRequest, seen, old}
         \/ p.reason = "ambiguous_slots" /\ new \in Requests

Answer(t) ==
    LET s == turn[t].session
        p == turn'[t].answer
    IN  /\ turn[t].phase = "open" /\ p \in Plans
        /\ turn' = [turn EXCEPT ![t] = [phase |-> "answered", session |-> s,
                                        seen |-> NoRequest, answer |-> p]]
        /\ OnlySession(s) /\ SlotsAsAnswered(p, slots[s], slots'[s])
        /\ tasks' = [tasks EXCEPT ![s] = tasks'[s]]
        /\ TasksAsAnswered(p, tasks[s], tasks'[s])
        /\ requests' = [requests EXCEPT ![s] = requests'[s]]
        /\ QuestionAsAnswered(p, turn[t].seen, requests[s], requests'[s])

Reply(t) ==
    /\ turn[t].phase = "answered"
    /\ turn' = [turn EXCEPT ![t] = Free]
    /\ UNCHANGED <<slots, tasks, requests>>

Fail(t) ==
    /\ turn[t].phase = "open"
    /\ turn' = [turn EXCEPT ![t] = Free]
    /\ OnlySession(turn[t].session)
    /\ UNCHANGED <<tasks, requests>>

----------------------------------------------------------------------------
Next == \E t \in Turns : \/ \E s \in Sessions : Accept(t, s)
                         \/ Look(t) \/ Answer(t) \/ Reply(t) \/ Fail(t)

Spec == Init /\ [][Next]_vars
=============================================================================
