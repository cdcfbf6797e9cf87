---------------------------- MODULE SynapseTurns ----------------------------
(***************************************************************************)
(* The turn pipeline of the default Synapse runtime, over the three        *)
(* session stores, with any number of turns in flight on one event loop.   *)
(*                                                                         *)
(* Every conductor step is an action.  A coroutine runs until it really    *)
(* suspends: `loop' names the turn that is running.  The recognizer call   *)
(* always suspends; the calls to the Sigma gateway suspend only when the   *)
(* gateway is a truly asynchronous one (AsyncGateway), since               *)
(* HttpSigmaGateway blocks inside its async methods.                       *)
(***************************************************************************)
EXTENDS ResolverQuery, SlotPipeline, TaskPlanning

CONSTANTS
    Sessions,       \* session ids
    Turns,          \* turns that can be in flight at a time
    Messages,       \* user messages
    Mentions,       \* message -> candidate values its text mentions
    Bare,           \* messages that consist of the mentioned value alone
    Readings,       \* message -> decisions the recognizer may return for it
    Workspaces,     \* subset of BOOLEAN: may a request name a dataset?
    AsyncGateway,   \* does a gateway call suspend the turn?
    NoTurn

ASSUME TurnsAssumption ==
    /\ Sessions # {} /\ Messages # {}
    /\ Mentions \in [Messages -> SUBSET Values]
    /\ Bare \subseteq Messages
    /\ Readings \in [Messages -> SUBSET Decisions]
    /\ Workspaces \subseteq BOOLEAN
    /\ AsyncGateway \in BOOLEAN
    /\ NoTurn \notin Turns

\* The bound of SlotPipeline, on the recognizer's readings.
ASSUME ReadingsAssumption ==
    \A m \in Messages, w \in Workspaces : \A d \in Readings[m] :
        OneEffectPerSlot(d.intents, Narrowed(LoadedCatalog(w), Mentions[m], w))

VARIABLES
    slots,      \* session -> committed slot state     (SlotCommitterStep._states)
    tasks,      \* session -> task context             (InMemoryTaskContextStore)
    requests,   \* session -> pending observation request, or NoRequest
    loop,       \* the turn the event loop is running, or NoTurn
    pc,         \* turn -> the conductor step it is at
    ctx         \* turn -> its TurnContext: request and artifacts

vars == <<slots, tasks, requests, loop, pc, ctx>>

Steps == {"idle", "load_task", "load_request", "catalog", "pre_recognize",
          "recognize", "recognizing", "infer", "normalize", "resolve",
          "validate", "commit", "autofill", "write", "plan",
          "save_task", "save_request"}

Contexts ==
    [session : Sessions, message : Messages, dataset : BOOLEAN,
     task    : TaskContexts,                    \* task artifacts
     request : Requests \cup {NoRequest},       \* pending request artifact
     drop    : BOOLEAN,                         \* clear_pending_observation_request
     catalog : Catalogs, intents : SUBSET Intents, batch : Batches,
     before  : SlotStates, state : SlotStates, plan : Plans]

\* The context of a turn slot no request uses.
Blank ==
    [session |-> CHOOSE s \in Sessions : TRUE,
     message |-> CHOOSE m \in Messages : TRUE,
     dataset |-> FALSE, task |-> NoTaskContext, request |-> NoRequest,
     drop |-> FALSE, catalog |-> NoSlots, intents |-> {}, batch |-> NoBatch,
     before |-> NoSlots, state |-> NoSlots, plan |-> NoPlan]

Init ==
    /\ slots = [s \in Sessions |-> NoSlots]
    /\ tasks = [s \in Sessions |-> NoTaskContext]
    /\ requests = [s \in Sessions |-> NoRequest]
    /\ loop = NoTurn
    /\ pc = [t \in Turns |-> "idle"]
    /\ ctx = [t \in Turns |-> Blank]

stores == <<slots, tasks, requests>>

----------------------------------------------------------------------------
(* The event loop and the conductor.                                       *)

Running(t, step) == loop = t /\ pc[t] = step

Goto(t, step) == pc' = [pc EXCEPT ![t] = step]

\* A step that leaves no plan is followed by the next one.
Proceed(t, next, c) ==
    /\ ctx' = [ctx EXCEPT ![t] = c]
    /\ Goto(t, next)
    /\ loop' = t

\* A step that sets a plan: the conductor skips to the run_after_plan steps.
Answer(t, c) == Proceed(t, "save_task", c)

\* The response, or the exception, leaves the conductor: nothing else runs.
Leave(t) ==
    /\ ctx' = [ctx EXCEPT ![t] = Blank]
    /\ Goto(t, "idle")
    /\ loop' = NoTurn

\* POST /turns.
Arrive(t, s, m, d) ==
    /\ loop = NoTurn /\ pc[t] = "idle"
    /\ Proceed(t, "load_task",
               [ctx[t] EXCEPT !.session = s, !.message = m, !.dataset = d])
    /\ UNCHANGED stores

\* Where the running turn calls the gateway.
CallsGateway(t) ==
    \/ pc[t] = "catalog"
    \/ pc[t] = "autofill" /\ AutofillTasks(ctx[t].intents) # {}
    \/ /\ pc[t] = "plan" /\ ActionNames(ctx[t].intents) \cap Queries # {}
       /\ ActionNames(ctx[t].intents) \cap {"clear_context", "current", "query_other"} = {}

\* Seeded bug: the blocking gateway is made to suspend the turn.
SuspendAlways(t) ==
    /\ loop = t /\ CallsGateway(t)
    /\ loop' = NoTurn
    /\ UNCHANGED <<stores, pc, ctx>>

Suspend(t) ==
    /\ AsyncGateway /\ loop = t /\ CallsGateway(t)
    /\ loop' = NoTurn
    /\ UNCHANGED <<stores, pc, ctx>>

Resume(t) ==
    /\ loop = NoTurn /\ CallsGateway(t)
    /\ loop' = t
    /\ UNCHANGED <<stores, pc, ctx>>

\* SigmaGatewayError: no step catches it.
GatewayFails(t) ==
    /\ loop = t /\ CallsGateway(t)
    /\ Leave(t)
    /\ UNCHANGED stores

----------------------------------------------------------------------------
(* Loading and recognition.                                                *)

LoadTaskContext(t) ==
    /\ Running(t, "load_task")
    /\ Proceed(t, "load_request",
               [ctx[t] EXCEPT !.task = tasks[ctx[t].session]])
    /\ UNCHANGED stores

LoadPendingRequest(t) ==
    /\ Running(t, "load_request")
    /\ Proceed(t, "catalog",
               [ctx[t] EXCEPT !.request = requests[ctx[t].session]])
    /\ UNCHANGED stores

LoadCatalog(t) ==
    /\ Running(t, "catalog")
    /\ Proceed(t, "pre_recognize",
               [ctx[t] EXCEPT !.catalog = LoadedCatalog(ctx[t].dataset)])
    /\ UNCHANGED stores

PreRecognize(t) ==
    /\ Running(t, "pre_recognize")
    /\ Proceed(t, "recognize",
               [ctx[t] EXCEPT !.catalog = Narrowed(ctx[t].catalog,
                                                   Mentions[ctx[t].message],
                                                   ctx[t].dataset)])
    /\ UNCHANGED stores

\* The LLM call: the turn gives the loop up until it answers.
CallRecognizer(t) ==
    /\ Running(t, "recognize")
    /\ Goto(t, "recognizing")
    /\ loop' = NoTurn
    /\ UNCHANGED <<stores, ctx>>

Recognized(t, d) ==
    /\ loop = NoTurn /\ pc[t] = "recognizing"
    /\ LET c == [ctx[t] EXCEPT !.intents = NormalizeQueries(d.intents)]
       IN  \/ /\ d.verdict = "low"
              /\ Answer(t, [c EXCEPT !.plan = MakePlan("reply", "", NoTask, {})])
           \/ /\ d.verdict = "ambiguous"
              /\ Answer(t, [c EXCEPT !.plan = MakePlan("clarify", "ambiguous_intent",
                                                       NoTask, {})])
           \/ /\ d.verdict = "clear"
              /\ Proceed(t, "infer", c)
    /\ UNCHANGED stores

\* Seeded bug: a failed recognition is tried again, without end.
RecognizerRetries(t) ==
    /\ loop = NoTurn /\ pc[t] = "recognizing"
    /\ Proceed(t, "recognize", ctx[t])
    /\ UNCHANGED stores

RecognizerFails(t) ==
    /\ loop = NoTurn /\ pc[t] = "recognizing"
    /\ Leave(t)
    /\ UNCHANGED stores

InferIndicator(t) ==
    /\ Running(t, "infer")
    /\ LET r == Infer(ctx[t].intents, ctx[t].request, ctx[t].catalog,
                      Mentions[ctx[t].message], ctx[t].message \in Bare,
                      ctx[t].dataset)
           c == [ctx[t] EXCEPT !.intents = r.intents, !.drop = r.drop, !.plan = r.plan,
                               !.request = IF r.raised = NoRequest THEN @ ELSE r.raised]
       IN  \/ r.plan = NoPlan /\ Proceed(t, "normalize", c)
           \/ r.plan # NoPlan /\ Answer(t, c)
    /\ UNCHANGED stores

NormalizeResolverQuery(t) ==
    /\ Running(t, "normalize")
    /\ Proceed(t, "resolve", [ctx[t] EXCEPT !.intents = InjectQuery(@)])
    /\ UNCHANGED stores

----------------------------------------------------------------------------
(* Slots.                                                                  *)

ResolveSlots(t) ==
    /\ Running(t, "resolve")
    /\ Proceed(t, "validate", [ctx[t] EXCEPT !.batch = Resolve(ctx[t].intents, ctx[t].catalog)])
    /\ UNCHANGED stores

\* A clarification needs candidates for every slot it asks for: without any
\* the plan model rejects itself and the turn fails.
ValidateSlots(t) ==
    /\ Running(t, "validate")
    /\ LET bad == InvalidSlots(ctx[t].batch, ctx[t].catalog)
       IN  \/ bad = {} /\ Proceed(t, "commit", ctx[t])
           \/ /\ bad # {} /\ \A s \in bad : ctx[t].catalog[s] # {}
              /\ Answer(t, [ctx[t] EXCEPT !.plan = MakePlan("clarify", "invalid_slots",
                                                            NoTask, {})])
           \/ /\ \E s \in bad : ctx[t].catalog[s] = {}
              /\ Leave(t)
    /\ UNCHANGED stores

\* SlotCommitterStep reads the session's state and computes the batch on it ...
CommitSlots(t) ==
    /\ Running(t, "commit")
    /\ LET now == slots[ctx[t].session]
       IN  Proceed(t, "autofill", [ctx[t] EXCEPT !.before = now,
                                                 !.state = Commit(now, ctx[t].batch)])
    /\ UNCHANGED stores

\* ... awaits the post-commit policy ...
Autofill(t) ==
    /\ Running(t, "autofill")
    /\ LET names  == AutofillTasks(ctx[t].intents)
           filled == UNION {Autofilled(ctx[t].state, Touched(ctx[t].batch), n,
                                       RowsFor(ctx[t].dataset)) : n \in names}
       IN  \E st \in IF names = {} THEN {ctx[t].state} ELSE filled :
              Proceed(t, "write", [ctx[t] EXCEPT !.state = st])
    /\ UNCHANGED stores

\* ... and stores the final state.
WriteSlots(t) ==
    /\ Running(t, "write")
    /\ slots' = [slots EXCEPT ![ctx[t].session] = ctx[t].state]
    /\ Proceed(t, "plan", ctx[t])
    /\ UNCHANGED <<tasks, requests>>

----------------------------------------------------------------------------
(* Planning and the run_after_plan committers.                             *)

\* Seeded bug: the diff is taken before autofill.
PlansOfCommitted(t) ==
    BuildPlans(ActionNames(ctx[t].intents), ctx[t].state,
               Changed(ctx[t].before, Commit(ctx[t].before, ctx[t].batch)),
               ctx[t].task.active, ctx[t].catalog, ctx[t].dataset,
               QueryPlans(ctx[t], Mentions[ctx[t].message]))

PlansOf(t) ==
    BuildPlans(ActionNames(ctx[t].intents), ctx[t].state,
               Changed(ctx[t].before, ctx[t].state), ctx[t].task.active,
               ctx[t].catalog, ctx[t].dataset,
               QueryPlans(ctx[t], Mentions[ctx[t].message]))

Plan(t) ==
    /\ Running(t, "plan")
    /\ \E p \in PlansOf(t) : Answer(t, [ctx[t] EXCEPT !.plan = p])
    /\ UNCHANGED stores

\* No candidates for a missing slot, or no index for an indicator.
PlanningFails(t) ==
    /\ Running(t, "plan")
    /\ PlansOf(t) = {}
    /\ Leave(t)
    /\ UNCHANGED stores

\* Seeded bug: clearing stores nothing instead of an empty context.
NextTaskContextOrNone(now, plan) ==
    CASE plan.kind = "context_clear" -> NoTask
      [] plan.kind = "clarify" /\ plan.task # NoTask -> [now EXCEPT !.pending = plan.task]
      [] plan.kind = "task" -> [pending |-> NoTask, active |-> plan.task]
      [] OTHER -> now

NextTaskContext(now, plan) ==
    CASE plan.kind = "context_clear" -> NoTaskContext
      [] plan.kind = "clarify" /\ plan.task # NoTask -> [now EXCEPT !.pending = plan.task]
      [] plan.kind = "task" -> [pending |-> NoTask, active |-> plan.task]
      [] OTHER -> now

\* TaskContextCommitterStep reads the store again; its artifacts are not
\* read afterwards.
SaveTaskContext(t) ==
    /\ Running(t, "save_task")
    /\ LET s == ctx[t].session
       IN  tasks' = [tasks EXCEPT ![s] = NextTaskContext(@, ctx[t].plan)]
    /\ Proceed(t, "save_request", ctx[t])
    /\ UNCHANGED <<slots, requests>>

\* Seeded bugs: one kind of plan is forgotten.
FinishesButForClear(plan) ==
    \/ plan.kind = "task"
    \/ plan.kind = "clarify" /\ plan.task # NoTask

FinishesButForTask(plan) ==
    \/ plan.kind = "context_clear"
    \/ plan.kind = "clarify" /\ plan.task # NoTask

FinishesRequest(plan) ==
    \/ plan.kind \in {"context_clear", "task"}
    \/ plan.kind = "clarify" /\ plan.task # NoTask

\* What the turn with context c makes of its session's pending request.
NextRequest(now, c) ==
    IF c.drop \/ FinishesRequest(c.plan) THEN NoRequest
    ELSE IF c.request # NoRequest THEN c.request
    ELSE now

\* PendingObservationRequestCommitterStep, then the response.
SavePendingRequest(t) ==
    /\ Running(t, "save_request")
    /\ LET s == ctx[t].session
       IN  requests' = [requests EXCEPT ![s] = NextRequest(@, ctx[t])]
    /\ Leave(t)
    /\ UNCHANGED <<slots, tasks>>

----------------------------------------------------------------------------
Step(t) ==
    \/ LoadTaskContext(t) \/ LoadPendingRequest(t) \/ LoadCatalog(t)
    \/ PreRecognize(t) \/ CallRecognizer(t)
    \/ InferIndicator(t) \/ NormalizeResolverQuery(t) \/ ResolveSlots(t)
    \/ ValidateSlots(t) \/ CommitSlots(t) \/ Autofill(t) \/ WriteSlots(t)
    \/ Plan(t) \/ PlanningFails(t) \/ SaveTaskContext(t) \/ SavePendingRequest(t)

\* The recognizer answers the turn's call, one way or the other.
RecognizerReturns(t) ==
    RecognizerFails(t) \/ \E d \in Readings[ctx[t].message] : Recognized(t, d)

\* What may happen to a turn.
TurnNext(t) ==
    \/ \E s \in Sessions, m \in Messages, d \in Workspaces : Arrive(t, s, m, d)
    \/ Step(t)
    \/ RecognizerReturns(t)
    \/ Suspend(t) \/ Resume(t) \/ GatewayFails(t)

Next == \E t \in Turns : TurnNext(t)

Spec == Init /\ [][Next]_vars

\* The loop runs what is ready, in FIFO order: a turn whose call has returned
\* is resumed though others keep arriving (strong fairness), and a gateway
\* call is not suspended for ever.
Fairness ==
    \A t \in Turns : /\ SF_vars(Step(t))
                     /\ SF_vars(RecognizerReturns(t) \/ Resume(t))

FairSpec == Spec /\ Fairness
=============================================================================
