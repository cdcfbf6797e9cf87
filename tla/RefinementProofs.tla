-------------------------- MODULE RefinementProofs --------------------------
(***************************************************************************)
(* The turn pipeline implements AtomicTurns, for any deployment, sessions, *)
(* turns and messages: over a gateway that does not suspend turns, and     *)
(* over any gateway while no session has two turns in flight.  Every step  *)
(* is the client's step that its kind suggests, or none.  The proof needs  *)
(* that the turn that moves is the only one of its session past its        *)
(* recognition, and that the session still holds what it found there.      *)
(***************************************************************************)
EXTENDS TurnRefinement, ConversationProofs

----------------------------------------------------------------------------
(* The abstract module's data are those of the pipeline.                   *)

LEMMA SameData ==
    /\ Client!NoSlots = NoSlots /\ Client!Plans = Plans /\ Client!Requests = Requests
    /\ Client!NoTaskContext = NoTaskContext /\ Client!NoPlan = NoPlan
    /\ Client!Slots = Slots
    /\ \A n \in Slots : Client!LoadedCatalog(TRUE)[n] = LoadedCatalog(TRUE)[n]
    /\ \A a, b : Client!Changed(a, b) = Changed(a, b)
    /\ Client!Free = [phase |-> "idle", session |-> Blank.session,
                      seen |-> NoRequest, answer |-> NoPlan]
<1>1. Client!Slots = Slots
  BY DEF Client!Slots, Slots, Client!MultiSlots, MultiSlots
<1>2. Client!Values = Values
  BY DEF Client!Values, Values
<1>3. Client!Plans = Plans /\ Client!Requests = Requests
  BY <1>1, <1>2 DEF Client!Plans, Plans, Client!Requests, Requests
<1>4. Client!NoSlots = NoSlots /\ Client!NoTaskContext = NoTaskContext /\ Client!NoPlan = NoPlan
  BY <1>1 DEF Client!NoSlots, NoSlots, Client!NoTaskContext, NoTaskContext, Client!NoPlan,
              NoPlan, Client!MakePlan, MakePlan
<1>5. ASSUME NEW n \in Slots
      PROVE  Client!LoadedCatalog(TRUE)[n] = LoadedCatalog(TRUE)[n]
  BY <1>1 DEF Client!LoadedCatalog, LoadedCatalog, Client!DomainsOf, DomainsOf,
              Client!RowsFor, RowsFor
<1>6. \A a, b : Client!Changed(a, b) = Changed(a, b)
  BY <1>1 DEF Client!Changed, Changed
<1>7. Client!Free = [phase |-> "idle", session |-> Blank.session,
                     seen |-> NoRequest, answer |-> NoPlan]
  BY <1>4 DEF Client!Free, Blank
<1> QED
  BY <1>1, <1>3, <1>4, <1>5, <1>6, <1>7

----------------------------------------------------------------------------
(* Facts about the planner and the inference step.                         *)

\* A plan names a missing slot's task, or a task to run, or none.
PlanShape(p) == p.reason = "missing_slots" <=> p.kind = "clarify" /\ p.task # NoTask

\* The reasons for which the planner asks back.
LEMMA BuiltShape ==
    ASSUME NEW names, NEW state, NEW changed, NEW active, NEW cat, NEW w,
           NEW answers \in SUBSET {QueryReply, QueryClarify},
           NEW p \in BuildPlans(names, state, changed, active, cat, w, answers)
    PROVE  /\ PlanShape(p) /\ p.reason \notin {"invalid_slots", "ambiguous_slots"}
           /\ p.kind = "context_update" => changed # {}
           /\ p.reason = "missing_slots" => p.task \in Tasks /\ Missing(p.task, state) # {}
<1>1. Matched(names) \subseteq Tasks /\ Continued(names, changed, active) \subseteq Tasks
  BY DEF Matched, Continued
<1>2. \/ p \in {QueryReply, QueryClarify, MakePlan("context_clear", "", NoTask, changed),
                MakePlan("reply", "", NoTask, changed), MakePlan("reply", "", NoTask, {})}
      \/ changed # {} /\ p = MakePlan("context_update", "", NoTask, changed)
      \/ \E t \in Tasks : p \in TaskPlans(t, state, cat, w, changed)
  BY <1>1 DEF BuildPlans
<1>3. ASSUME NEW t \in Tasks, p \in TaskPlans(t, state, cat, w, changed)
      PROVE  \/ Missing(t, state) # {} /\ p = MakePlan("clarify", "missing_slots", t, changed)
             \/ p = MakePlan("task", "", t, changed)
  BY <1>3 DEF TaskPlans
<1>4. \A t \in Tasks : t # NoTask
  BY ObservationAssumption
<1>5. ASSUME changed # {}, p = MakePlan("context_update", "", NoTask, changed)
      PROVE  PlanShape(p) /\ p.reason = "" /\ p.kind = "context_update"
  BY <1>5 DEF MakePlan, PlanShape
<1>6. ASSUME NEW t \in Tasks, p \in TaskPlans(t, state, cat, w, changed)
      PROVE  /\ PlanShape(p) /\ p.reason \notin {"invalid_slots", "ambiguous_slots"}
             /\ p.kind = "context_update" => changed # {}
             /\ p.reason = "missing_slots" => p.task \in Tasks /\ Missing(p.task, state) # {}
  <2>1. ASSUME Missing(t, state) # {}, p = MakePlan("clarify", "missing_slots", t, changed)
        PROVE  p.kind = "clarify" /\ p.reason = "missing_slots" /\ p.task = t
    BY <2>1 DEF MakePlan
  <2>2. ASSUME p = MakePlan("task", "", t, changed)
        PROVE  p.kind = "task" /\ p.reason = ""
    BY <2>2 DEF MakePlan
  <2> QED
    BY <1>3, <1>4, <1>6, <2>1, <2>2 DEF PlanShape
<1>7. ASSUME NEW ch, NEW k \in {"reply", "clarify", "context_clear"},
             NEW r \in {"", "ambiguous_intent"}, p = MakePlan(k, r, NoTask, ch)
      PROVE  PlanShape(p) /\ p.reason \in {"", "ambiguous_intent"} /\ p.kind # "context_update"
  BY <1>7 DEF MakePlan, PlanShape
<1>8. ASSUME p \in {QueryReply, QueryClarify, MakePlan("context_clear", "", NoTask, changed),
                    MakePlan("reply", "", NoTask, changed), MakePlan("reply", "", NoTask, {})}
      PROVE  PlanShape(p) /\ p.reason \in {"", "ambiguous_intent"} /\ p.kind # "context_update"
  BY <1>7, <1>8 DEF QueryReply, QueryClarify
<1> QED
  BY <1>2, <1>5, <1>6, <1>8

\* The inference step raises a request only with the question it asks.
LEMMA InferShape ==
    ASSUME NEW is, NEW r, NEW cat, NEW said, NEW bare, NEW w
    PROVE  LET o == Infer(is, r, cat, said, bare, w)
           IN  /\ o.plan = NoPlan => o.raised = NoRequest
               /\ o.plan # NoPlan => o.plan = MakePlan("clarify", "ambiguous_slots", NoTask, {})
BY DEF Infer, NoPlan, MakePlan

----------------------------------------------------------------------------
(* What the refinement mapping needs of a turn.                            *)

Idle == {"idle", "recognizing"}

\* An idle turn slot is blank, a turn not yet answered has no plan, and while
\* it is planned its session holds its slots.
Mapped(t) ==
    /\ pc[t] = "idle" => ctx[t] = Blank
    /\ Phase(t) = "open" => ctx[t].plan = NoPlan
    /\ pc[t] = "plan" => SlotsOf(t) = ctx[t].state

MapInv == \A t \in Turns : Mapped(t)

\* No other turn of session s is past its recognizer call.
Apart(t, s) == \A u \in Turns \ {t} : pc[u] \in Idle \/ ctx[u].session # s

\* A turn in flight is the only one of its session to be so.
Alone(t) == pc[t] # "idle" => Apart(t, ctx[t].session)

\* The loop of a gateway that blocks has room for one turn ...
LEMMA AloneOnLoop ==
    ASSUME ~AsyncGateway, TypeOK, TurnInv, NEW t \in Turns, TurnNext(t)
    PROVE  /\ \A u \in Turns \ {t} : pc[u] \in Idle
           /\ Alone(t)
<1>1. ASSUME NEW u \in Turns \ {t}
      PROVE  pc[u] \in Idle
  <2>1. loop # u
    BY MoverHasLoop, TurnsAssumption
  <2>2. OnLoop(u)
    BY DEF TurnInv, TurnOK
  <2> QED
    BY <2>1, <2>2 DEF OnLoop, Idle
<1> QED
  BY <1>1 DEF Alone, Apart

\* ... and so has a session whose turns come one after the other.
LEMMA AloneInSession ==
    ASSUME OneAtATime, NEW t \in Turns
    PROVE  Alone(t)
BY DEF OneAtATime, Alone, Apart, Idle

\* Going on with the same plan keeps what is said of the turn.
LEMMA ProceedMapped ==
    ASSUME TypeOK, NEW t \in Turns,
           NEW step \in Steps \ {"idle", "plan", "save_task", "save_request"}, NEW c,
           Proceed(t, step, c), c.plan = NoPlan
    PROVE  Mapped(t)'
BY DEF TypeOK, Proceed, Goto, Mapped, Phase, Steps

\* An answered turn has nothing to keep.
LEMMA AnswerMapped ==
    ASSUME TypeOK, NEW t \in Turns, NEW step \in {"save_task", "save_request"},
           NEW c, Proceed(t, step, c)
    PROVE  Mapped(t)'
BY DEF TypeOK, Proceed, Goto, Mapped, Phase

\* A turn that ends leaves its slot blank.
LEMMA LeaveMapped ==
    ASSUME TypeOK, NEW t \in Turns, Leave(t)
    PROVE  Mapped(t)'
BY DEF TypeOK, Leave, Goto, Mapped, Phase

\* Every action of a turn keeps what is said of it.
LEMMA MoverMapped ==
    ASSUME TypeOK, MapInv, NEW t \in Turns, TurnNext(t)
    PROVE  Mapped(t)'
<1> USE DEF Running
<1>a. ctx[t] \in Contexts /\ Mapped(t)
  BY DEF TypeOK, MapInv
<1>1. ASSUME NEW s \in Sessions, NEW m \in Messages, NEW d \in Workspaces, Arrive(t, s, m, d)
      PROVE  Mapped(t)'
  <2>1. Blank.plan = NoPlan /\ ctx[t] = Blank
    BY <1>1, <1>a DEF Arrive, Mapped, Blank
  <2> DEFINE c == [ctx[t] EXCEPT !.session = s, !.message = m, !.dataset = d]
  <2>2. c.plan = NoPlan
    BY <2>1, <1>a DEF Contexts
  <2>3. Proceed(t, "load_task", c)
    BY <1>1 DEF Arrive
  <2> HIDE DEF c
  <2> QED
    BY <2>2, <2>3, ProceedMapped DEF Steps
<1>2. CASE \/ LoadTaskContext(t) \/ LoadPendingRequest(t) \/ LoadCatalog(t) \/ PreRecognize(t)
           \/ NormalizeResolverQuery(t) \/ ResolveSlots(t) \/ CommitSlots(t) \/ Autofill(t)
  <2>1. ctx[t].plan = NoPlan
    BY <1>2, <1>a DEF Mapped, Phase, LoadTaskContext, LoadPendingRequest, LoadCatalog,
       PreRecognize, NormalizeResolverQuery, ResolveSlots, CommitSlots, Autofill
  <2>2. \E step \in Steps \ {"idle", "plan", "save_task", "save_request"} : \E c :
           Proceed(t, step, c) /\ c.plan = ctx[t].plan
    <3>1. CASE LoadTaskContext(t)
      BY <3>1, <1>a DEF LoadTaskContext, Contexts, Steps
    <3>2. CASE LoadPendingRequest(t)
      BY <3>2, <1>a DEF LoadPendingRequest, Contexts, Steps
    <3>3. CASE LoadCatalog(t)
      BY <3>3, <1>a DEF LoadCatalog, Contexts, Steps
    <3>4. CASE PreRecognize(t)
      BY <3>4, <1>a DEF PreRecognize, Contexts, Steps
    <3>5. CASE NormalizeResolverQuery(t)
      BY <3>5, <1>a DEF NormalizeResolverQuery, Contexts, Steps
    <3>6. CASE ResolveSlots(t)
      BY <3>6, <1>a DEF ResolveSlots, Contexts, Steps
    <3>7. CASE CommitSlots(t)
      <4>1. PICK now, new :
               Proceed(t, "autofill", [ctx[t] EXCEPT !.before = now, !.state = new])
        BY <3>7 DEF CommitSlots
      <4> DEFINE c == [ctx[t] EXCEPT !.before = now, !.state = new]
      <4>2. c.plan = ctx[t].plan
        BY <1>a DEF Contexts
      <4>3. Proceed(t, "autofill", c)
        BY <4>1
      <4> HIDE DEF c
      <4> QED
        BY <4>2, <4>3 DEF Steps
    <3>8. CASE Autofill(t)
      <4>1. PICK st : Proceed(t, "write", [ctx[t] EXCEPT !.state = st])
        BY <3>8 DEF Autofill
      <4> DEFINE c == [ctx[t] EXCEPT !.state = st]
      <4>2. c.plan = ctx[t].plan
        BY <1>a DEF Contexts
      <4>3. Proceed(t, "write", c)
        BY <4>1
      <4> HIDE DEF c
      <4> QED
        BY <4>2, <4>3 DEF Steps
    <3> QED
      BY <1>2, <3>1, <3>2, <3>3, <3>4, <3>5, <3>6, <3>7, <3>8
  <2> QED
    BY <2>1, <2>2, ProceedMapped
<1>3. CASE CallRecognizer(t)
  BY <1>3, <1>a DEF CallRecognizer, Goto, TypeOK, Mapped, Phase
<1>4. ASSUME NEW d, Recognized(t, d)
      PROVE  Mapped(t)'
  <2>1. ctx[t].plan = NoPlan
    BY <1>4, <1>a DEF Mapped, Phase, Recognized
  <2> DEFINE c == [ctx[t] EXCEPT !.intents = NormalizeQueries(d.intents)]
  <2>2. c.plan = NoPlan
    BY <2>1, <1>a DEF Contexts
  <2>3. Proceed(t, "infer", c) \/ \E e : Answer(t, e)
    BY <1>4 DEF Recognized
  <2> HIDE DEF c
  <2> QED
    BY <2>2, <2>3, ProceedMapped, AnswerMapped DEF Answer, Steps
<1>5. CASE InferIndicator(t)
  <2>1. PICK c : (c.plan = NoPlan /\ Proceed(t, "normalize", c)) \/ Answer(t, c)
    <3> DEFINE r == Infer(ctx[t].intents, ctx[t].request, ctx[t].catalog,
                          Mentions[ctx[t].message], ctx[t].message \in Bare, ctx[t].dataset)
               e == [ctx[t] EXCEPT !.intents = r.intents, !.drop = r.drop, !.plan = r.plan,
                                   !.request = IF r.raised = NoRequest THEN @ ELSE r.raised]
    <3>1. (r.plan = NoPlan /\ Proceed(t, "normalize", e)) \/ Answer(t, e)
      BY <1>5 DEF InferIndicator
    <3> HIDE DEF r
    <3>2. e.plan = r.plan
      BY <1>a DEF Contexts
    <3> HIDE DEF e
    <3> QED
      BY <3>1, <3>2
  <2> QED
    BY <2>1, ProceedMapped, AnswerMapped DEF Answer, Steps
<1>6. CASE ValidateSlots(t)
  <2>1. ctx[t].plan = NoPlan
    BY <1>6, <1>a DEF Mapped, Phase, ValidateSlots
  <2>2. Proceed(t, "commit", ctx[t]) \/ (\E e : Answer(t, e)) \/ Leave(t)
    BY <1>6 DEF ValidateSlots
  <2> QED
    BY <2>1, <2>2, ProceedMapped, AnswerMapped, LeaveMapped DEF Answer, Steps
<1>7. CASE WriteSlots(t)
  <2>1. ctx[t].plan = NoPlan /\ ctx[t].session \in Sessions
    BY <1>7, <1>a DEF Mapped, Phase, WriteSlots, Contexts
  <2>2. pc'[t] = "plan" /\ ctx'[t] = ctx[t] /\ slots'[ctx[t].session] = ctx[t].state
    BY <1>7, <2>1 DEF WriteSlots, Proceed, Goto, TypeOK
  <2> QED
    BY <2>1, <2>2 DEF Mapped, Phase, SlotsOf
<1>8. CASE Plan(t) \/ SaveTaskContext(t)
  BY <1>8, AnswerMapped DEF Plan, Answer, SaveTaskContext
<1>9. CASE PlanningFails(t) \/ SavePendingRequest(t) \/ GatewayFails(t) \/ RecognizerFails(t)
  BY <1>9, LeaveMapped DEF PlanningFails, SavePendingRequest, GatewayFails, RecognizerFails
<1>10. CASE Suspend(t) \/ Resume(t)
  BY <1>10, <1>a DEF Suspend, Resume, Mapped, Phase, SlotsOf, stores
<1> QED
  BY <1>1, <1>2, <1>3, <1>4, <1>5, <1>6, <1>7, <1>8, <1>9, <1>10
  DEF TurnNext, Step, RecognizerReturns

\* The invariant is inductive, if the gateway does not suspend turns ...
LEMMA MapInvNext ==
    ASSUME ~AsyncGateway, TypeOK, TurnInv, MapInv, [Next]_vars
    PROVE  MapInv'
<1>1. CASE UNCHANGED vars
  BY <1>1 DEF vars, MapInv, Mapped, Phase, SlotsOf
<1>2. CASE Next
  <2>1. PICK t \in Turns : TurnNext(t)
    BY <1>2 DEF Next
  <2>2. Mapped(t)' /\ \A u \in Turns \ {t} : pc[u] \in Idle
    BY <2>1, MoverMapped, AloneOnLoop
  <2>3. ASSUME NEW u \in Turns \ {t}
        PROVE  Mapped(u)'
    <3>1. pc'[u] = pc[u] /\ ctx'[u] = ctx[u] /\ Mapped(u) /\ pc'[u] \in Idle
      BY <2>1, <2>2, OneTurnMoves DEF MapInv
    <3> QED
      BY <3>1 DEF Mapped, Phase, Idle
  <2> QED
    BY <2>2, <2>3 DEF MapInv
<1> QED
  BY <1>1, <1>2

\* ... or the turns of a session come one after the other.
LEMMA MapInvNextInSession ==
    ASSUME OneAtATime, TypeOK, MapInv, [Next]_vars
    PROVE  MapInv'
<1>1. CASE UNCHANGED vars
  BY <1>1 DEF vars, MapInv, Mapped, Phase, SlotsOf
<1>2. CASE Next
  <2>1. PICK t \in Turns : TurnNext(t)
    BY <1>2 DEF Next
  <2>2. Mapped(t)'
    BY <2>1, MoverMapped
  <2>3. ASSUME NEW u \in Turns \ {t}
        PROVE  Mapped(u)'
    <3>1. pc'[u] = pc[u] /\ ctx'[u] = ctx[u] /\ Mapped(u)
      BY <2>1, OneTurnMoves DEF MapInv
    <3>2. pc[u] # "idle" => SlotsOf(u)' = SlotsOf(u)
      BY <2>1, <3>1, OthersKeep DEF SlotsOf
    <3> QED
      BY <3>1, <3>2 DEF Mapped, Phase
  <2> QED
    BY <2>2, <2>3 DEF MapInv
<1> QED
  BY <1>1, <1>2

----------------------------------------------------------------------------
(* The client's view of a step of turn t of session s.                     *)

Home(t, s) ==
    /\ pc[t] # "idle" => ctx[t].session = s
    /\ pc'[t] # "idle" => ctx'[t].session = s

StoresElsewhere(s) ==
    \A x \in Sessions \ {s} :
        slots'[x] = slots[x] /\ tasks'[x] = tasks[x] /\ requests'[x] = requests[x]

\* The view of session s is made by turn t alone ...
SeenHere(t, s) ==
    /\ ClientSlots[s] = IF pc[t] = "plan" THEN ctx[t].before ELSE slots[s]
    /\ ClientTasks[s] = IF pc[t] = "save_task" THEN NextTaskContext(tasks[s], ctx[t].plan)
                        ELSE tasks[s]
    /\ ClientRequests[s] = IF pc[t] \in {"save_task", "save_request"}
                           THEN NextRequest(requests[s], ctx[t]) ELSE requests[s]

LEMMA HereIsSeen ==
    ASSUME NEW t \in Turns, NEW s \in Sessions, Apart(t, s), pc[t] # "idle" => ctx[t].session = s
    PROVE  SeenHere(t, s)
<1>1. ASSUME NEW steps, steps \cap Idle = {}
      PROVE  At(s, steps) = IF pc[t] \in steps THEN {t} ELSE {}
  BY <1>1 DEF Apart, At, Idle
<1>2. The({t}) = t
  BY DEF The
<1>3. /\ At(s, {"plan"}) = IF pc[t] = "plan" THEN {t} ELSE {}
      /\ At(s, {"save_task"}) = IF pc[t] = "save_task" THEN {t} ELSE {}
      /\ At(s, {"save_task", "save_request"}) =
            IF pc[t] \in {"save_task", "save_request"} THEN {t} ELSE {}
  BY <1>1 DEF Idle
<1>4. ClientSlots[s] = IF pc[t] = "plan" THEN ctx[t].before ELSE slots[s]
  BY <1>2, <1>3 DEF ClientSlots
<1>5. ClientTasks[s] = IF pc[t] = "save_task" THEN NextTaskContext(tasks[s], ctx[t].plan)
                       ELSE tasks[s]
  BY <1>2, <1>3 DEF ClientTasks
<1>6. ClientRequests[s] = IF pc[t] \in {"save_task", "save_request"}
                          THEN NextRequest(requests[s], ctx[t]) ELSE requests[s]
  BY <1>2, <1>3 DEF ClientRequests
<1> QED
  BY <1>4, <1>5, <1>6 DEF SeenHere

\* ... before the step and after it ...
LEMMA HereIsSeenNext ==
    (\A t \in Turns, s \in Sessions :
        Apart(t, s) /\ (pc[t] # "idle" => ctx[t].session = s) => SeenHere(t, s))'
<1>1. \A t \in Turns, s \in Sessions :
         Apart(t, s) /\ (pc[t] # "idle" => ctx[t].session = s) => SeenHere(t, s)
  BY HereIsSeen
<1> QED
  BY <1>1, PTL

LEMMA ViewsAreFunctions ==
    /\ ClientSlots = [x \in Sessions |-> ClientSlots[x]]
    /\ ClientTasks = [x \in Sessions |-> ClientTasks[x]]
    /\ ClientRequests = [x \in Sessions |-> ClientRequests[x]]
    /\ ClientSlots' = [x \in Sessions |-> ClientSlots'[x]]
    /\ ClientTasks' = [x \in Sessions |-> ClientTasks'[x]]
    /\ ClientRequests' = [x \in Sessions |-> ClientRequests'[x]]
BY DEF ClientSlots, ClientTasks, ClientRequests

LEMMA Override ==
    ASSUME NEW S, NEW s \in S, NEW f, f = [x \in S |-> f[x]], NEW g, g = [x \in S |-> g[x]]
    PROVE  /\ (\A x \in S \ {s} : g[x] = f[x]) => g = [f EXCEPT ![s] = g[s]]
           /\ g = [f EXCEPT ![s] = g[s]] /\ g[s] = f[s] => g = f
OBVIOUS

\* A session looks the same after a step that neither turns it has answered
\* or planned nor its stores are touched by.
SameTurns(x) ==
    /\ \A steps \in {{"plan"}, {"save_task"}, {"save_task", "save_request"}} :
          /\ At(x, steps)' = At(x, steps)
          /\ \A u \in At(x, steps) : ctx'[u] = ctx[u]
    /\ slots'[x] = slots[x] /\ tasks'[x] = tasks[x] /\ requests'[x] = requests[x]

LEMMA SameTurnsSeen ==
    ASSUME NEW x \in Sessions, SameTurns(x)
    PROVE  /\ ClientSlots'[x] = ClientSlots[x] /\ ClientTasks'[x] = ClientTasks[x]
           /\ ClientRequests'[x] = ClientRequests[x]
<1>1. slots'[x] = slots[x] /\ tasks'[x] = tasks[x] /\ requests'[x] = requests[x]
  BY DEF SameTurns
<1>2. ASSUME NEW A, A # {}
      PROVE  The(A) \in A
  BY <1>2 DEF The
<1>3. ClientSlots'[x] = ClientSlots[x]
  <2>1. PICK A : A = At(x, {"plan"})
    OBVIOUS
  <2>2. At(x, {"plan"})' = A /\ \A u \in A : ctx'[u] = ctx[u]
    BY <2>1 DEF SameTurns
  <2>3. /\ ClientSlots[x] = IF A = {} THEN slots[x] ELSE ctx[The(A)].before
        /\ ClientSlots'[x] = IF A = {} THEN slots'[x] ELSE ctx'[The(A)].before
    BY <2>1, <2>2 DEF ClientSlots
  <2> QED
    BY <1>1, <1>2, <2>2, <2>3
<1>4. ClientTasks'[x] = ClientTasks[x]
  <2>1. PICK A : A = At(x, {"save_task"})
    OBVIOUS
  <2>2. At(x, {"save_task"})' = A /\ \A u \in A : ctx'[u] = ctx[u]
    BY <2>1 DEF SameTurns
  <2>3. /\ ClientTasks[x] = IF A = {} THEN tasks[x]
                            ELSE NextTaskContext(tasks[x], ctx[The(A)].plan)
        /\ ClientTasks'[x] = IF A = {} THEN tasks'[x]
                             ELSE NextTaskContext(tasks'[x], ctx'[The(A)].plan)
    BY <2>1, <2>2 DEF ClientTasks
  <2> QED
    BY <1>1, <1>2, <2>2, <2>3
<1>5. ClientRequests'[x] = ClientRequests[x]
  <2>1. PICK A : A = At(x, {"save_task", "save_request"})
    OBVIOUS
  <2>2. At(x, {"save_task", "save_request"})' = A /\ \A u \in A : ctx'[u] = ctx[u]
    BY <2>1 DEF SameTurns
  <2>3. /\ ClientRequests[x] = IF A = {} THEN requests[x]
                               ELSE NextRequest(requests[x], ctx[The(A)])
        /\ ClientRequests'[x] = IF A = {} THEN requests'[x]
                                ELSE NextRequest(requests'[x], ctx'[The(A)])
    BY <2>1, <2>2 DEF ClientRequests
  <2> QED
    BY <1>1, <1>2, <2>2, <2>3
<1> QED
  BY <1>3, <1>4, <1>5

\* ... and the view of the other sessions is not disturbed.
SeenElsewhere(s) ==
    /\ ClientSlots' = [ClientSlots EXCEPT ![s] = ClientSlots'[s]]
    /\ ClientTasks' = [ClientTasks EXCEPT ![s] = ClientTasks'[s]]
    /\ ClientRequests' = [ClientRequests EXCEPT ![s] = ClientRequests'[s]]

LEMMA ElsewhereIsSeen ==
    ASSUME TypeOK, NEW t \in Turns, TurnNext(t), NEW s \in Sessions, Home(t, s),
           StoresElsewhere(s)
    PROVE  SeenElsewhere(s)
<1>1. ASSUME NEW x \in Sessions \ {s}, NEW steps, "idle" \notin steps
      PROVE  /\ At(x, steps)' = At(x, steps)
             /\ \A u \in At(x, steps) : ctx'[u] = ctx[u]
  <2>1. \A u \in Turns \ {t} : pc'[u] = pc[u] /\ ctx'[u] = ctx[u]
    BY OneTurnMoves
  <2>2. t \notin At(x, steps) /\ t \notin At(x, steps)'
    BY <1>1 DEF At, Home
  <2> QED
    BY <2>1, <2>2 DEF At
<1>2. ASSUME NEW x \in Sessions \ {s}
      PROVE  SameTurns(x)
  BY <1>1 DEF SameTurns, StoresElsewhere
<1>3. ClientSlots' = [ClientSlots EXCEPT ![s] = ClientSlots'[s]]
  BY <1>2, SameTurnsSeen, Override, ViewsAreFunctions
<1>4. ClientTasks' = [ClientTasks EXCEPT ![s] = ClientTasks'[s]]
  BY <1>2, SameTurnsSeen, Override, ViewsAreFunctions
<1>5. ClientRequests' = [ClientRequests EXCEPT ![s] = ClientRequests'[s]]
  BY <1>2, SameTurnsSeen, Override, ViewsAreFunctions
<1> QED
  BY <1>3, <1>4, <1>5 DEF SeenElsewhere

\* Together, with s the session of the turn.
View(t, s) == SeenHere(t, s) /\ SeenHere(t, s)' /\ SeenElsewhere(s)

LEMMA ViewOfStep ==
    ASSUME TypeOK, NEW t \in Turns, TurnNext(t), NEW s \in Sessions, Home(t, s), Apart(t, s),
           StoresElsewhere(s)
    PROVE  View(t, s)
<1>1. Apart(t, s)'
  BY OneTurnMoves DEF Apart
<1>2. SeenHere(t, s)'
  BY <1>1, HereIsSeenNext DEF Home
<1> QED
  BY <1>2, HereIsSeen, ElsewhereIsSeen DEF View, Home

\* The client finds everything as it was if it finds session s so.
LEMMA SameView ==
    ASSUME NEW s \in Sessions, SeenElsewhere(s)
    PROVE  /\ ClientSlots'[s] = ClientSlots[s] => ClientSlots' = ClientSlots
           /\ ClientTasks'[s] = ClientTasks[s] => ClientTasks' = ClientTasks
           /\ ClientRequests'[s] = ClientRequests[s] => ClientRequests' = ClientRequests
BY Override, ViewsAreFunctions DEF SeenElsewhere

\* To the client, too, a step moves one turn.
LEMMA OneClientTurnMoves ==
    ASSUME TypeOK, NEW t \in Turns, TurnNext(t)
    PROVE  /\ ClientTurns' = [ClientTurns EXCEPT ![t] = ClientTurn(t)']
           /\ ClientTurns[t] = ClientTurn(t) /\ ClientTurns'[t] = ClientTurn(t)'
<1>1. \A u \in Turns \ {t} : ClientTurn(u)' = ClientTurn(u)
  BY OneTurnMoves DEF ClientTurn, Phase
<1> QED
  BY <1>1 DEF ClientTurns

----------------------------------------------------------------------------
(* The steps of the client.                                                *)

Unseen == UNCHANGED <<ClientSlots, ClientTasks, ClientRequests, ClientTurns>>

\* A step that stores nothing and gives no answer leaves the client's view of
\* the stores as it was.
LEMMA StoresStay ==
    ASSUME TypeOK, NEW t \in Turns, NEW s \in Sessions, View(t, s), UNCHANGED stores,
           pc[t] \notin {"plan", "save_task", "save_request"},
           pc'[t] \notin {"plan", "save_task", "save_request"}
    PROVE  UNCHANGED <<ClientSlots, ClientTasks, ClientRequests>>
<1>1. slots' = slots /\ tasks' = tasks /\ requests' = requests
  BY DEF stores
<1>2. ClientSlots[s] = slots[s] /\ ClientTasks[s] = tasks[s] /\ ClientRequests[s] = requests[s]
  BY DEF View, SeenHere
<1>3. /\ ClientSlots'[s] = slots'[s] /\ ClientTasks'[s] = tasks'[s]
      /\ ClientRequests'[s] = requests'[s]
  BY DEF View, SeenHere
<1> QED
  BY <1>1, <1>2, <1>3, SameView DEF View

\* What is known when turn t, of session s, makes a step.
Scene(t, s) ==
    /\ TypeOK /\ OfferedInv /\ MapInv
    /\ TurnNext(t) /\ pc[t] # "idle" /\ s = ctx[t].session /\ Apart(t, s)

\* The view of a step that stores nothing and stays in its session.
LEMMA ViewInScene ==
    ASSUME NEW t \in Turns, NEW s, Scene(t, s), UNCHANGED stores,
           pc'[t] = "idle" \/ ctx'[t].session = ctx[t].session
    PROVE  View(t, s) /\ s \in Sessions
<1>1. s \in Sessions /\ TypeOK
  BY DEF Scene, TypeOK, Contexts
<1>2. Home(t, s)
  BY DEF Scene, Home
<1>3. StoresElsewhere(s)
  BY DEF stores, StoresElsewhere
<1> QED
  BY <1>1, <1>2, <1>3, ViewOfStep DEF Scene

\* Steps that store nothing and that the client does not see: the turn goes
\* on with the same session, pending request and (no) plan.
LEMMA QuietStep ==
    ASSUME NEW t \in Turns, NEW s, Scene(t, s), UNCHANGED stores,
           pc[t] \notin {"idle", "plan", "save_task", "save_request"},
           pc'[t] \notin {"idle", "plan", "save_task", "save_request"},
           ctx'[t].session = ctx[t].session, ctx'[t].request = ctx[t].request,
           ctx'[t].plan = ctx[t].plan
    PROVE  Unseen
<1>1. ClientTurn(t)' = ClientTurn(t)
  BY DEF ClientTurn, Phase
<1>2. ClientTurns' = ClientTurns
  BY <1>1, OneClientTurnMoves DEF ClientTurns, Scene
<1>3. UNCHANGED <<ClientSlots, ClientTasks, ClientRequests>>
  BY ViewInScene, StoresStay DEF Scene
<1> QED
  BY <1>2, <1>3 DEF Unseen

\* A turn that ends before it is answered has failed.
LEMMA FailStep ==
    ASSUME NEW t \in Turns, NEW s, Scene(t, s), UNCHANGED stores, Leave(t), Phase(t) = "open"
    PROVE  Client!Fail(t)
<1>1. ctx[t] \in Contexts /\ TypeOK /\ pc[t] \notin {"idle", "save_task", "save_request"}
  BY DEF Scene, TypeOK, Phase
<1>2. pc'[t] = "idle" /\ ctx'[t] = Blank
  BY <1>1 DEF TypeOK, Leave, Goto
<1>3. ClientTurn(t)' = Client!Free
  BY <1>2, SameData DEF ClientTurn, Phase, Blank
<1>4. slots' = slots /\ tasks' = tasks /\ requests' = requests
  BY DEF stores
<1>5. View(t, s) /\ s \in Sessions
  BY <1>2, ViewInScene
<1>6. ClientSlots'[s] = slots[s]
  BY <1>2, <1>4, <1>5 DEF View, SeenHere
<1>7. \A n \in Client!Slots : ClientSlots'[s][n] \subseteq Client!LoadedCatalog(TRUE)[n]
  BY <1>5, <1>6, SameData DEF Scene, OfferedInv, Offered
<1>8. Client!OnlySession(s)
  BY <1>5, <1>7 DEF View, SeenElsewhere, Client!OnlySession
<1>9. ClientTasks[s] = tasks[s] /\ ClientRequests[s] = requests[s]
  BY <1>1, <1>5 DEF View, SeenHere
<1>10. ClientTasks'[s] = tasks[s] /\ ClientRequests'[s] = requests[s]
  BY <1>2, <1>4, <1>5 DEF View, SeenHere
<1>11. ClientTasks' = ClientTasks /\ ClientRequests' = ClientRequests
  BY <1>5, <1>9, <1>10, SameView DEF View
<1>12. ClientTurns[t].phase = "open" /\ ClientTurns[t].session = s
  <2>1. ClientTurn(t).phase = "open" /\ ClientTurn(t).session = s
    BY DEF ClientTurn, Scene
  <2> QED
    BY <2>1, OneClientTurnMoves DEF Scene
<1>13. ClientTurns' = [ClientTurns EXCEPT ![t] = Client!Free]
  BY <1>3, OneClientTurnMoves DEF Scene
<1> QED
  BY <1>8, <1>11, <1>12, <1>13 DEF Client!Fail

\* A plan that says how the slots came about, as AtomicTurns asks for.
PlanFits(p, old, new) ==
    /\ p.kind \in {"task", "context_update", "context_clear"} \/ p.reason = "missing_slots"
          => p.changed = Changed(old, new)
    /\ p.reason \in {"invalid_slots", "ambiguous_slots"} => new = old
    /\ p.kind = "context_update" => new # old
    /\ p.kind = "task" => \A n \in RequiredSlots[p.task] : new[n] # {}
    /\ p.reason = "missing_slots" => \E n \in RequiredSlots[p.task] : new[n] = {}

\* A step that sets a plan answers the client.
LEMMA AnswerStep ==
    ASSUME NEW t \in Turns, NEW s, Scene(t, s), UNCHANGED stores, Phase(t) = "open",
           NEW c \in Contexts, Answer(t, c), c.session = s,
           c.request = ctx[t].request
              \/ (c.plan.reason = "ambiguous_slots" /\ c.request \in Requests),
           PlanShape(c.plan),
           PlanFits(c.plan, IF pc[t] = "plan" THEN ctx[t].before ELSE slots[s], slots[s])
    PROVE  Client!Answer(t)
<1>1. ctx[t] \in Contexts /\ TypeOK /\ pc[t] \notin {"idle", "save_task", "save_request"}
  BY DEF Scene, TypeOK, Phase
<1>2. pc'[t] = "save_task" /\ ctx'[t] = c
  BY <1>1 DEF TypeOK, Answer, Proceed, Goto
<1>3. slots' = slots /\ tasks' = tasks /\ requests' = requests
  BY DEF stores
<1> DEFINE p == c.plan
<1>4. p \in Plans
  BY DEF Contexts
<1>5. View(t, s) /\ s \in Sessions
  BY <1>2, ViewInScene DEF Scene
<1>6. /\ ClientTurns[t].phase = "open" /\ ClientTurns[t].session = s
      /\ ClientTurns[t].seen = ctx[t].request
  <2>1. /\ ClientTurn(t).phase = "open" /\ ClientTurn(t).session = s
        /\ ClientTurn(t).seen = ctx[t].request
    BY DEF ClientTurn, Scene
  <2> QED
    BY <2>1, OneClientTurnMoves DEF Scene
<1>7. /\ ClientTurns' = [ClientTurns EXCEPT ![t] = [phase |-> "answered", session |-> s,
                                                    seen |-> NoRequest, answer |-> p]]
      /\ ClientTurns'[t].answer = p
  <2>1. ClientTurn(t)' = [phase |-> "answered", session |-> s, seen |-> NoRequest, answer |-> p]
    BY <1>2 DEF ClientTurn, Phase
  <2> QED
    BY <2>1, OneClientTurnMoves DEF Scene
<1>8. /\ ClientSlots[s] = IF pc[t] = "plan" THEN ctx[t].before ELSE slots[s]
      /\ ClientTasks[s] = tasks[s] /\ ClientRequests[s] = requests[s]
  BY <1>1, <1>5 DEF View, SeenHere
<1>9. /\ ClientSlots'[s] = slots[s] /\ ClientTasks'[s] = NextTaskContext(tasks[s], p)
      /\ ClientRequests'[s] = NextRequest(requests[s], c)
  BY <1>2, <1>3, <1>5 DEF View, SeenHere
<1>10. Client!OnlySession(s)
  <2>1. \A n \in Client!Slots : ClientSlots'[s][n] \subseteq Client!LoadedCatalog(TRUE)[n]
    BY <1>5, <1>9, SameData DEF Scene, OfferedInv, Offered
  <2> QED
    BY <1>5, <2>1 DEF View, SeenElsewhere, Client!OnlySession
<1>11. Client!SlotsAsAnswered(p, ClientSlots[s], ClientSlots'[s])
  BY <1>8, <1>9, SameData DEF Client!SlotsAsAnswered, PlanFits
<1>12. Client!TasksAsAnswered(p, ClientTasks[s], ClientTasks'[s])
  <2> DEFINE old == tasks[s]
             new == NextTaskContext(old, p)
  <2>1. /\ p.kind = "task" => new = [pending |-> NoTask, active |-> p.task]
        /\ p.kind = "context_clear" => new = NoTaskContext
    BY DEF NextTaskContext
  <2>2. p.reason = "missing_slots" => new = [old EXCEPT !.pending = p.task]
    BY DEF NextTaskContext, PlanShape
  <2>3. p.kind \notin {"task", "context_clear"} /\ p.reason # "missing_slots" => new = old
    BY DEF NextTaskContext, PlanShape
  <2> HIDE DEF new, old
  <2>4. ClientTasks[s] = old /\ ClientTasks'[s] = new
    BY <1>8, <1>9 DEF old, new
  <2> HIDE DEF p
  <2> QED
    BY <2>1, <2>2, <2>3, <2>4, SameData DEF Client!TasksAsAnswered
<1>13. Client!QuestionAsAnswered(p, ctx[t].request, ClientRequests[s], ClientRequests'[s])
  <2> DEFINE new == NextRequest(requests[s], c)
  <2>1. p.kind \in {"task", "context_clear"} \/ p.reason = "missing_slots" => new = NoRequest
    BY DEF NextRequest, FinishesRequest, PlanShape
  <2>2. \/ new \in {NoRequest, ctx[t].request, requests[s]}
        \/ p.reason = "ambiguous_slots" /\ new \in Requests
    BY DEF NextRequest
  <2> HIDE DEF new
  <2>3. ClientRequests[s] = requests[s] /\ ClientRequests'[s] = new
    BY <1>8, <1>9 DEF new
  <2> HIDE DEF p
  <2> QED
    BY <2>1, <2>2, <2>3, SameData DEF Client!QuestionAsAnswered
<1> HIDE DEF p
<1>14. p \in Client!Plans
  BY <1>4, SameData
<1> QED
  BY <1>5, <1>6, <1>7, <1>10, <1>11, <1>12, <1>13, <1>14 DEF Client!Answer, View, SeenElsewhere

\* An answer before the slots are stored: it has found fault with the message.
LEMMA EarlyAnswerStep ==
    ASSUME TypeOK', NEW t \in Turns, NEW s, Scene(t, s), UNCHANGED stores,
           Phase(t) = "open", pc[t] # "plan",
           NEW c, Answer(t, c), c.session = s,
           c.plan.kind \in {"reply", "clarify"}, c.plan.task = NoTask,
           c.plan.reason \in {"", "ambiguous_intent", "ambiguous_slots", "invalid_slots"},
           c.request = ctx[t].request
              \/ (c.plan.reason = "ambiguous_slots" /\ c.request \in Requests)
    PROVE  Client!Answer(t)
<1>1. c \in Contexts
  BY DEF Scene, TypeOK, Answer, Proceed
<1>2. PlanShape(c.plan)
  BY DEF PlanShape
<1>3. PlanFits(c.plan, slots[s], slots[s])
  BY DEF PlanFits
<1> QED
  BY <1>1, <1>2, <1>3, AnswerStep

----------------------------------------------------------------------------
(* Every step of the pipeline is one of the client's, or none.             *)

\* A request is accepted.
LEMMA ArriveStep ==
    ASSUME TypeOK, MapInv, NEW t \in Turns, TurnNext(t),
           NEW s \in Sessions, NEW m \in Messages, NEW d \in Workspaces, Arrive(t, s, m, d)
    PROVE  Client!Accept(t, s)
<1> DEFINE c == [Blank EXCEPT !.session = s, !.message = m, !.dataset = d]
<1>1. pc[t] = "idle" /\ ctx[t] = Blank /\ UNCHANGED stores
  BY DEF MapInv, Mapped, Arrive
<1>2. pc'[t] = "load_task" /\ ctx'[t] = c
  BY <1>1 DEF TypeOK, Arrive, Proceed, Goto
<1>3. c.session = s /\ c.request = NoRequest /\ c.plan = NoPlan
  BY DEF Blank
<1> HIDE DEF c
<1>4. ClientTurn(t) = Client!Free
  BY <1>1, SameData DEF ClientTurn, Phase, Blank
<1>5. ClientTurn(t)' = [phase |-> "open", session |-> s, seen |-> NoRequest,
                        answer |-> NoPlan]
  <2>1. Phase(t)' = "open"
    BY <1>2 DEF Phase
  <2> QED
    BY <1>2, <1>3, <2>1 DEF ClientTurn
<1>6. UNCHANGED <<ClientSlots, ClientTasks, ClientRequests>>
  <2>1. ASSUME NEW x, NEW steps, steps \cap {"idle", "load_task"} = {}
        PROVE  /\ At(x, steps)' = At(x, steps)
               /\ \A u \in At(x, steps) : ctx'[u] = ctx[u]
    BY <1>1, <1>2, <2>1, OneTurnMoves DEF At
  <2>2. \A x \in Sessions : SameTurns(x)
    BY <1>1, <2>1 DEF SameTurns, stores
  <2> QED
    BY <2>2, SameTurnsSeen, ViewsAreFunctions
<1>7. /\ ClientTurns' = [ClientTurns EXCEPT ![t] = ClientTurn(t)']
      /\ ClientTurns[t] = ClientTurn(t)
  BY OneClientTurnMoves
<1> QED
  BY <1>4, <1>5, <1>6, <1>7, SameData DEF Client!Accept

\* The turn loads the open question.
LEMMA LookStep ==
    ASSUME NEW t \in Turns, NEW s, Scene(t, s), LoadPendingRequest(t)
    PROVE  Client!Look(t)
<1> DEFINE q == requests[s]
           c == [ctx[t] EXCEPT !.request = q]
<1>1. ctx[t] \in Contexts /\ pc[t] = "load_request" /\ UNCHANGED stores
  BY DEF Scene, TypeOK, LoadPendingRequest, Running
<1>2. pc'[t] = "catalog" /\ ctx'[t] = c
  BY DEF Scene, TypeOK, LoadPendingRequest, Proceed, Goto
<1>3. c.session = ctx[t].session /\ c.request = q /\ c.plan = ctx[t].plan
  BY <1>1 DEF Contexts
<1> HIDE DEF c
<1>4. View(t, s) /\ s \in Sessions /\ TypeOK
  BY <1>1, <1>2, <1>3, ViewInScene DEF Scene
<1>a. UNCHANGED <<ClientSlots, ClientTasks, ClientRequests>>
  BY <1>1, <1>2, <1>4, StoresStay
<1>5. ClientRequests[s] = q
  BY <1>1, <1>4 DEF View, SeenHere
<1>6. /\ ClientTurn(t).phase = "open" /\ ClientTurn(t).session = s
      /\ ClientTurn(t)' = [ClientTurn(t) EXCEPT !.seen = q]
  <2>1. Phase(t) = "open" /\ Phase(t)' = "open"
    BY <1>1, <1>2 DEF Phase
  <2> QED
    BY <1>2, <1>3, <2>1 DEF ClientTurn, Scene
<1>7. /\ ClientTurns' = [ClientTurns EXCEPT ![t] = ClientTurn(t)']
      /\ ClientTurns[t] = ClientTurn(t)
  BY OneClientTurnMoves DEF Scene
<1> HIDE DEF q
<1> QED
  BY <1>a, <1>5, <1>6, <1>7 DEF Client!Look

\* The steps on the way to the slots' storage.
LEMMA PassStep ==
    ASSUME NEW t \in Turns, NEW s, Scene(t, s),
           \/ LoadTaskContext(t) \/ LoadCatalog(t) \/ PreRecognize(t) \/ CallRecognizer(t)
           \/ NormalizeResolverQuery(t) \/ ResolveSlots(t) \/ CommitSlots(t) \/ Autofill(t)
    PROVE  Unseen
<1> USE DEF Running
<1>a. ctx[t] \in Contexts /\ TypeOK /\ UNCHANGED stores
  BY DEF Scene, TypeOK, LoadTaskContext, LoadCatalog, PreRecognize, CallRecognizer,
         NormalizeResolverQuery, ResolveSlots, CommitSlots, Autofill
<1>1. /\ pc[t] \notin {"idle", "plan", "save_task", "save_request"}
      /\ pc'[t] \notin {"idle", "plan", "save_task", "save_request"}
  BY <1>a DEF TypeOK, LoadTaskContext, LoadCatalog, PreRecognize, CallRecognizer,
         NormalizeResolverQuery, ResolveSlots, CommitSlots, Autofill, Proceed, Goto
<1>2. /\ ctx'[t].session = ctx[t].session /\ ctx'[t].request = ctx[t].request
      /\ ctx'[t].plan = ctx[t].plan
  <2>1. CASE LoadTaskContext(t)
    BY <2>1, <1>a DEF LoadTaskContext, Proceed, TypeOK, Contexts
  <2>2. CASE LoadCatalog(t)
    BY <2>2, <1>a DEF LoadCatalog, Proceed, TypeOK, Contexts
  <2>3. CASE PreRecognize(t)
    BY <2>3, <1>a DEF PreRecognize, Proceed, TypeOK, Contexts
  <2>4. CASE CallRecognizer(t)
    BY <2>4 DEF CallRecognizer
  <2>5. CASE NormalizeResolverQuery(t)
    BY <2>5, <1>a DEF NormalizeResolverQuery, Proceed, TypeOK, Contexts
  <2>6. CASE ResolveSlots(t)
    BY <2>6, <1>a DEF ResolveSlots, Proceed, TypeOK, Contexts
  <2>7. CASE CommitSlots(t)
    <3>1. PICK now, new : ctx'[t] = [ctx[t] EXCEPT !.before = now, !.state = new]
      BY <2>7, <1>a DEF CommitSlots, Proceed, TypeOK
    <3> QED
      BY <3>1, <1>a DEF Contexts
  <2>8. CASE Autofill(t)
    <3>1. PICK st : ctx'[t] = [ctx[t] EXCEPT !.state = st]
      BY <2>8, <1>a DEF Autofill, Proceed, TypeOK
    <3> QED
      BY <3>1, <1>a DEF Contexts
  <2> QED
    BY <2>1, <2>2, <2>3, <2>4, <2>5, <2>6, <2>7, <2>8
<1> QED
  BY <1>a, <1>1, <1>2, QuietStep DEF Scene

\* The recognizer's reading: clear enough, or answered with a question.
LEMMA RecognizedStep ==
    ASSUME NEW t \in Turns, NEW s, Scene(t, s), TypeOK', NEW d, Recognized(t, d)
    PROVE  Unseen \/ Client!Answer(t)
<1> DEFINE c == [ctx[t] EXCEPT !.intents = NormalizeQueries(d.intents)]
<1>1. /\ ctx[t] \in Contexts /\ TypeOK /\ UNCHANGED stores
      /\ pc[t] = "recognizing" /\ Phase(t) = "open"
  BY DEF Scene, TypeOK, Recognized, Phase
<1>2. c.session = ctx[t].session /\ c.request = ctx[t].request /\ c.plan = ctx[t].plan
  BY <1>1 DEF Contexts
<1>3. ASSUME NEW p
      PROVE  LET e == [c EXCEPT !.plan = p]
             IN  e.session = ctx[t].session /\ e.request = ctx[t].request /\ e.plan = p
  BY <1>1 DEF Contexts
<1>4. CASE Proceed(t, "infer", c)
  <2> HIDE DEF c
  <2>1. pc'[t] = "infer" /\ ctx'[t] = c
    BY <1>1, <1>4 DEF TypeOK, Proceed, Goto
  <2> QED
    BY <1>1, <1>2, <2>1, QuietStep DEF Scene
<1>5. ASSUME NEW p, Answer(t, [c EXCEPT !.plan = p]), p.task = NoTask,
             p.kind \in {"reply", "clarify"}, p.reason \in {"", "ambiguous_intent"}
      PROVE  Client!Answer(t)
  <2> DEFINE e == [c EXCEPT !.plan = p]
  <2>1. /\ e.session = ctx[t].session /\ e.request = ctx[t].request
        /\ e.plan = p /\ Answer(t, e)
    BY <1>3, <1>5
  <2> HIDE DEF e
  <2> QED
    BY <1>1, <1>5, <2>1, EarlyAnswerStep DEF Scene
<1> DEFINE low == MakePlan("reply", "", NoTask, {})
           ambiguous == MakePlan("clarify", "ambiguous_intent", NoTask, {})
<1>6. \/ Proceed(t, "infer", c) \/ Answer(t, [c EXCEPT !.plan = low])
      \/ Answer(t, [c EXCEPT !.plan = ambiguous])
  BY DEF Recognized
<1>7. /\ low.kind = "reply" /\ low.reason = "" /\ low.task = NoTask
      /\ ambiguous.kind = "clarify" /\ ambiguous.reason = "ambiguous_intent"
      /\ ambiguous.task = NoTask
  BY DEF MakePlan
<1> HIDE DEF c, low, ambiguous
<1> QED
  BY <1>4, <1>5, <1>6, <1>7

\* The indicator is inferred, or asked for.
LEMMA InferStep ==
    ASSUME NEW t \in Turns, NEW s, Scene(t, s), TypeOK', InferIndicator(t)
    PROVE  Unseen \/ Client!Answer(t)
<1> DEFINE r == Infer(ctx[t].intents, ctx[t].request, ctx[t].catalog,
                      Mentions[ctx[t].message], ctx[t].message \in Bare, ctx[t].dataset)
           c == [ctx[t] EXCEPT !.intents = r.intents, !.drop = r.drop, !.plan = r.plan,
                               !.request = IF r.raised = NoRequest THEN @ ELSE r.raised]
<1>1. /\ ctx[t] \in Contexts /\ TypeOK /\ UNCHANGED stores
      /\ pc[t] = "infer" /\ Phase(t) = "open" /\ Mapped(t)
  BY DEF Scene, TypeOK, InferIndicator, Running, Phase, MapInv
<1>2. (r.plan = NoPlan /\ Proceed(t, "normalize", c)) \/ (r.plan # NoPlan /\ Answer(t, c))
  BY DEF InferIndicator
<1>3. /\ r.plan = NoPlan => r.raised = NoRequest
      /\ r.plan # NoPlan => r.plan = MakePlan("clarify", "ambiguous_slots", NoTask, {})
  BY InferShape
<1>4. r.raised \in Requests \cup {NoRequest}
  BY <1>1, InferType DEF Contexts
<1> HIDE DEF r
<1>5. /\ c.session = ctx[t].session /\ c.plan = r.plan
      /\ c.request = IF r.raised = NoRequest THEN ctx[t].request ELSE r.raised
  BY <1>1 DEF Contexts
<1> HIDE DEF c
<1>6. CASE r.plan = NoPlan /\ Proceed(t, "normalize", c)
  <2>1. pc'[t] = "normalize" /\ ctx'[t] = c
    BY <1>1, <1>6 DEF TypeOK, Proceed, Goto
  <2>2. ctx[t].plan = NoPlan
    BY <1>1 DEF Mapped
  <2> QED
    BY <1>1, <1>3, <1>5, <1>6, <2>1, <2>2, QuietStep DEF Scene
<1>7. CASE r.plan # NoPlan /\ Answer(t, c)
  <2>1. c.plan = MakePlan("clarify", "ambiguous_slots", NoTask, {})
    BY <1>3, <1>5, <1>7
  <2>2. c.plan.kind = "clarify" /\ c.plan.reason = "ambiguous_slots" /\ c.plan.task = NoTask
    BY <2>1 DEF MakePlan
  <2> QED
    BY <1>1, <1>4, <1>5, <1>7, <2>2, EarlyAnswerStep DEF Scene
<1> QED
  BY <1>2, <1>6, <1>7

\* The batch is valid, or asked back, or cannot be asked back.
LEMMA ValidateStep ==
    ASSUME NEW t \in Turns, NEW s, Scene(t, s), TypeOK', ValidateSlots(t)
    PROVE  Unseen \/ Client!Answer(t) \/ Client!Fail(t)
<1> DEFINE c == [ctx[t] EXCEPT !.plan = MakePlan("clarify", "invalid_slots", NoTask, {})]
<1>1. /\ ctx[t] \in Contexts /\ TypeOK /\ UNCHANGED stores
      /\ pc[t] = "validate" /\ Phase(t) = "open"
  BY DEF Scene, TypeOK, ValidateSlots, Running, Phase
<1>2. Proceed(t, "commit", ctx[t]) \/ Answer(t, c) \/ Leave(t)
  BY DEF ValidateSlots
<1>3. /\ c.session = ctx[t].session /\ c.request = ctx[t].request
      /\ c.plan = MakePlan("clarify", "invalid_slots", NoTask, {})
  BY <1>1 DEF Contexts
<1> HIDE DEF c
<1>4. CASE Proceed(t, "commit", ctx[t])
  <2>1. pc'[t] = "commit" /\ ctx'[t] = ctx[t]
    BY <1>1, <1>4 DEF TypeOK, Proceed, Goto
  <2> QED
    BY <1>1, <2>1, QuietStep DEF Scene
<1>5. CASE Answer(t, c)
  <2>1. c.plan.kind = "clarify" /\ c.plan.reason = "invalid_slots" /\ c.plan.task = NoTask
    BY <1>3 DEF MakePlan
  <2> QED
    BY <1>1, <1>3, <1>5, <2>1, EarlyAnswerStep DEF Scene
<1>6. CASE Leave(t)
  BY <1>1, <1>6, FailStep DEF Scene
<1> QED
  BY <1>2, <1>4, <1>5, <1>6

\* The slots are stored: to the client, they are so with the answer.
LEMMA WriteStep ==
    ASSUME NEW t \in Turns, NEW s, Scene(t, s), WriteSlots(t), slots[s] = ctx[t].before
    PROVE  Unseen
<1>1. ctx[t] \in Contexts /\ TypeOK /\ pc[t] = "write" /\ s \in Sessions /\ s = ctx[t].session
  BY DEF Scene, TypeOK, WriteSlots, Running, Contexts
<1>2. /\ pc'[t] = "plan" /\ ctx'[t] = ctx[t] /\ tasks' = tasks /\ requests' = requests
      /\ slots' = [slots EXCEPT ![s] = ctx[t].state]
  BY <1>1 DEF WriteSlots, Proceed, Goto, TypeOK
<1>3. View(t, s)
  <2>1. StoresElsewhere(s)
    BY <1>1, <1>2 DEF StoresElsewhere, TypeOK
  <2> QED
    BY <1>1, <1>2, <2>1, ViewOfStep DEF Home, Scene
<1>4. /\ ClientSlots'[s] = ClientSlots[s] /\ ClientTasks'[s] = ClientTasks[s]
      /\ ClientRequests'[s] = ClientRequests[s]
  BY <1>1, <1>2, <1>3 DEF View, SeenHere
<1>5. ClientTurn(t)' = ClientTurn(t)
  BY <1>1, <1>2 DEF ClientTurn, Phase
<1>6. ClientTurns' = ClientTurns
  BY <1>5, OneClientTurnMoves DEF ClientTurns, Scene
<1> QED
  BY <1>1, <1>3, <1>4, <1>6, SameView DEF Unseen, View

\* The planner answers.
LEMMA PlanStep ==
    ASSUME NEW t \in Turns, NEW s, Scene(t, s), TypeOK', Plan(t)
    PROVE  Client!Answer(t)
<1>1. PICK p \in PlansOf(t) : Answer(t, [ctx[t] EXCEPT !.plan = p])
  BY DEF Plan
<1> DEFINE c == [ctx[t] EXCEPT !.plan = p]
<1>2. /\ ctx[t] \in Contexts /\ TypeOK /\ UNCHANGED stores /\ pc[t] = "plan"
      /\ Phase(t) = "open" /\ slots[s] = ctx[t].state
  BY DEF Scene, TypeOK, Plan, Running, Phase, MapInv, Mapped, SlotsOf
<1>3. c.session = s /\ c.request = ctx[t].request /\ c.plan = p
  BY <1>2 DEF Contexts, Scene
<1>4. Answer(t, c)
  BY <1>1
<1> HIDE DEF c
<1>5. c \in Contexts
  BY <1>2, <1>4 DEF TypeOK, Answer, Proceed
<1> DEFINE changed == Changed(ctx[t].before, ctx[t].state)
<1>6. /\ QueryPlans(ctx[t], Mentions[ctx[t].message]) \in SUBSET {QueryReply, QueryClarify}
      /\ p \in BuildPlans(ActionNames(ctx[t].intents), ctx[t].state, changed,
                          ctx[t].task.active, ctx[t].catalog, ctx[t].dataset,
                          QueryPlans(ctx[t], Mentions[ctx[t].message]))
  BY <1>1, QueryPlansType DEF PlansOf
<1>7. /\ PlanShape(p) /\ p.reason \notin {"invalid_slots", "ambiguous_slots"}
      /\ p.kind = "context_update" => changed # {}
      /\ p.reason = "missing_slots" => p.task \in Tasks /\ Missing(p.task, ctx[t].state) # {}
  BY <1>6, BuiltShape
<1>8. /\ p.kind \in {"task", "context_update", "context_clear"} \/ p.reason = "missing_slots"
            => p.changed = changed
      /\ p.kind = "task" => p.task \in Tasks /\ Missing(p.task, ctx[t].state) = {}
  BY <1>6, BuiltPlans
<1>9. changed # {} => ctx[t].state # ctx[t].before
  BY DEF Changed
<1>10. PlanFits(p, ctx[t].before, ctx[t].state)
  BY <1>7, <1>8, <1>9 DEF PlanFits, Missing
<1> QED
  BY <1>2, <1>3, <1>4, <1>5, <1>7, <1>10, AnswerStep DEF Scene

\* The task context is saved: it is what the client has been told.
LEMMA SaveStep ==
    ASSUME NEW t \in Turns, NEW s, Scene(t, s), SaveTaskContext(t)
    PROVE  Unseen
<1>1. ctx[t] \in Contexts /\ TypeOK /\ pc[t] = "save_task" /\ s \in Sessions /\ s = ctx[t].session
  BY DEF Scene, TypeOK, SaveTaskContext, Running, Contexts
<1>2. /\ pc'[t] = "save_request" /\ ctx'[t] = ctx[t] /\ slots' = slots /\ requests' = requests
      /\ tasks' = [tasks EXCEPT ![s] = NextTaskContext(tasks[s], ctx[t].plan)]
  BY <1>1 DEF SaveTaskContext, Proceed, Goto, TypeOK
<1>3. View(t, s)
  <2>1. StoresElsewhere(s)
    BY <1>1, <1>2 DEF StoresElsewhere, TypeOK
  <2> QED
    BY <1>1, <1>2, <2>1, ViewOfStep DEF Home, Scene
<1>4. tasks'[s] = NextTaskContext(tasks[s], ctx[t].plan)
  BY <1>1, <1>2 DEF TypeOK
<1>5. /\ ClientSlots'[s] = ClientSlots[s] /\ ClientTasks'[s] = ClientTasks[s]
      /\ ClientRequests'[s] = ClientRequests[s]
  BY <1>1, <1>2, <1>3, <1>4 DEF View, SeenHere
<1>6. ClientTurn(t)' = ClientTurn(t)
  BY <1>1, <1>2 DEF ClientTurn, Phase
<1>7. ClientTurns' = ClientTurns
  BY <1>6, OneClientTurnMoves DEF ClientTurns, Scene
<1> QED
  BY <1>1, <1>3, <1>5, <1>7, SameView DEF Unseen, View

\* The open question is saved, and the response sent.
LEMMA ReplyStep ==
    ASSUME NEW t \in Turns, NEW s, Scene(t, s), SavePendingRequest(t)
    PROVE  Client!Reply(t)
<1>1. /\ ctx[t] \in Contexts /\ TypeOK /\ pc[t] = "save_request"
      /\ s \in Sessions /\ s = ctx[t].session
  BY DEF Scene, TypeOK, SavePendingRequest, Running, Contexts
<1>2. /\ pc'[t] = "idle" /\ ctx'[t] = Blank /\ slots' = slots /\ tasks' = tasks
      /\ requests' = [requests EXCEPT ![s] = NextRequest(requests[s], ctx[t])]
  BY <1>1 DEF SavePendingRequest, Leave, Goto, TypeOK
<1>3. View(t, s)
  <2>1. StoresElsewhere(s)
    BY <1>1, <1>2 DEF StoresElsewhere, TypeOK
  <2> QED
    BY <1>1, <1>2, <2>1, ViewOfStep DEF Home, Scene
<1>4. requests'[s] = NextRequest(requests[s], ctx[t])
  BY <1>1, <1>2 DEF TypeOK
<1>5. /\ ClientSlots'[s] = ClientSlots[s] /\ ClientTasks'[s] = ClientTasks[s]
      /\ ClientRequests'[s] = ClientRequests[s]
  BY <1>1, <1>2, <1>3, <1>4 DEF View, SeenHere
<1>6. ClientTurn(t)' = Client!Free
  BY <1>2, SameData DEF ClientTurn, Phase, Blank
<1>7. ClientTurn(t).phase = "answered"
  BY <1>1 DEF ClientTurn, Phase
<1>8. /\ ClientTurns' = [ClientTurns EXCEPT ![t] = ClientTurn(t)']
      /\ ClientTurns[t] = ClientTurn(t)
  BY OneClientTurnMoves DEF Scene
<1> QED
  BY <1>1, <1>3, <1>5, <1>6, <1>7, <1>8, SameView DEF Client!Reply, View

\* A call that raises ends the turn.
LEMMA RaiseStep ==
    ASSUME NEW t \in Turns, NEW s, Scene(t, s),
           PlanningFails(t) \/ GatewayFails(t) \/ RecognizerFails(t)
    PROVE  Client!Fail(t)
<1>1. /\ UNCHANGED stores /\ Leave(t)
      /\ pc[t] \in {"plan", "catalog", "autofill", "recognizing"}
  BY DEF PlanningFails, GatewayFails, RecognizerFails, CallsGateway, Running
<1>2. Phase(t) = "open"
  BY <1>1 DEF Phase
<1> QED
  BY <1>1, <1>2, FailStep DEF Scene

\* Nothing but the loop moves.
LEMMA LoopStep ==
    ASSUME pc' = pc, ctx' = ctx, UNCHANGED stores
    PROVE  Unseen
BY DEF stores, Unseen, ClientSlots, ClientTasks, ClientRequests, ClientTurns, ClientTurn,
       Phase, At

----------------------------------------------------------------------------
(* The theorem.                                                            *)

\* Every step of a turn is one of the client's.
LEMMA TurnMaps ==
    ASSUME TypeOK, TypeOK', OfferedInv, MapInv, NEW t \in Turns, TurnNext(t), Alone(t),
           pc[t] = "write" => SlotsOf(t) = ctx[t].before
    PROVE  Unseen \/ Client!Next
<1>1. ASSUME NEW s \in Sessions, Client!Accept(t, s)
      PROVE  Client!Next
  BY <1>1 DEF Client!Next
<1>2. Client!Look(t) \/ Client!Answer(t) \/ Client!Reply(t) \/ Client!Fail(t) => Client!Next
  BY DEF Client!Next
<1>3. ASSUME NEW s \in Sessions, NEW m \in Messages, NEW d \in Workspaces, Arrive(t, s, m, d)
      PROVE  Client!Next
  BY <1>3, <1>1, ArriveStep
<1> DEFINE h == ctx[t].session
<1>4. ASSUME pc[t] # "idle"
      PROVE  Scene(t, h) /\ (pc[t] = "write" => slots[h] = ctx[t].before)
  BY <1>4 DEF Scene, Alone, SlotsOf
<1> HIDE DEF h
<1>5. CASE Step(t)
  <2>1. pc[t] # "idle" /\ (WriteSlots(t) => pc[t] = "write")
    BY <1>5 DEF Step, LoadTaskContext, LoadPendingRequest, LoadCatalog, PreRecognize,
       CallRecognizer, InferIndicator, NormalizeResolverQuery, ResolveSlots, ValidateSlots,
       CommitSlots, Autofill, WriteSlots, Plan, PlanningFails, SaveTaskContext,
       SavePendingRequest, Running
  <2> QED
    BY <1>2, <1>4, <1>5, <2>1, LookStep, PassStep, InferStep, ValidateStep, WriteStep, PlanStep,
       SaveStep, ReplyStep, RaiseStep DEF Step
<1>6. CASE RecognizerReturns(t)
  <2>1. pc[t] # "idle"
    BY <1>6 DEF RecognizerReturns, Recognized, RecognizerFails
  <2> QED
    BY <1>2, <1>4, <1>6, <2>1, RecognizedStep, RaiseStep DEF RecognizerReturns
<1>7. CASE GatewayFails(t)
  <2>1. pc[t] # "idle"
    BY <1>7 DEF GatewayFails, CallsGateway
  <2> QED
    BY <1>2, <1>4, <1>7, <2>1, RaiseStep
<1>8. CASE Suspend(t) \/ Resume(t)
  <2>1. pc' = pc /\ ctx' = ctx /\ UNCHANGED stores
    BY <1>8 DEF Suspend, Resume
  <2> QED
    BY <2>1, LoopStep
<1> QED
  BY <1>3, <1>5, <1>6, <1>7, <1>8 DEF TurnNext

\* The initial state is the client's.
LEMMA InitMaps == Init => Client!Init
<1> SUFFICES ASSUME Init PROVE Client!Init
  OBVIOUS
<1>1. \A s \in Sessions : \A steps : "idle" \notin steps => At(s, steps) = {}
  BY DEF Init, At
<1>2. /\ ClientSlots = [s \in Sessions |-> NoSlots]
      /\ ClientTasks = [s \in Sessions |-> NoTaskContext]
      /\ ClientRequests = [s \in Sessions |-> NoRequest]
  BY <1>1 DEF Init, ClientSlots, ClientTasks, ClientRequests
<1>3. \A t \in Turns : ClientTurn(t) = Client!Free
  BY SameData DEF Init, ClientTurn, Phase, Blank
<1>4. ClientTurns = [t \in Turns |-> Client!Free]
  BY <1>3 DEF ClientTurns
<1> QED
  BY <1>2, <1>4, SameData DEF Client!Init

\* So is every step: with a gateway that blocks ...
LEMMA NextMaps ==
    ASSUME ~AsyncGateway, TypeOK, TypeOK', TurnInv, OfferedInv, MapInv, [Next]_vars
    PROVE  [Client!Next]_Client!vars
<1>1. CASE UNCHANGED vars
  <2>1. pc' = pc /\ ctx' = ctx /\ UNCHANGED stores
    BY <1>1 DEF vars, stores
  <2> QED
    BY <2>1, LoopStep DEF Unseen, Client!vars
<1>2. CASE Next
  <2>1. PICK t \in Turns : TurnNext(t)
    BY <1>2 DEF Next
  <2>2. pc[t] = "write" => SlotsOf(t) = ctx[t].before
    BY DEF TurnInv, TurnOK, Commits
  <2>3. Unseen \/ Client!Next
    BY <2>1, <2>2, AloneOnLoop, TurnMaps
  <2> QED
    BY <2>3 DEF Unseen, Client!vars
<1> QED
  BY <1>1, <1>2

\* ... and with sessions that have one turn in flight.
LEMMA NextMapsInSession ==
    ASSUME OneAtATime, TypeOK, TypeOK', ReadsInv, OfferedInv, MapInv, [Next]_vars
    PROVE  [Client!Next]_Client!vars
<1>1. CASE UNCHANGED vars
  <2>1. pc' = pc /\ ctx' = ctx /\ UNCHANGED stores
    BY <1>1 DEF vars, stores
  <2> QED
    BY <2>1, LoopStep DEF Unseen, Client!vars
<1>2. CASE Next
  <2>1. PICK t \in Turns : TurnNext(t)
    BY <1>2 DEF Next
  <2>2. pc[t] = "write" => SlotsOf(t) = ctx[t].before
    BY DEF ReadsInv, Reads
  <2>3. Unseen \/ Client!Next
    BY <2>1, <2>2, AloneInSession, TurnMaps
  <2> QED
    BY <2>3 DEF Unseen, Client!vars
<1> QED
  BY <1>1, <1>2

\* Over a gateway that blocks, as HttpSigmaGateway does, the turns of a
\* session appear one after the other to its clients, each answered in one
\* step that moves slots, task context and open question together.
THEOREM AtomicCorrect == ASSUME ~AsyncGateway PROVE Spec => TurnsAreAtomic
<1>1. Init => OfferedInv
  BY NothingOffered DEF Init, OfferedInv, Blank
<1>2. Init => MapInv
  BY DEF Init, MapInv, Mapped, Phase, Blank
<1>3. TypeOK /\ TurnInv /\ MapInv /\ [Next]_vars => MapInv'
  BY MapInvNext
<1>4. /\ TypeOK /\ TypeOK' /\ TurnInv /\ OfferedInv /\ MapInv /\ [Next]_vars
         => [Client!Next]_Client!vars
  BY NextMaps
<1> QED
  BY <1>1, <1>2, <1>3, <1>4, InitMaps, TypeCorrect, TurnInvariant, OfferedInvNext, PTL
     DEF Spec, TurnsAreAtomic, Client!Spec

\* While no session has two turns in flight the same holds with any gateway:
\* what breaks a turn apart is another turn of its session, never one of
\* another session.
THEOREM AtomicInSession == Spec /\ []OneAtATime => TurnsAreAtomic
<1>1. Init => OfferedInv
  BY NothingOffered DEF Init, OfferedInv, Blank
<1>2. Init => MapInv
  BY DEF Init, MapInv, Mapped, Phase, Blank
<1>3. OneAtATime /\ TypeOK /\ MapInv /\ [Next]_vars => MapInv'
  BY MapInvNextInSession
<1>4. /\ OneAtATime /\ TypeOK /\ TypeOK' /\ ReadsInv /\ OfferedInv /\ MapInv /\ [Next]_vars
         => [Client!Next]_Client!vars
  BY NextMapsInSession
<1> QED
  BY <1>1, <1>2, <1>3, <1>4, InitMaps, TypeCorrect, ReadsInvariant, OfferedInvNext, PTL
     DEF Spec, TurnsAreAtomic, Client!Spec
=============================================================================
