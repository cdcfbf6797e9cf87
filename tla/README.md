# Sigma Copilot Synapse: specification, model checking and proofs

Synapse answers natural-language turns about NVH test data. A client posts a
message with a session id (`POST /turns`); a pipeline of steps recognises
intents with an LLM, updates the session's slots (sensors, test segments,
indicators, data types), fills in what is missing from the SigMA service and
answers with a *plan*: a task, a reply, a clarification, a context update or a
context clear. This directory specifies that pipeline in TLA+, checks it with
TLC and proves its main invariants with TLAPS. Paths below are relative to the
repository root.

## 1. The system

### Components

| Component (code) | State | Operations | Correct when |
|---|---|---|---|
| HTTP API, turn contract (`src/synapse/api`, `turns.py`) | none | one turn in, one response or error out | every turn ends |
| Conductor (`engine/conductor.py`) | the turn's immutable `TurnContext` | runs steps in order; after a plan only `run_after_plan` steps; exceptions leave the turn | nothing runs twice or after the response |
| Runtime (`runtime.py`) | owns the stores, one event loop | wires 13 steps | the stores agree with each other after every turn |
| Task context (`session/task_context.py`) | session -> (pending task, active task) | load at the start, write back after the plan | a task is only there because it was asked for |
| Pending observation request (`domains/observation/pending_request.py`) | session -> (indicator, candidate data types) | load, write back | a question is open iff it was asked and not answered |
| Slots (`slots/`, `domains/observation/slots.py`) | session -> slot values | resolve, validate, commit, diff, roll back | only valid values, no lost update, the diff is the truth |
| Recognition (`recognition/themis.py`) | none; awaits the LLM | decision or early answer | - |
| Candidate catalog (`recognition/candidates.py`, `integrations/sigma/candidates.py`) | none; per-turn artifact | load from Sigma | holds what Sigma offers |
| Pre-recognition (`recognition/preprocessing/`, `pre_recognition.py`) | none | processors propose a message and a catalog, an arbiter merges them | the recognizer is told what the user said, and offered what it names |
| Indicator inference, scope (`indicator_inference.py`, `scope.py`) | none | infers the task from an indicator, asks for the data type, restores the indicator when it is answered | the answer serves the question |
| Autofill (`autofill.py`, `sigma_catalog.py`) | none | after a commit for a task: data type, places, indicator | never overrides what the user said |
| Planning (`planning/`, `task_params.py`) | none | plan from intents, slots, diff, active task | the task asked for runs, for its own data type |
| Resolver queries (`resolver_query.py`, `catalog.py`) | none | list sensors, segments, indicators or data types in the session's scope | what is listed can be chosen, and nothing selected is hidden |
| Sigma gateway (`integrations/sigma/http.py`) | the token | lists data, merges candidates, refreshes the token | loads end; an index is never picked against Sigma |
| Snapshots (`integrations/sigma/snapshot.py`) | rows | capture, replay | a replay lists what the live gateway lists |
| Tree prompt, configuration | files | prompt text, YAML | - |

### Interaction, and what is hard

All turns run as coroutines on one event loop and share three in-memory stores
keyed by session. Two turns of one session (a double click, a retry, two
windows) interleave wherever a coroutine really suspends. Almost everything
looks asynchronous, but with `HttpSigmaGateway` only the recognizer call
suspends: the gateway's `async` methods call `urlopen` and block the loop.

* A turn reads its task context and pending request **before** the recognizer
  call and uses them **after** it: they may be stale.
* The slot committer reads the session's slots, awaits the autofill policy and
  stores the result: atomic only because the gateway blocks.
* Several steps may fail in between: a gateway error, a validation without
  candidates, a missing index. What was stored before stays stored, the
  `run_after_plan` committers do not run.
* A decision may carry anything: unknown values, two tasks, a clear together
  with a task, a query together with slot changes.
* Slot operations are sequences over values that are absent, single or lists.

`PROJECT.json` lists these hazards one by one, at their line, with the
properties that watch them.

## 2. The modules

| Module | Models | Kind |
|---|---|---|
| `Observation` | slots, candidates, catalogs and their narrowing, the shapes of intents, plans and stores | vocabulary, operators |
| `IndicatorInference` | resolver-query normalisation, scope policy, `ObservationIndicatorInferenceStep` | operators |
| `SlotPipeline` | slot resolution, validation, commit, autofill, on sets of values | operators |
| `ResolverQuery` | `ObservationResolverQueryResponder`, the whole scope policy, the catalog it filters | operators |
| `TaskPlanning` | `TaskPlanBuilder`, task parameters | operators |
| `SynapseTurns` | conductor, event loop, all steps of the default runtime over the three stores, gateway and recognizer failures | state machine |
| `TurnProperties` | the type invariant and the properties of `SynapseTurns` | properties |
| `AtomicTurns` | what clients are promised: a turn is answered in one step | abstract specification |
| `TurnRefinement` | the refinement mapping from `SynapseTurns` to `AtomicTurns` | refinement |
| `MCSynapseTurns` | a deployment and a script of messages | for TLC |
| `SlotStates` | `SlotState`, coalescing, diff and rollback value by value, in order | state machine and properties |
| `MCSlotStates` | operation lists | for TLC |
| `PreRecognition`, `MCPreRecognition` | processors, arbiter, the rewriting and narrowing of the observation processor | state machine and properties |
| `IndicatorIndexes` | how the index of an indicator gets from Sigma's answers to a task | state machine and properties |
| `SigmaSnapshots`, `MCSigmaSnapshots` | capture and replay, beside a live listing (EXTENDS `IndicatorIndexes`) | state machine and properties |
| `SigmaRequests`, `MCSigmaRequests` | requests of a load, token refresh and repetition, with an unreliable Sigma | state machine and properties |
| `SynapseTurnsProofs` | what the operators return, types, offered values, commits, answers, switched tasks, queries | theorems, proofs |
| `ConversationProofs` (EXTENDS that) | what holds from one turn to the next | theorems, proofs |
| `RefinementProofs` (EXTENDS that) | `SynapseTurns` implements `AtomicTurns` | theorems, proofs |
| `ListProofs` | induction, ordered sets and folds, for the two below | lemmas, proofs |
| `SlotStatesProofs` | slot values in order | theorems, proofs |
| `PreRecognitionProofs` | processors and arbiter, the rewriting word by word | theorems, proofs |
| `IndexProofs`, `RequestProofs` | the gateway, snapshots | theorems, proofs |

`SynapseTurns` EXTENDS `SlotPipeline`, `TaskPlanning` and `ResolverQuery`
(which EXTENDS `IndicatorInference`); all of them EXTEND `Observation`. Its
`PreRecognize` and its gateway calls are the short form of what
`PreRecognition`, `IndicatorIndexes` and `SigmaRequests` model in detail: the
narrowing of the catalog, which pairs of indicator and data type have an index,
and that a call blocks and succeeds or fails.

### State and actions of SynapseTurns

`slots` is `SlotCommitterStep._states`, `tasks` the `InMemoryTaskContextStore`,
`requests` the pending request store; `ctx[t]` is the `TurnContext` of turn `t`
with its artifacts, `pc[t]` the step it is at, and `loop` the turn the event
loop is running. Each action is one `run` method: `LoadTaskContext`,
`LoadPendingRequest`, `LoadCatalog`, `PreRecognize`, `CallRecognizer` and
`Recognized` (before and after the await), `InferIndicator`,
`NormalizeResolverQuery`, `ResolveSlots`, `ValidateSlots`, `CommitSlots`,
`Autofill`, `WriteSlots` (`SlotCommitterStep.run` in its three parts),
`Plan`, `SaveTaskContext`, `SavePendingRequest`. `PlanningFails`,
`GatewayFails`, `RecognizerFails` and the last disjunct of `ValidateSlots` are
the exceptions. While `loop = t` no other turn moves; `Suspend` gives the loop
up in a gateway call and exists only with `AsyncGateway`.

### AtomicTurns and the mapping to it

`AtomicTurns` knows no pipeline. A turn is accepted, takes note of the open
question of its session (`Look`), is answered in one step that moves slots,
task context and question together (`Answer`), and replied to; or it fails,
and then at most the slots have changed. What an answer may do is given by its
kind: `SlotsAsAnswered`, `TasksAsAnswered`, `QuestionAsAnswered`.

`TurnRefinement` maps `SynapseTurns` to it. A turn counts as answered once its
plan is set. In the code the slots are stored before that (between `WriteSlots`
and `Plan` the mapping still shows the old ones), the task context and the
question after it (the mapping already shows what the two `run_after_plan`
steps will store). `TurnsAreAtomic` is `Client!Spec` under that mapping.

### The gateway's modules

`IndicatorIndexes` reads Sigma's answers item by item, in any order and number:
`Read` is one item met by `list_observation_indicator_names`, `EndAnswer` the
merge of a data type's answer into the listing; `said` records what Sigma gave.
A Python list without repetitions is kept as its first element and its set.
`SigmaSnapshots` reads the same items place by place (`CaptureItem`,
`CapturePlace`) and replays the rows. `SigmaRequests` is `_json_request`:
`Load`, `Send`, `Refresh`, `Accept`, `Fail`, with Sigma (external) changing the
token it accepts (`Rotate`) and falling out of order (`Disturb`) at any time.

### PreRecognition

A message is a sequence of phrases, names of candidates or other words, so that
what the user meant is known to the properties; the processors only see the
words. `Receive`, `RunProcessor`, `MergeGlobal`, `MergeAll`, `HandOver` follow
`PreRecognitionPipeline.run`. Word boundaries and case are abstracted: a name is
found where its words are. `Replacements` are the aliases that become values and
`Orders` the orders in which the code may take them: entity by entity, candidate by
candidate, and no alias before a longer one it is part of. The order of candidates in
the catalog and of aliases of the same length is the one Sigma gives them in: any.
The default runtime registers the observation processor only; the others stand
for what the two pipelines are there for. Python's `sorted` is `Sorted`, defined
by what it promises: a permutation in order that leaves equals as they were.

### Abstractions

* A slot holds the *set* of its values; an absent slot is the empty set.
  `SlotStates` keeps lists and order and is checked to agree
  (`CommitsAsSets`). What the set view cannot see: the code's diff also
  reports a re-ordered list, or a single value that became a list of one.
* A decision has one effect per slot, or only replaces of a multi slot
  (`OneEffectPerSlot`, assumed of the readings and checked by TLC). Mixed
  lists are in `SlotStates` only.
* Where code takes "the first" of several (rows, indicators, data types) the
  model takes any. Labels and aliases are resolved to canonical names.
* The indicators Sigma lists depend on the data type only, not on the place.
  A data type with indicators has data (`ListedTypesHaveData`).
* A resolver query's answer is a reply or a clarification; the entries it
  lists (`Listings`) are not kept in the plan but computed from the same
  context by the properties that speak of them.
* The recognizer is external: for each message a set of decisions, any of
  which it may return, or it fails. Message text is reduced to the candidate
  values it mentions and whether it is nothing but that value (`Bare`).
* The default runtime with a Sigma gateway is modelled; the wiring without a
  gateway is not.

## 3. The checks

The deployment of `MCSynapseTurns`: three data types, one without data; `rms`
in both others, `peak` without an index, `wave` preferred in one; two sensors,
a segment; three tasks. It is small, but every case split of the code is in it:
conflicting and unique scopes, an indicator with and without index, a preferred
indicator, a task without data, a value nobody offers.

| Run | Bounds | Shows |
|---|---|---|
| `serial` | 1 turn at a time, 24 messages, with and without dataset; 1.2 million states | `TypeOK`, `OnlyOfferedValues`, `AutofillKeepsUserChoice`, `SwitchedTaskRuns`, `TasksAreAsked`, `ListedCandidatesHaveData`, `QueryShowsSelection` |
| `concurrent` | 2 turns in one session, 7 messages; 1.6 million states | `TurnsAreAtomic`, `AnswerDescribesSession`, `AnswerServesTheRequest`, `NoLostUpdate`, `ClearForgetsTheSession`, `NothingOpenAfterTask` |
| `async_turns` | 2 turns, 2 messages, suspending gateway, fairness | `EveryTurnEnds` |
| `pre_recognition` | messages of up to 3 names and words; 4 processors (observation, a global glossary, two more of the domain with equal or other priority) in every order; 150 000 states | `SaysTheSame`, `RewriteNamesNothingNew`, `CatalogServesMessage`, `OneVoice`, `RegistrationIsIrrelevant` |
| `snapshot` | 2 indicators, 2 labels one of which is a name, 2 data types of 2 places, any number of items; 320 000 states | `PickedIndexIsSigmas`, `OneIndexResolves`, `ReplayAgrees` |
| `requests` | loads of 0, 1, 3 or 4 requests, 3 tokens or none at first, any changes in Sigma | `TwoAttempts`, `LoadsEnd`, `LoadsRecover` |
| `slot_states` | batches of 1 or 2 operations on a multi and a single slot, 3 on the multi slot (long enough to remove a value and add it again) | `RollbackRestores`, `ListsAreUnique`, `CommitsAsSets`, `RetryChangesNothing` |

Conversations are unbounded: a turn may always be followed by another one, and
the runs explore the whole reachable state space, so no counter needs a bound.
One session is enough because sessions share nothing but the loop, and two
turns because each property relates one turn to what *some* other turn did in
between; the theorems below do without either bound. Deadlock is checked
but in `snapshot`, where a listing ends after its last data type:
an idle system can always take another turn, message or load.

In `snapshot` one indicator may be given any label or none at any time, the other
one label or none: it is there to be confused with the first one's label. Two
places tell an answer from a part of it, and a row of a snapshot has one label,
so no data type sees a third. That more data types and labels change nothing is
what `PickedIndexCorrect` and `OneIndexCorrect` prove. `task_params.py` takes a
label for a name on purpose, so an indicator without an index of its own may get
one from a candidate labelled with its name; `PickedIndexIsSigmas` says that this
is then the only index Sigma gave to any that go by the name. Three tokens are the
gateway's, Sigma's and one announced too late; the gateway may also start with none
configured. Three phrases let a glossary's word, an alias and a data type meet.

`SwitchedTaskRuns` follows a turn that names a task of one data type and nothing
else that bears on what it shows (`AsksOnlyFor`: no slot operation, no indicator,
no other data type), in a session that may have been at another task. It ends
with that data type and indicators of it, the places stay, and it is answered
with the task: validation lets it through, autofill replaces what does not fit,
and the catalog narrowed for the turn still offers what `params_for` looks up. The
property supposes that Sigma has data of the type at the places selected and lists
the preferred indicator, if one is configured (`SigmaServes`), and allows for
indicators without their one index, for which the code refuses the task.

`TasksAreAsked` holds serially. With two turns of a session it fails by the race
that run `stale_request` (below) shows of the pending request: TLC finds, with the
messages `show_one`, `to_s2` and `clear`, that a slot-only turn runs the active task
it loaded before another turn cleared the session, and makes it active again
(`planning/tasks.py:262`), against line 449 of the API document, by which
`context_clear` clears all state.
`ClearForgetsTheSession` holds unless a decision mixes `clear_context` with a
task (below), which the `concurrent` messages do not. The hypotheses under which
these two and `AnswerServesTheRequest` are proved (section 4) are assumptions of
`MCSynapseTurns` too, so TLC confirms that its deployment and scripts satisfy them.

`RetryChangesNothing` has two halves: the values of a slot are the same after a
second commit of the same batch, always; the order of its list and the empty
diff only if the batch puts no value back that it has removed. `remove s1, add s1`
moves `s1` to the end, and the second time again.

**Fairness** (`FairSpec`, only for `EveryTurnEnds`): asyncio runs ready
coroutines in FIFO order, so a step that is enabled again and again is taken
(strong fairness of `Step(t)`), and the LLM client and the gateway return or
time out (strong fairness of `RecognizerReturns(t) \/ Resume(t)`). Strong,
because another turn may hold the loop in between. Nothing is assumed about
what they return, and clients need not send anything.

`FairSpec` of `SigmaRequests` (for `LoadsEnd`, `LoadsRecover`): the gateway's own
steps are straight-line code, and a request that is sent is answered or times
out (`urlopen(..., timeout=...)`), hence weak fairness of both. Loads are not
assumed to come, and Sigma need not ever behave; `LoadsRecover` is conditional
on it doing so from some point on.

### Where code and text disagree

Each of these runs checks one sentence of the documentation or a test and finds
a behaviour of the code against it; `PROJECT.json` quotes the sentence.

| Run | What the code does |
|---|---|
| `follow_up` | a follow-up completing the pending task is answered with `context_update`: the pending task is stored but never used |
| `clear_and_show` | `clear_context` with a task: autofill fills the cleared session again |
| `query_diff` | a resolver query that changed a slot reports no diff |
| `stale_request` | a request cleared by a concurrent turn is stored again by a turn that had loaded it |
| `domain_switch` | a task of another data type replaces the selected indicators |

Three more sentences of `docs/synapse-turns-api.md` do not fit the code, visible
in the actions without a run: line 170 calls `TaskContextCommitterStep` the only
`run_after_plan` step (`SavePendingRequest` is another); by line 487
`CandidateCatalogStep` falls back to an empty catalog when Sigma fails (the turn
ends, `GatewayFails`); by line 488 values without candidates pass the validator
(the entry of a slot is there but empty, so every value is invalid, and the
clarification without candidates is an error: last disjunct of
`ValidateSlots`).

### Seeded bugs

Beside some definitions stands a variant marked "Seeded bug", such as a diff
taken before autofill or a data type that another task has left selected. Substituting it for the
definition makes TLC find the property named in `PROJECT.json` violated: each
property is known to be able to fail.

## 4. The proofs

For every value of the constants that satisfies the modules' assumptions: any
number of sessions, turns and messages, any catalog and any readings, lists and
batches of any length.

| Theorem | States |
|---|---|
| `TypeCorrect` | `Spec => []TypeOK` |
| `OfferedCorrect` | `Spec => []OnlyOfferedValues` |
| `AutofillCorrect` | `Spec => []AutofillKeepsUserChoice` |
| `AnswerCorrect` | `Spec => []AnswerDescribesSession`, with either gateway |
| `NoUpdateIsLost` | `~AsyncGateway` implies `Spec => NoLostUpdate` |
| `SwitchCorrect` | `Spec => []SwitchedTaskRuns`, with either gateway |
| `TaskClosesSession` | `Spec => NothingOpenAfterTask` |
| `ListingsHaveData`, `SelectionIsShown` | `Spec => []ListedCandidatesHaveData`, `Spec => []QueryShowsSelection` |
| `AnswersAreServed` | `FilesValues` and `TaskPerType` imply `Spec => []AnswerServesTheRequest` |
| `ClearIsComplete` | `ClearsAlone` implies `Spec => ClearForgetsTheSession` |
| `NoTaskUnasked`, `NoRequestUnasked` | `Spec /\ []OneAtATime => TasksAreAsked`, `=> RequestsAreAsked`, with either gateway |
| `NoUpdateIsLostInSession` | `Spec /\ []OneAtATime => NoLostUpdate`, with either gateway |
| `AtomicCorrect` | `~AsyncGateway` implies `Spec => TurnsAreAtomic` |
| `AtomicInSession` | `Spec /\ []OneAtATime => TurnsAreAtomic`, with either gateway |
| `RollbackCorrect`, `UniqueLists` | `Spec => []RollbackRestores`, `Spec => []ListsAreUnique` of `SlotStates` |
| `CommitsAreSets`, `RetryIsHarmless` | `Spec => CommitsAsSets`, `Spec => RetryChangesNothing` of `SlotStates` |
| `PickedIndexCorrect`, `OneIndexCorrect` | `Spec => []PickedIndexIsSigmas`, `Spec => []OneIndexResolves` of `IndicatorIndexes`, and of the listing within `SnapshotSpec` |
| `ReplayCorrect` | `SnapshotSpec => []ReplayAgrees` |
| `TwoAttemptsCorrect` | `Spec => []TwoAttempts` of `SigmaRequests` |
| `OneVoiceCorrect`, `RegistrationCorrect` | `Spec => []OneVoice`, `Spec => []RegistrationIsIrrelevant` of `PreRecognition` |
| `CatalogCorrect` | `Spec => [](NamesNothingNew => CatalogServesMessage)` of `PreRecognition` |
| `RewriteCorrect` | `ValuesApart` implies `Spec => []RewriteNamesNothingNew` |
| `OwnCatalogCorrect` | `ValuesApart` implies `Spec => [](OwnRewrites => CatalogServesMessage)` |
| `SaysCorrect` | `Spec => []((\A c \in Meant : Legible(c)) => SaysTheSame)` |

### Hypotheses

The modules' assumptions say what kind of thing a constant is (`ObservationAssumption`,
`TurnsAssumption`, `IndexAssumption`, `PlacesAssumption`, `RequestsAssumption`,
`KindAssumption`) and a few facts the code relies on. `IntentsAssumption`: no task has the name of an
action such as `clear_context` or of a resolver query. `OperationsAssumption`: a
batch of `SlotStates` is a list of operations with one value each, as resolution
makes them. `ProcessorAssumption`: there are finitely many processors, with
distinct names, one of them the observation processor of the domains.
`MetaAssumption`: Sigma says the same sort of things of all its indicators, and lists
data types as data types. `NamesAssumption`: candidates and their aliases are finitely
many, and a name is not empty (`_aliases` drops empty ones). `ReadingsAssumption` and `ListedTypesHaveData` are explained under
Abstractions.

Some theorems need more, named in `TurnProperties` and `PreRecognition`, and are
false without:

* `FilesValues`: the recognizer files an indicator, data type or place under its
  slot, and an operation on an indicator or data type names its slot. A data type that is added to or removed from its slot, or an indicator
  filed as a sensor, gives the inference step something else to restore than
  what was asked about.
* `TaskPerType`: every task is for one data type and every data type has a task,
  as `domain_by_action` in `configs/resolvers/nvh.yaml` has it. A task for two
  data types could be answered with one that was not among the candidates.
* `ClearsAlone`: a decision that clears asks for nothing else. Run
  `clear_and_show` is the counterexample without.
* `OneAtATime`: no session has two turns in flight. Turns of other sessions
  interleave with it at every step. Nothing in the code makes a client wait: with
  two turns of a session a cleared task comes back (section 3), a request appears
  that nobody asked (run `stale_request`), and with a gateway that suspends an
  update is lost (the mutant of `NoLostUpdate`). So sessions are kept apart
  (`AtomicInSession`), and what goes wrong goes wrong between two turns of one.

* `ValuesApart`: the values of two candidates do not overlap as texts (one does not
  begin within, or contain, the other). Otherwise a value put in place of an alias
  makes up another candidate's value with the words beside it, and the message names
  somebody the user did not mention.
* `Legible(c)`, for the candidates a message means: no alias of `c` begins in one of
  its names and goes on in another said right after it. With the aliases `x a`, `b y`
  and `a b` a message "x a b y" means `c` twice, and the code may read the third alias
  in the middle of it. `Apart`, the condition within `SaysTheSame`, sees words shared
  by different candidates only.

Both are about names as Sigma gives them and nothing in the code enforces either.
`NamesAreTold` in `MCPreRecognition` has TLC check that they hold of the names of run
`pre_recognition`.

`~AsyncGateway` is what `HttpSigmaGateway` is: its methods block. With a gateway
that suspends TLC shows lost updates (the mutant of `NoLostUpdate`).

### Turns

*Lemmas.* The first part of `SynapseTurnsProofs` says once what each operator
returns: narrowing
only removes candidates; the decision keeps its type through inference;
validated operations commit only offered values (`CommitOffered`); each of the
three fills only adds offered values and leaves touched slots alone
(`GoodFill`, composed in `AutofilledIsGood`); what kinds of plans there are and
what a task plan implies (`BuiltPlans`).

*OfferedInv.* `OnlyOfferedValues` is not inductive: a turn in flight carries
values on their way to the store. The invariant adds that each turn's catalog
and computed state are within the loaded catalog, and that a batch at `commit`
has passed validation. The validation is against the turn's narrowed catalog
for a request with or without dataset; the claim is about the full one.

*TurnInv* has, for each turn, three parts. `OnLoop`: a turn in
the pipeline holds the loop, unless it waits for the recognizer or for a
suspending gateway. `Commits`: between read and write, the state
in the context is the commit plus fills that left touched slots alone, and,
when the gateway cannot suspend, the store still holds what was read.
`Answers`: a plan the builder made describes the stored slots and their
difference to the state read, and after
`SaveTaskContext` the store holds the task. The step proof treats the moving
turn (`MoverOK`, one case per action) and the others (`OthersOK`: another turn
can only disturb them if they are not on the loop) separately.

*SwitchInv* says, for each step, where the turn's catalog, batch and state come
from: the catalog loaded, narrowed by the message; the intents resolved in it; the
commit, then autofilled for one of the decision's tasks. No other turn can change
that, so `SwitchCorrect` needs no hypothesis about the loop. The three fills are
followed one by one: the task's data type is selected (`TypeFilled`), the places
stay (`PlacesFilled`), and an indicator of another type gives way to one of this
type (`IndicatorFilled`), together `TaskFilled`. `TypeStaysOffered` shows that
narrowing keeps the type and its indicators in the catalog, so that planning
finds what it needs.

*PlannedInv*, for queries: a turn has no computed slots before its commit, and an
answer in a turn that has some is one the planner made of the turn's context. What
the responder then lists follows from how the catalog is filtered, slot by slot.

*ServedInv* follows a pending request through a turn that answers it. While
`drop` is set there is a data type `x`, one of the candidates asked about, that all
the turn's tasks are for (`Restores`); at each step it says where `x` and the
indicator asked about are by then: in the operations, in the validated batch, in
the catalog, in the state (`Serving`). A stored request is always about an
indicator (`FiledRequest`).

*ClearingInv*: a turn whose decision clears carries intents with no slot or task,
commits an empty state, and its `context_clear` plan is followed by an empty task
context. *ContinuesInv*: without a second turn of its session the task context in the turn is
the stored one until it is written back, and a plan's task is named by the turn or
was active before. *AsksInv*: the request in the turn is the stored one unless the
turn raises it. *ReadsInv*: from read to write the slots are those read. In all
three `OthersKeep` shows that a step writes only the stores of its own session.

*The refinement.* The turn that moves is the only one of its session past its
recognizer call and not yet replied to (`Apart`): with a blocking gateway because it
is the only one at all (`AloneOnLoop`, from `OnLoop`), else because its session has no
other (`AloneInSession`). So its session looks to the client as this one turn makes it
look, before the step and after (`HereIsSeen`), and all other sessions look as before
(`ElsewhereIsSeen`). `MapInv` adds that an idle turn is blank, one not yet answered has
no plan, and while a turn is planned its session holds its slots. Then each action is
one client step or none: the view of the session changes only in the step that sets
the plan (`AnswerStep`, used by the recognizer's early answers, inference,
validation and planning), `LoadPendingRequest` is `Look`, and the steps that
store slots, task context and question are invisible (`WriteStep`, `SaveStep`,
`ReplyStep`). One of the two hypotheses is needed: for two turns of a session over a
gateway that suspends, TLC shows a counterexample (the mutant of `TurnsAreAtomic` in
run `concurrent`).

### Slot values in order

`SlotStates` folds operators over lists of values and of operations. `FoldExists`
and `FoldSteps` show that a fold over a list is a sequence of results, each made
from the one before; they are proved by induction over a set of numbers (`Induct`,
from `LeastNat`), and so are the facts about each operator that folds.
*SlotsInv*: state and the state before are cells that list values once, and the
diff is the difference of the two. With it `RollbackUndoes` shows that the
operations made of a diff bring every kind of cell back: a list is emptied and
listed again in its old order. *BatchInv*: the state is the last batch applied
to the state before. `CoalescedOnSlot` reduces a coalesced batch to what it does
to one slot; `CommittedSets` compares that with `Commit` of module `SlotPipeline`,
which closes the gap between the two views of a slot. For a retry,
`SameValuesAgain` follows a value through the batch (its last operation decides,
the first time and the second), and `SameCellAgain` follows the list itself.

### Gateway and pre-recognition

*IndexInv.* Neither property of `IndicatorIndexes` is inductive: a candidate's
plain index may come from another data type. The invariant says what a
candidate knows: while an answer is read, its label, index and conflicts hold
exactly the labels given in this answer (`AnswerKnows`); after it, `indexBy` and
`conflictsBy` hold for each data type already read exactly the labels given for
it (`ListedKnows`). `MergeGood` and `WithDataTypeGood` prove that merging keeps
that. `CaptureLists` shows that a capture is such a listing
(`SnapshotSpec => Spec`), so both theorems speak of run `snapshot` too.

*SnapshotInv* puts the capture beside it: an answer for one place holds the labels
given there (`CellKnows`), the replayed candidate of an indicator the labels of
its rows (`ReplayKnows`), and live and replayed candidates have the data types of
the rows (`ListedTypes`). Its difference to what `IndexInv` says of the live
listing is what one answer lost by contradicting itself (`torn`).

*AttemptsInv* ties the number of sends to the state of the call and to
`retried`. *MergedInv* says that a finished result is the merge of all effects;
`RewritesCounted` turns the arbiter's count of distinct rewrites into agreement.

*EffectsInv*: effects come from processors that have had their turn, one from
each (`PipelineLists`: a pipeline runs each processor of its stage once). So no
two effects compare equal. `SortedInOrder` shows, for any list of things with a
priority and a name, that sorting exists (`ListExists`: a finite ordered set can
be listed), loses nothing and puts nothing before what it should follow; the last
catalog in that order is then the same for every order of registration.

*CatalogInv*: the catalog of the observation processor is the one narrowed by the
message the result is for. It runs with the domains, after the global rewrites
were merged, and nothing changes `heard` from then on. `NarrowedKeeps` shows that
narrowing keeps every candidate that is named, or of an entity nothing is named
of, unless an indicator is out of the scope of what is named. So the catalog
serves any message that is within `NamesNothingNew` of the one it was narrowed for.

### What rewriting makes of a message

`Replaced` is a recursion over the places of the message, defined by CHOOSE: that such
a function exists is an induction from its end (`ScanExists`), and from then on it is a
scan (`ReplacedScans`): at each place the rest is unchanged but for one word, or for
the name that is replaced there. `RewrittenSteps` and `FlattenSteps` do the same for
the fold over the replacements and for phrases put together.

*Nothing new.* A text stands in the result of a scan only if it stood in the message or
overlaps what was put in (`ReplacedAddsNothing`, with `NotAcross`: a text that cannot
overlap a value stands before it or after it). Taken replacement by replacement
(`RewrittenAddsNothing`) and with the data type in front (`LeadingAddsNothing`), this
gives `RewriteAddsNothing` for the observation processor. *MessageInv* carries it to the
result: `HeardInv` (unless another processor rewrote the message, the one shown is the
one said), `ObservedInv` (an effect of the observation processor is one of the message
shown) and `OwnMessage` (the arbiter takes its rewrite). Together with `CatalogInv` this
is `OwnCatalogCorrect`.

*The same.* `After(m, n, o, k)` is what stands for each phrase after the first `k`
replacements: itself or the candidate's value. The induction over `k` needs that an
alias stands in that text only where it is a whole phrase (`AliasStandsWhole`): it
shares no word with other candidates, their values or the fillers (`SharedWord`), a
longer name of its candidate that it is part of has been replaced before
(`NoShorterFirst`), and it does not begin in one name and go on in the next (`GoesOn`,
which is where `Legible` is needed). Replacing whole phrases is then replacing them
one by one (`ReplacesWhole`), and after all replacements the text is the body that
`SaysTheSame` speaks of (`RewrittenIsBody`, `AfterIsBody`). The candidates found are
those meant (`MatchedIsMeant`). *SaidInv* adds to *MessageInv* that the observation
processor has answered in every turn: all processors of a stage are in its pipeline
(`PipelineComplete`), and an order of the replacements always exists (`OrderExists`,
from the order of the candidates and the length of aliases).

### Only model-checked

* `EveryTurnEnds`, `LoadsEnd` and `LoadsRecover`: liveness under fairness is out of
  reach of the provers.

Every safety property of a passing run is proved, under the hypotheses above; the runs
check them without (`CatalogServesMessage`, `SaysTheSame`, `RewriteNamesNothingNew`)
for the names and readings they have.

## 5. Not modelled

* The tree prompt and the reading of YAML: files turned into text or constants
  at start-up, without state.
* Wording, titles, labels, display fields and the layout of query views; HTTP
  serialisation and the framework's own error responses.
* The recognizer: an external LLM. Sigma itself, beyond what the gateway can be
  told.
* URLs, headers and payload parsing of the gateway; the snapshot file.
* The runtime without a Sigma gateway, whose responder and validator work on
  static catalogs.
* Changes of Sigma's data during a turn (it is asked several times in one): the
  code compares nothing, so there is no promise to check.
* Overlapping names in `SaysTheSame`: names that share words are replaced one
  into the other (an alias that is part of its own value doubles it). The
  property is stated for names that can be told apart; the hazard is listed.
  `RewriteNamesNothingNew` is stated, and proved, for aliases that overlap too.

## 6. Plan

Done: the vocabulary, the pipeline with resolver queries, `SynapseTurns` and its
properties, `SlotStates`, the refinement of `AtomicTurns`, the gateway's indexes,
requests and snapshots, pre-recognition, and the theorems above. Left:

1. The runtime without a gateway, as a second deployment of the operator modules.
2. The view of a resolver query (facets and their counts), if its layout is ever
   given meaning by a client.
