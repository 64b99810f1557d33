# aiand-router: TLA+ specification of the routed turn

The router answers `/v1/messages`, `/v1/chat/completions` and `/v1/responses`.
For every turn of a client session it checks the caller's key, cleans the
conversation it was sent, picks a model and a provider, dispatches the request
with retry and failover, translates the answer into the client's protocol while
it streams, and records what happened so that the next turn can stay on the model
whose prompt cache is warm. This directory models the parts of that system in
which state outlives a step, checks them with TLC on small instances, and proves
with TLAPS, for every size of the instance, what matters most about the session-pin
table, the dispatch, the key cache and identity calls, policy routing, forced models
and rescues, the telemetry table and its emitter, and the keepalive goroutine.

## The system

| component | state it keeps | operations | what is hard |
| --- | --- | --- | --- |
| session-pin table (`db/queries/session_pins.sql`, `postgres/session_pin_repo.go`) | one row per session and role: pinned arm, runner-up, policy group, strategy, expiry, strike counters, usage of the last turn, switch latch, disabled providers | Get, Consume, Upsert, UpdateUsage, strikes, DisableProvider, SweepExpired | the reset rules of Upsert; in-place writes that arrive after the row was replaced |
| turn loop (`proxy/turnloop.go`) | none of its own; reads up to three rows, writes one | runTurnLoop and its many exits | decisions from rows read several store calls earlier |
| post-turn bookkeeping (`pin_eviction.go`, `provider_overload.go`) | the same rows | usage, history, strikes, dead arms, overload breaker, expiry | five or more store calls per turn with no transaction around them |
| slash-command continuation, `/beta` (`command_continuation.go`, `beta.go`) | a one-shot row per pin role; a persisted preference | grant, consume, invalidate; toggle, cleanup | served once, never after its source was cleared; turns of the old strategy still writing |
| forced models and rescues (`force_model.go`, `loop_detection.go`, `struggle_*.go`, `no_progress.go`, `spiral_detection.go`, `text_repetition.go`) | further rows, an event table, per-replica caches | force, unforce, detect, escalate, break | precedence; budgets counted in one call and spent in another; store calls that fail |
| policy routing (`policyclient`, `router/policy`, `policy_shadow.go`) | capabilities, in-flight attempts | query, retry, check, override, degrade, shadow, preview, report | late answers; fields that go stale when the router reselects; what may be learned from |
| request bodies (`translate/*`, `compaction.go`, `handover.go`) | the message list | strip, extract commands, sanitize, compact, hand over, emit on three wires | tool calls and results must stay paired through all of it |
| dispatch (`fallback.go`, `sibling_failover.go`, `service.go`) | prelude buffer, walk position, headers | binding walk, retry, failover, sibling rescue, deferred error | bytes and headers of a failed attempt; errors lost or sent twice |
| streams (`translate/stream.go`, `responses*.go`, `sse/keepalive.go`, `providers/*`) | translator and lifecycle state, held-back text, keepalive goroutine | translate, finalize, keep alive, watch | truncation, interleaved items, a frame inside an event |
| auth (`internal/auth`, `api/account`) | tables, LRU cache, reverse index, generations, login failures | verify, rotate, delete, customer keys, login | fill racing an invalidation; eviction callbacks; two statements where one is needed |
| telemetry (`postgres/telemetry.go`, `analytics`, `otel/emitter.go`) | the telemetry table, cursors, bounded queues | insert, export, summarise, rate, enqueue, shut down | rows that become visible late; queues full or closing |
| EV planner, scorers, semantic cache, catalog, admin API, dashboard, Python sidecar | data | | see Not modelled |

The components meet in `ProxyMessages`, `ProxyOpenAIChatCompletion` and
`ProxyOpenAIResponses`: auth middleware, ingress clean-up, commands, compaction,
`runTurnLoop` (store reads, rescues, decision, Upsert), `dispatchWithFallback`, at
most one sibling rescue, the stream, and the post-turn store calls and telemetry on
`context.Background()`. Nothing serialises the requests of one session: the database
makes each statement atomic and that is all.

## Modules

| module | models | composes |
| --- | --- | --- |
| `PinStore` | the rows of the pin table and its SQL statements, as operators from row to row | |
| `SessionPins` | the turns, slash commands and toggles of one session over the table | `PinStore` |
| `Reply`, `Dispatch` | what one client may see of a turn (abstract); the dispatch that implements it | `Dispatch` uses `Reply` by INSTANCE |
| `StreamLifecycle` | `translate/stream_lifecycle.go` and the events of the three protocols | |
| `ChatToAnthropic`, `AnthropicToChat`, `ResponsesToAnthropic`, `ResponsesToChat`, `ChatToResponses` | one translator each | `StreamLifecycle` |
| `StreamDecorators` | footer writer, badge and prelude buffer | `StreamLifecycle` |
| `ClientStream` | what a streaming client is promised (abstract) | |
| `Streams` | one streaming request end to end, with the keepalive goroutine; implements `ClientStream` for each protocol | the translators, `StreamDecorators`, `ClientStream` |
| `Requests` | the message list of a request from the client's history to the upstream's wire | |
| `AuthStore`, `KeyCache`, `Auth` | the identity tables, the key cache, the concurrent calls over both | |
| `Detectors`, `Interventions` | the detectors' counters; forces, rescues and breaks of a session | `Detectors` |
| `PolicyResolver`, `PolicyRouter`, `Policy` | eligibility, the checks on an answer, the turn around the sidecar | in that order |
| `TelemetryTable`, `Telemetry`, `OtelEmitter`, `Observability` | the rows and queries, their writers and readers, the exporter, both together | in that order |
| `MC...` | finite instances | |
| `Loops` | the filter loop that the binding walk, the arm resolver and the escalation target run (`Keep`) | used by `Dispatch`, `PolicyResolver`, `Interventions`, `Observability` |
| `LoopProofs` | what `Keep` computes, for every list | `Loops` |
| `SessionPinsProofs` | lemmas about the statements and the steps; theorems | `SessionPins` |
| `DispatchProofs` | the same | `Dispatch`, `LoopProofs` |
| `AuthProofs` | the types of tables, cache and calls; the theorems | `Auth` |
| `PolicyProofs` | lemmas and theorems | `Policy`, `LoopProofs` |
| `InterventionsProofs` | the same | `Interventions`, `LoopProofs` |
| `ObservabilityProofs` | the emitter; ORDER BY and the export; feedback | `Observability`, `LoopProofs` |
| `StreamsProofs` | the keepalive goroutine | `Streams` |

### PinStore and SessionPins

A row keeps every column a guard or a reset rule looks at. The token columns are
reduced to `maxed`, `pinned_until` to `live`, `last_turn_ended_at` to `ended`.
`audit` is a history variable inside the row: which strategies, models, pins and
providers the evidence of the row came from. No guard reads it.

`store` maps four roles to rows: the routing pin, the HMM history, and the
continuation role derived from either. `req[r]` is the request in slot `r`. An
action is one store call with the local code before it, so that requests interleave
exactly where the database lets them: arrival (`BeginTurn`, `BeginCommand`,
`ToggleBeta`), loads and the continuation, the exits of `runTurnLoop`
(`ServeContinuation`, `ServePinned`, `RouteFresh`, `Reanchor`, `DeadlineFallback`,
`ServeHMM`, `RouteFailed`), `DispatchTurn`, the post-turn chain in the order of
`ProxyMessages`, `LapseRow` and `SweepExpiredSessionPins` for the passage of time.
Guards on the request alone (exclusions, images, context window, prices) may drop any
pin, so an exit that needs no pin is always open, and the scorer is any choice among
the eligible arms. Forced and rescue pins and failing store calls are in
`Interventions`.

### Dispatch and Reply

`turn` fixes what routing and the deployment decided. The actions are the steps of
`dispatchWithFallback`, of `ProxyMessages` around it and of the HTTP handler; the
upstream is external. An attempt is its position in `tried`; the prelude buffer
holds the attempts whose bytes it contains, `wire.from` those whose bytes the client
has received. `Reply` says that the client sees the bytes of one attempt or one error
envelope and nothing after the end.

### Streams

The upstream offers the events its protocol allows next, and may be cut, reset,
refused or stalled at any of them; the client may leave. `Deliver` is one event
through the translator of the attempt, the decorators and the prelude buffer;
`half` marks a write the keepalive ticker may fall into. Failover happens only before
the first committed byte. `ClientStream` is instantiated three times, with the
client's view as refinement mapping, so that every translator is held to the
protocol of its client.

### Requests

A message is a role and blocks; a block holds fragments, and a fragment says what it
is (prose, badge, footer, command, acknowledgement, output, image) and which message
of the client's history it comes from. The history is kept once and written for each
surface; `Ingest`, `Commands`, `Compact`, `Route` and `Dispatch` are the handler's
stages in order, and the reply, or its absence, extends the history for the next
turn. Both properties are stated against that history and not against the operators:
`Expected` is what of it must arrive.

Abstractions: system messages are left out (every operator keeps them); clients echo
text verbatim, as `service.go:2453` assumes; ids of tool calls are unique; one command
per turn; the rescue ladder 6, 3, 1 is scaled to 3, 2, 1. Native Responses dispatch (the
client's own bytes) and the portable Codex projection are not modelled.

### Auth, Policy, Interventions, Observability

`Auth`: a step is one statement or one critical section of the cache, up to three
calls overlap, statements may fail, entries expire and are evicted at any time. One
provider per installation, and the order of the LRU is abstracted to any victim. A statement
whose error the code swallows goes on as if no row had come (`Answers`): the read of customer
keys, the session's installation, and the creation of an installation, which is then looked for again.

`Policy`: the sidecar answers anything, at any time, except that a marker it sends is
for the model its own answer names (`MarkerNames`, the sidecar's contract). A turn whose forced
model was dropped is routed inside its tier first (`RoutedReq`), and again without it unless the
policy is authoritative (`RouteUnconstrained`). A rescue takes the provider that the route named
for the peer, or the peer's first binding with a key of the deployment (`siblingProvider`). `Enumerate` is FALSE in the run,
since `NewArmResolver` has no production caller.

`Interventions`: one thread role and one strategy, on the Anthropic surface; provider
eligibility is `SessionPins`' subject. One replica is run, and `Forget` empties its
caches as another replica's would be. `claim` is a history variable: the force a turn
could count on when it began, dropped when another turn overrules it (`Overrule`); an
order for the session overrules claims on the control row and on a thread's old row
alike, since both are expired by it (`force_model.go`). The struggle table refuses a second
event of a session by its unique index (`Duplicate`), and the detector goes on as after any failed
insert; the loop table has no such index.

`Observability`: turns write rows from goroutines that commit late or fail, while one
reader of each behaviour (export, dashboard, feedback) works on the table; the emitter
shares no state with them and is a scenario of its own. An export consumer works for one
installation, whose key it holds. A session key is derived from the API key that signs
the requests (`session_key.go:111`), so that all turns of one key are of one installation
(`ExportConstants`). ORDER BY is `Ordered`: the list of the rows in the order of columns
that tell any two of them apart. Cache reads are summed and priced per model and provider
(`BindingOf`), and the per-model buckets have no column for the requested cost (`Usage`).

## What the runs show

| run | instance | shows |
| --- | --- | --- |
| `pins_concurrent` | 2 slots, 2 turns, 1 command, 1 toggle, pre-rollout pins, HMM turns | types; runner-up and policy group belong to the pinned model; switch latch; a continuation is served once per grant; no row mixes two strategies |
| `pins_live` | 2 slots, 3 turns, 1 lapse, one model of two providers, fairness | struck-out providers do not serve; strike-outs are kept; a struck-out pin does not stay live |
| `dispatch` | 2 models, 3 providers, every turn record | refinement of `Reply`; attempts permitted, bounded and rightly attributed; the upstream's error surfaces once; every turn is answered |
| `streams` | every pair of formats, 3 content events, 2 bindings | refinement of `ClientStream` three times; broken answers never look complete; nothing swallowed, listed twice or out of place; the keepalive goroutine is reaped; every request ends |
| `requests` | three surfaces and wires, 5 messages, window 9 | calls and results paired on every wire; the client's content arrives but for three named losses |
| `auth_calls` | 3 overlapping calls, cache of 1, 1 fault | rotation, login and customer-key calls keep the tables consistent; the index follows the cache; no deadlock |
| `policy` | 3 attempts, 3 messages, text budget 2 of 3, two tiers | the served arm is eligible; only a missed deadline degrades; what is sent for learning is true |
| `interventions` | 2 turns, 7 scenarios (commands, headers, model fields), 1 fault, 2 moments | a force decides who serves; a rescue is recorded once, with its pin, and serves |
| `observability` | clock of a few moments, 1 or 2 installations, pages of 1 row, queues of 1 | an installation's rows, and no other's, are exported once; dashboard figures agree with the rows; every span is posted, dropped or counted; a rating reaches the turn it names |
| `pins_doc_clear`, `pins_doc_strikes`, `pins_doc_switched` | 2 slots | violations: see below |

Bounds. Interference needs two slots or calls, three where one call must be overtaken
twice (a rotation, a deletion and a lookup). A second strike, and a turn that must
respect it, need three turns. Five messages are a prompt, a tool call, an
interruption, a second call and its results: the shortest history in which every
filter of the ingress has something to remove. Window 9, with outputs of 2 and
images of 9, makes every tier of the compaction cascade, its revert and its refusal
happen; hard-pinned turns send the same histories uncompacted. Three content events
open, fill and close two interleaved items. `Detectors` scales the thresholds of the
detectors to 2-4; an assumption checked by TLC compares `trailingPingPongLen` with a
declarative definition on all sequences of up to six signatures. Counters that can
overflow (`Int32Max`) and calendars (`HoursPerDay`, `DaysPerWeek`) are scaled too.
`pins_concurrent` has two models with a provider each, so that a re-pin changes both;
its rows also begin as pins of before the rollout (`LegacyPins`), which is how a session
has something to re-pin, to strike or to switch from within two turns. `pins_live` has one
model that two providers serve: an overloaded provider is struck out and the walk fails over to the
other, which is all that its properties are about. No run has `Authoritative = TRUE`, so
the policy-group half of `CompanionsMatchPin` is idle in TLC and rests on the theorem
`CompanionsMatch`, and the outcomes `"cut"`, `"maxed"` and `"unmetered"` of a turn are covered by the
theorems only.
Runs without liveness use symmetry where slots or turns are interchangeable. The runs
stop when the bounds are used up, hence `CHECK_DEADLOCK FALSE`.

Fairness. Post-turn store calls run on `context.Background()`, wait for no other
request and return an error at worst (`pins_live`). A silent upstream is cut off by the
response-header timeout or the watchdogs of `StreamBody` (`dispatch`, `streams`); in
`streams` also a whole write is delivered and the keepalive loop sees its closed
channel. Goroutines that can run do run (`auth_calls`). No request is assumed to
arrive, no upstream to answer.

## Where the code and its comments disagree

Three runs expect a violation.

- `pins_doc_clear`: `turnloop.go:770` says "an explicit clear must never be undone by a
  stale continuation row"; a turn that loaded the pin before the eviction still serves the
  continuation it has taken, and writes the pin back. Without overlap the claim holds
  (theorem `ClearsAreFinal`).
- `pins_doc_strikes`: `store.go:110` says in-place mutations are no-ops on a replaced pin
  "so a late request cannot mutate a replacement row"; the strike matches key, role and
  strategy, not the model, so that a turn that fails after another has re-pinned charges a
  model that never failed, and two such strikes evict it.
- `pins_doc_switched`: `turnloop.go:211` says the flag of a switched session is kept "for the
  life of the session"; a continuation row carries no switch history and the turn it serves
  takes its history from that row (`turnloop.go:1181`) instead of from the pin.

Met while modelling, and described here without a run of their own:

- Pins. One overload counter per row, whatever provider
  served (`session_pins.sql:250`, against 119). A late HMM writeback revives a row that
  was expired with its provider, and the stay keeps that provider (`turnloop.go:1814`,
  against `provider_overload.go:85`); the dispatch still refuses it. `store.go:80` says
  the disabled set "Only grows for the life of the row"; Upsert empties it on a strategy
  change.
- Dispatch. `service.go:3137` says a post-commit error is rendered "as an in-stream
  `event: error` frame"; `fallback.go:539` renders only buffered upstream errors, and
  those arise before output.
- Streams. `responses_to_openai_chat_writer.go:453` says `finishStream` flushes an open
  tool call; it runs after the lifecycle is terminal and the flush is refused. The model's
  upstream ends an item before it completes the response. An item that arrives whole,
  without deltas, followed by truncation gets no error frame
  (`responses_to_anthropic_writer.go:1052`), the exception in `TruncationAnnounced`. A
  Responses upstream that fails after output ends in an error event and a nil error.
- Requests. `envelope.go:591` says a message with `content:[]` is refused, so block rewrites
  drop an emptied message; the badge strip (`envelope.go:908`) does not, and the
  acknowledgements of `/force-model` and feedback on the Anthropic surface, which have the
  badge's form, are stripped to such a message before the filter that should remove them
  looks. The removal of unpaired calls leaves a message without content on the chat
  surfaces, on the Responses surface between two parallel calls and their results. A
  `/beta` typed after an interrupted tool call is forwarded as text and later removed with
  a following reply that only called tools (`Swallowed`). Trimming to one message that
  holds only tool results leaves no message at all. Images are lost in three places, the
  exceptions `Expected` makes (`Dropped` and the last conjunct): the Responses surface keeps none
  (`responses.go`), reads a tool output as a string and so loses an array output whole, text
  included (`responses.go:284`), and a chat tool message is flattened to text for a Responses
  upstream (`emit_openai_responses_from_openai.go:144`, although line 11 of that file says
  "nothing is silently dropped"). Past `/force-model` turns and
  directives inside tool results stay in the history.
- Auth. A lookup that read a key before its deletion caches it after the invalidation
  (`service.go:557`, against the comment at 243); an eviction between the index update and
  `Add` leaves an entry no invalidation finds. Both are the exceptions `overlap` and `raced`
  of `DeletedKeyRefused`. An invalidation takes the index and then removes the entries one
  by one (`apikey_cache.go`), so a deletion that runs in between finds nothing to remove and
  returns while the entry is still there: until the earlier invalidation, of a settings
  change say, reaches it, the deleted key verifies. The failed proof of `DelInv` showed it,
  with one call more than the run has; `Deleted` now waits for `Removing`, and that form
  also passes TLC with four overlapping calls. A failed read of customer keys is cached as empty. A rotation
  that fails to mint does not invalidate the key it has deleted.
- Policy. A turn rescued by a sibling model is reported as if the policy had selected it
  and stays trainable, against `docs/POLICY_ROUTER_HARNESS.md:174-177`; of such a turn
  `SidecarToldTruth` says only that the model credited was among the sidecar's candidates.
  A missed deadline fails a turn that has a pin or a default on two paths, the exceptions of
  `DegradesOnlyOnDeadline`: `runTurnLoop` returns the error before its fallback when there is
  no pin store (`turnloop.go:758`) and when an authoritative turn was confined to the tier of a
  dropped force (`turnloop.go:1241`); the comment at 1252 says "Deadline != correctness failure". A list that chooses another provider's arm of the same
  roster id is refused by the provider agreement check. A ladder whose last attempts were
  503 carries no deadline although an earlier one timed out.
- Interventions. A turn that loaded its row before a rescue overwrites the rescue's pin,
  and the spent budget prevents another. A loop pin clears the policy group, so the struggle
  rescue finds no target. `text_repetition.go` "Mirrors handleNoProgressBreak's mechanics"
  but expires legacy forced pins. Hard-pinned turns have a zero session key and share one
  no-progress bucket per installation.
- Telemetry. Cache-read totals are truncated to int32 before they are priced. `/rf -1`
  while the last row is in flight rates another turn. The summary is two statements, so
  savings may include rows the counts do not.

## What is proved

Each theorem below holds for every value of the constants that satisfies the named
assumptions of its module; TLC evaluates these assumptions in the runs. Each `Inductive` is
the invariant from which the others follow.

| theorem | states | for every |
| --- | --- | --- |
| `SessionPinsProofs!TypeCorrect` | `Spec => []TypeOK` | catalog, slots, strategies, bounds |
| `SessionPinsProofs!StrategiesIsolated` | `Spec => []StrategyIsolation` | |
| `SessionPinsProofs!CompanionsMatch` | `Spec => []CompanionsMatchPin` | |
| `SessionPinsProofs!SwitchesLatched` | `Spec => []SwitchLatched` | |
| `SessionPinsProofs!StrikeOutsKept` | `Spec => DisabledKept`, an action property | |
| `SessionPinsProofs!OneShot` | `Spec => []ContinuationOneShot` | |
| `SessionPinsProofs!DisabledNeverServe` | `Spec => []DisabledNeverServes` | |
| `SessionPinsProofs!ClearsAreFinal` | `Spec => ClearNeverUndone`, an action property | the same, with one slot |
| `DispatchProofs!Inductive` | `Spec => []IInv` | models, providers, bindings, turns |
| `DispatchProofs!AttemptsAreSound` | `Spec => []AttemptsSound` | |
| `DispatchProofs!ErrorSurfaces` | `Spec => []UpstreamErrorSurfaces` | |
| `DispatchProofs!ImplementsOneReply` | `Spec => ImplementsReply`: `Dispatch` refines `Reply` | |
| `AuthProofs!AuthTyped` | `Spec => []TypeInv` | number of calls, users, capacity, faults |
| `AuthProofs!Inductive` | `Spec => []AuthInv` | |
| `AuthProofs!OneSuccessor` | `Spec => []RotateOneSuccessor` | |
| `AuthProofs!LockoutIsEarned` | `Spec => []LockoutEarned` | |
| `AuthProofs!IndexComplete` | `Spec => []IndexTracksCache` | |
| `AuthProofs!AdmissionIsSound` | `Spec => []AdmissionSound` | |
| `AuthProofs!IdentityIsStable` | `Spec => []IdentityStable` | |
| `AuthProofs!ByokIsKept` | `Spec => []ByokSurvives` | |
| `PolicyProofs!Inductive` | `Spec => []PolicyInv` | catalog, roster, requests, answers, attempts, text budgets |
| `PolicyProofs!ChoiceEligible` | `Spec => []PolicyChoiceEligible` | |
| `PolicyProofs!DeadlineDecides` | `Spec => []DegradesOnlyOnDeadline` | |
| `PolicyProofs!ToldTruth` | `Spec => []SidecarToldTruth` | |
| `ObservabilityProofs!Inductive` | `Spec => []EmitterInv` | requests, items, workers, queue and batch size |
| `ObservabilityProofs!SpansAreAccounted` | `Spec => []SpansAccounted` | |
| `ObservabilityProofs!ExportIsExactlyOnce` | `Spec => []ExportExactlyOnce` | turns, installations, page size, time-outs below the holdback |
| `ObservabilityProofs!FeedbackHits` | `Spec => FeedbackHitsTurn`, an action property | turns, sessions, strategies |
| `InterventionsProofs!ForceIsHonoured` | `Spec => []ForceHonoured` | catalog, roster, settings, turns, replicas, faults |
| `InterventionsProofs!RescueIsSound` | `Spec => []RescueSound` | the same, with `Timely` |
| `StreamsProofs!KeepaliveIsReaped` | `Spec => []KeepaliveReaped` | requests, upstreams, events, bindings |
| `StreamsProofs!SilentAfterClose` | nothing reaches the client once `Close` has begun, an action property | |

### Session pins

Assumptions: `StoreConstants` and `NoRowIsNoRow` (the blank model, provider and row are
not real ones, the pre-rollout strategy is not a live one) and `SessionConstants` (types).

None of these is inductive alone, because a row is rewritten from
copies that requests read earlier. `IInv` adds that every row a request holds
(`pin`, `hist`, `cont`) is as well formed as a stored one, that a live routing pin
and every pin found live name a real model and provider (otherwise a refresh could
store a blank live pin and a usage writeback a blank model), and that the arm a
request is charged to is real from the dispatch on. The first part shows once for
every statement that it maps good rows to good rows; the step lemmas (`...Keeps`)
combine that with what the request may become, one lemma per action, and
`NextGood` collects them. `SwitchLatched` rests on `LatchOf`: as long as the latch is
clear, the only model ever recorded is `last_served_model`. `StrikeOutsKept` needs no
invariant beyond the types: each statement keeps the disabled set under the same
strategy (`StatementsKeepDisabled`, `UpsertKeepsDisabled`).

The properties of a single turn need to know what a request still carries at each of its
steps. `ChainInv` says it for the post-turn steps: only a sticky turn is struck or evicted
for a degenerate reply, and an expiry returns to the strike only in a turn that was served; the
lemmas `...Is` say for every action what it leaves in the request that takes it. On top of that:

- `HeldInv`, for `OneShot`: redeemed continuations, those in the hands of a request and the
  one in the table together never exceed the grants.
- `ServedInv`, for `DisabledNeverServe`: nothing is served before the dispatch, and the
  dispatch refused what the loaded rows had disabled. No assumption on overlap is needed.
- `ClearInv`, for `ClearsAreFinal`: a continuation that predates a clear is about to be deleted
  by the very turn that cleared. With two slots this is false: `pins_doc_clear` is the
  counterexample, so the theorem assumes one slot (`\A r, s \in Requests : r = s`).

### Dispatch

Assumption: `DispatchConstants` (types, and a model's bindings are distinct, as in the
catalog). The properties speak of the end of a turn or of the whole list of attempts, so
`IInv` says what holds on the way. `WalkInv`: the position, the list and the arm belong to
each other, also after a sibling rescue. `BufInv`: the prelude buffer holds at most the
last attempt's bytes, and nothing once committed. `WireInv`: what the client has, place by
place; this makes every step a step or a stutter of `Reply`. `ErrInv`: an upstream error
that is still to be sent has not been sent, and has been when nobody will send it any more.
`TriedInv`: a walk with alternatives tries an arm once, a walk of one binding spends its
attempts in a row of three (`SpreadOf`), and the attempts of the walk under way lie behind
its position (`RecentInv`); the retry bound is a cardinality derived from that.
`ResolveSound` shows that the walk starts from distinct, permitted providers.

### Auth

Assumptions: `AuthConstants` (types; the cache and the lockout have a capacity) and
`MixesAssumption` (a mix names calls that exist). The number of concurrent calls is a
constant. `TypeInv` carries, per place of a call, what its earlier statements have left in
its locals (`Local`). `RotInv`: a rotation that has won the soft delete is the only one.
`LockInv`: every counted failure is a distinct refused login. `IdxInv`: a cached key is in
the index, or being removed, or its caller is still to notice the new generation; the
generation read before the fill (`pregen`) is what makes this inductive. `DelInv`: once a
deletion has run, its row is dead; once it has drained the index, the entry is gone or some
invalidation holds it. `HomeInv` and `PeopleInv`: one account per user, one active
installation per account, one row per address, and whoever holds an id, a call or the
identity cache, holds that row's. `ByokInv`: after a stored customer key the table is empty
only between the two statements of a replacement.

### Policy routing

Assumptions: `ResolverAssumption` and `PolicyAssumption`: the types of catalog, requests and
settings, `MarkerNames`, and, when arms are enumerated, distinct roster ids. `PolicyInv` says that each
call holds its own query and a result that its attempts justify (`CallInv`), that the turn
is served for a reason its serving call gives (`TurnInv`), and that a report repeats what
was selected and served (`PostInv`). Most of the work is in the operators: `ResolveSound`
(whatever the filters leave is offered, permitted and told apart by its id), `ChooseSound`
(selection, per-key lists, overrides and forced clusters end at an eligible arm or refuse)
and `WholeConversation` (`convertRouteMessages` and `routeMessagesTruncated` are two
functions with two sets of conditions; for every conversation and every budget the second
says "not truncated" only if the first kept everything).

The recursive functions involved (`Keep`, `FlattenSeq`, `KeptFrom`, `TextFrom`) need
induction. The library's induction theorems take an operator and cannot be used, so the
proofs go by least counterexample: `LoopProofs!Least` derives from `WFMin` that every
non-empty set of numbers has a least element, and each lemma applies it to the set of
lengths at which it would fail.

### Telemetry emitter

Assumption: `EmitterConstants` (types, positive queue and batch sizes, at least one
worker). `SpansAccounted` counts places; `EmitterInv` says where an item can be: lists
hold an item once and only in the list of its own request or kind (`Homes`), a flushed item
is in exactly one of buffer, queue, batch, dropped and posted and another in none
(`Placed`), and (`Closing`) nobody is inside `Enqueue` once the channels are closed, a
worker stops only at the end of its closed channel with an empty batch, and a drained
`Shutdown` has seen every worker stop. The theorem is about `Observability!Spec`, so the
writers and readers of the telemetry table run beside the emitter.

### The export and feedback

Assumptions: `TableConstants` (`Null` is not a number) and `ExportConstants`: `InsertTimeout +
Skew < Holdback`, which is what the holdback is for; ids are primary keys; the turns of a
session are of one installation.

`TableInv`: a row belongs to a turn whose insert is over, and an insert under way was fired
less than `InsertTimeout` ago, so its `created_at` is younger than `Holdback`. `ExportInv`: the
window asked for and the cursor lie at least `Holdback` behind the clock, and the consumer has
stored exactly the rows up to the cursor, in order. A row that commits later is then always
ahead of the cursor (`CommitKeepsExport`), and a page extends what is stored without a gap,
because it is the front of the ordered rows after the cursor (`PageIs`).

`FeedInv` says that the answers of a session reached the client in the order of their event
times, since a client waits for an answer before its next turn (`ShownInv`, `SessionInv`), and
that a row says of its turn what the feedback command asks, and every finished insert has its
row (`LedgerInv`). Once all rows are in, the ordered rows of the session and the turns the
client saw are two lists of the same set in the same order, hence the same list (`SeenRows`),
and a number counts to the same turn in both, from the front or from the end (`LookupIs`).

Both rest on what ORDER BY is: a finite set with a strict total order can be listed in order
(`SomeOrder`, by ranking each element by the number of elements before it) and in one way only
(`OnlyOrder`, by the least place at which two listings differ).

### Forced models and rescues

Assumptions: `CatalogAssumption` (types) and `SettingsAssumption` (what a session begins with
was written by the router: a force names a model, and a forced pin does not expire).

`IInv` has five parts: the stores hold what the router writes, and turns under way together are
known to overlap (`StoreInv`); where a turn is and what it holds there (`TurnInv`); what a turn
with a claim can count on, from its first store call to the model that served it (`ClaimInv`); a
turn about to record its detector saw no record, so whoever recorded since ran beside it
(`EventInv`); what a turn that runs alone knows of its rescue (`RescueInv`). `RescueIsSound`
assumes `Timely`: a turn ends before the pin it wrote expires (`pinSessionTTL` is an hour);
otherwise the rescue has lapsed when the turn loads it. The proof of `ClaimInv`
corrected the model: an order for the session expires a thread's old forced row in a step of
its own, so that a concurrent turn loses its claim to that row as well (`Overrule`).

### The keepalive goroutine

`KeepaliveInv`: `Close` was called iff the handler is past it, a closed writer is stopped, no
write arms a goroutine after that, and the handler returns only when none runs. `Silent` adds
that `Close` leaves nothing queued. The translators are not looked into, so both theorems hold
whatever they write.

### Only model-checked

- Liveness (`StruckOutIsEvicted`, `Answered`, `Terminates`, `CallsReturn`): fairness is out
  of the prover's reach.
- `EndsHonestly`, `ContentFaithful` and the three refinements of `ClientStream` in `Streams`:
  they say what five translators and the decorators write for every sequence of events, each fed
  through a fold over the events of a write.
- `PairedUpstream` and `ConversationFaithful` of `Requests`: what compositions of a dozen
  recursive operators compute for every message list, an induction over data.
- `DashboardConsistent`: sums over sets, built by folds that take an operator.

## Not modelled

- EV planner and HMM cost gate: arithmetic on floating-point prices. `SessionPins` takes
  either verdict.
- Cluster scorer, bandits, RL, band swap: numeric scoring over embeddings. The models take
  any eligible arm.
- Semantic response cache: similarity decides a hit; only the row it writes is modelled.
- Catalog, configuration, flags: static data, constants of the models.
- HTTP plumbing, most of the admin API, generated code, dashboard, installer, Python
  sidecar.
- Within modelled parts: usage extraction, non-streaming bodies, tool schemas and sampling
  parameters, native Responses passthrough with its badge code (`responses.go:971-1598`,
  which no dispatch reaches with a badge), the compaction trim detector, the user-cluster
  cache (a copy of the key cache), and `SubmitFeedback`, which has no caller.

## Plan

1. Composition: `Dispatch` as the dispatch step of `SessionPins`, `Streams` as its attempts.
2. The planner's decision table over bounded integer prices; the trim detector.
3. Proofs: per translator, that what it writes is a path of `ClientStream`, from which
   `EndsHonestly` and the refinements of `Streams` would follow.
