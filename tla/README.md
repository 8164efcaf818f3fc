# A verification project for simple-openai-gateway

The gateway accepts OpenAI-compatible requests, authenticates them with its own
API tokens, plans a route over several upstream channels, relays the request
(retrying on other channels where that is safe), and keeps logs, costs, sessions
and health state in one SQLite database. This directory models it in TLA+, checks
the models with TLC on small instances and proves the central invariants with
TLAPS for every value of the constants.

`PROJECT.json` lists every component, run, mutant, mapped definition, finding,
hazard and theorem; this file explains them.

## 1. Inventory

All paths are under `src/`. Go code without tests is about 27,700 lines, most of
it in `internal/gateway`.

| component | state | operations | what is hard | what makes it correct |
|---|---|---|---|---|
| channel circuit breaker (`relay.go`, `circuit_records.go`, `management.go`) | circuit columns of `channels`, flags of `channel_models`, `circuit_records` | verdicts of attempts; reset, reopen, replace, edit, delete | verdicts arrive late and interleave with administration; the edit is not transactional | columns, flags and records agree; the level moves one step; a disabled mapping can be reopened |
| relay of one request (`relay.go`) | the execution: attempts, stream, logs, usage | plan, choose, call, read, stream, settle, record | client cancellation anywhere, retries, streams that fail late, failing writes | one answer, one request log, billed once if successful, at most three attempts |
| route planning (`router.go`, `routing_metrics.go`, `success_metrics.go`) | `session_affinities`, `response_affinities`, attempt logs read as metrics | plan, order, remember a route | affinity is read, compared and written in separate statements; scores, balance and exploration multiply | a session keeps its route while it is usable; priorities are never bypassed; nobody starves |
| payload adaptation (`payload.go`, `chatgpt_oauth_payload.go`, `chatgpt_oauth_chat.go`, `context_window.go`, ...) | the parsed request; accumulators and a stream converter; learned windows | build bodies, convert requests and answers, learn windows | objects shared between attempts; interleaved fragments; three judges of one answer | nothing said is lost, doubled or misplaced; attempts are alike; the forms agree |
| API token access (`access.go`, `api/openai_relay_api.go`) | `client_tokens`, in-memory windows | authenticate, acquire, release, update | limits change between reading and admission; window boundary | slots neither leak nor double; limits hold |
| ChatGPT OAuth credentials (`chatgpt_oauth.go`) | tokens in `channels` | refresh under a per-channel lock | a rotated refresh token must be saved; cancellation; stale edits | no spent refresh token is used as the current one |
| console accounts, sessions and tokens (`auth.go`, `management.go`, `api/admin_*`) | users, sessions, tokens, scopes | login, revoke, update, rotate, delete | read-then-save edits; a login between verification and session | a revoked credential opens nothing; scopes agree with their flag |
| channel verification (`verification*.go`) | sessions, jobs, attempts, reports | create, run, stop, resume at start, finalize | workers, retries, stop requests, restarts | the attempt budget survives a restart; a session ends |
| request logs and statistics (`session_logs.go`, `log_*`, `historical_*`, `channel_model_daily_stats.go`, ...) | request, attempt and step logs, bodies, daily statistics | record, aggregate, compact, clean up | differences against rows that expire; hashes that pass over what differs; migrations that add | what is shown of a body was sent, and what is left out was recorded before as far as its hash tells; totals survive cleanup |
| agent sessions (`agent_sessions.go`, `codex_*`, `copilot_*`, `dsh_*`) | session states, claims | recognise a client's session, merge auxiliary requests | claims of concurrent requests; titles recorded before or after their turn | one session per conversation; nothing is merged into a stranger |
| store, migrations, cleanup (`store.go`, `resources.go`, ...) | schema, resource catalogue | migrate, backfill, expire | restart between steps | every backfill has its effect once |
| transactions, HTTP API, application shell, frontend, tools | none of interest | bind, serve, configure | - | - |

Interaction: a handler in `internal/api` authenticates and acquires a slot
(`ClientAccessService`), calls `RelayService.RelayWithTrace`, and releases the
slot when it returns. The relay resolves the agent's session, asks `Router` for a
plan, checks each candidate again just before use, and reports a verdict per
attempt to the circuit breaker (`recordChannelFailureState`,
`recordChannelRecovery`) and per request to the logs, whose transaction merges
auxiliary requests, compacts bodies, links resources and learns context windows.
`ManagementService` changes the same rows from the console. Components share the
database, one mutex per channel for circuit verdicts, one per channel for OAuth
refreshes, and the mutex of the access windows.

## 2. Modules

| module | what it models | checked in |
|---|---|---|
| `ChannelCircuit` | the breaker of one channel and every transactional operation on it | `channel_circuit` |
| `ChannelEdit` | `ChannelCircuit` composed with the two statements of `UpdateChannel` and the clock | `recovery` |
| `RelayRequest` | one request: the loop, the attempts, buffered and streamed responses | `relay` |
| `RouteOrder` | the order in which candidates are tried, and the attempt log it is computed from | `relay` |
| `RequestBody` | what each attempt is sent, and the conversion to the Responses form | `relay` |
| `ChatAnswer` | the answer of a ChatGPT OAuth channel in its three forms | `relay` |
| `TokenAccess` | the rate window and the slots of one token | `access` |
| `Console` | a token or account and the console sessions opened with it | `access` |
| `OAuthRefresh` | the refresh of a channel's credentials under its lock | `access` |
| `SessionRoute` | the route of one session, remembered by overlapping requests | `session` |
| `ChatSession` | the session of a conversation that names none | `session` |
| `ContextWindow` | the context windows learned from compactions | `session` |
| `SessionLog` | requests of an agent recorded in sessions: titles, guardians, compactions | `session_log` |
| `PayloadLog` | stored bodies, their differences, and the resource catalogue | `payload_log` |
| `RequestArchive` | what the log promises of a body: the abstract specification `PayloadLog` implements | `payload_log` |
| `VerificationRun` | one verification session: run, workers, stops, settlement, crashes, resumption | `verification`, `recovery` |
| `Upgrade` | the start-up of the gateway on a database of an older version | `recovery` |
| `*_proofs` | theorems, section 4 (`Access_proofs` those of `Console`, `TokenAccess` and `OAuthRefresh`, `Session_proofs` those of `SessionRoute`, `ChatSession` and `ContextWindow`, `Relay_proofs` those of `RelayRequest`, `RouteOrder`, `RequestBody` and `ChatAnswer`) | |
| `MC*` | instances for TLC, and the compositions below | |

Components that share no row are put into one instance side by side, one of them
at work in each behaviour (`part`); this is a way to check several questions in
one run and says nothing about their interaction. Where components do interact,
one module contains both: `ChannelEdit` extends `ChannelCircuit`; `PayloadLog`
has bodies, session states and resources in one transaction; `SessionLog` has
recording, renaming, cleanup and backfill; `ContextWindow` has profiles, states
and rows.

### State and actions, module by module

**ChannelCircuit.** `channel` is the `channels` row; `openFor` is
`circuit_open_until` minus the present, -1 for NULL, 0 for a deadline that has
passed. `mappingState`, `mappingEnabled` and `circuitDisabled` are the
`channel_models` rows (`AUTOINCREMENT` ids are used once), `pending` the
unresolved `circuit_records`, `attempt` the mapping each attempt in flight was
sent through. Each verdict and each console operation runs in one transaction
(verdicts also under the channel's mutex) and is one action. What is concurrent is
the time between `StartAttempt`, which reads the row, and the verdict. A
transaction that fails appears as `EndWithoutVerdict`. The initial state has a
fresh channel, or one at the legacy level three.

**ChannelEdit.** `UpdateChannel` loads the row (`BeginEdit`) and saves all
columns (`CommitEdit`) without a transaction; `EditTick` ages the row and the copy.

**RelayRequest.** `stage` is where `RelayWithTrace` stands: `planning`,
`choosing` (the loop head and `plannedCandidateAvailability`), `awaiting`
(preparation and `client.Do`), `reading` (a buffered body), `streaming`,
`settling` (an attempt returned an error), `done`. Responses are classes: 2xx,
statuses that are retried, credential failures, 403 `model_not_allowed`, other
client errors; a body or an event may report an application failure.
`ClientLeaves` may happen at any moment. Records use `context.WithoutCancel` and
are assumed to be written (the code only traces a failure to write them).

**RouteOrder.** `availableCandidates`, `scoredRouteDecision`,
`applyRouteBalance`, `applyColdStartExploration` and `orderCandidates` as integer
functions of the attempt log; probabilities count in parts of `Scale`. `exp` is
replaced by a rational function with the same value at 0, direction and bounds.

**RequestBody.** `payload` is `RelayPayload.values`, `sent` the bodies of the
attempts. A message is told from another by its place, so that an item of the
converted input carries the place it came from. Go's sharing of nested objects
is modelled: `SendBody` may change `payload`.

**ChatAnswer.** One upstream stream is shown to the chat stream converter behind
`streamResponse`, to the accumulator of buffered chat completions, and to the
accumulator of buffered responses. Fragments are numbers in the order sent. Each
form has a result of its own: `success`, `retry` or `failed`.

**TokenAccess.** `Authenticate` reads the row, `Acquire` and `Refuse` decide
under the mutex with the limits read, `Release` is the deferred call. `window` is
`tokenWindow`; `recent` is a history variable of the rate property.

**Console.** `login` and `edit` hold what a handler has read; a secret is a
generation. `Verify` and `CreateSession` are separate, as are `ReadToken`,
`ReadLinks` and the transaction of `UpdateToken` or `RotateToken`.

**OAuthRefresh.** `request` goes through the planned copy of the channel, the
lock, the second read, the provider and the save; `channelEdit` is `UpdateChannel`,
`tokens` the number of refresh tokens the provider has issued. `lost`
records that a successor could not be stored or was overwritten.

**SessionRoute.** `route`, `responses` and `latest` are the affinity tables and
`latest_request_id`; each request plans, tries, compares and writes in separate
steps. Candidates nothing pins come in any order here.

**ChatSession.** `claim`, `state` and `rows` are the three tables with their
ages; `ResolveClaimed` and `ResolveByHistory` are the transaction of
`resolveCopilotChatSession`, and `RecordRequest` what `compactSessionPayload`
writes. The cleanup's statements are separate actions, the manual deletion is one.

**ContextWindow.** `log`, `shown` and `profile` are the three tables.
`UpdateSessionContextWindow` is a function of a record of all three, because the
backfill applies it many times in one transaction. Samples are kept with the
model they came from (history). `Replayed` is the backfill after so many rows.

**SessionLog.** `RecordStarted` and `RecordRequest` are the two transactions of a
request, merging forwards and backwards; renames, the cleanup (`sweeping`), the
deletion and the backfill interleave with them. The lookups of a merge read the rows
of a span of time and a number of them at most (`Within`, `Around`, `CandidateLimit`
for the 8 of a recording, `BackfillLimit` for the 20 of the backfill), and take the
first that matches; the row a later limit keeps out is not merged, and `InReach` says
which those are.

**PayloadLog.** `row` holds the request and attempt bodies as whole, as
difference to a base, or gone; `state` the manifest a later request is compared
with. The manifest holds the hash of the whole field and one hash for each message;
the second kind is `ItemHash`, a constant, because `conversationItemHash` passes over
images and over what a reasoning item holds, so that different messages have one hash.
A difference has lost what was left out: it tells how many messages, and in which
request they were recorded. Nothing in the repository puts the two together again (the
console shows the difference and says what was omitted), and neither does the model.
The cleanup's statements, clearing, deletion and the resource cleanup are separate
actions. `Archive` is the refinement mapping to `RequestArchive`: what the log tells of
each body is `pending`, `told` (a base, a number of messages left out and those shown),
`lost` or `deleted`.

**VerificationRun.** `session`, `jobs`, `evidence`, `report`, `logs` and
`accounted` are rows; `resume`, `starter`, `stopper`, `run`, `workers` and
`closing` are where the goroutines stand. Each update of a row is an action and a
crash may fall between any two; the transactions of `Start`, `finalizeSession` and
`failSession` are one action each. `Send` is the rendezvous on the unbuffered
channel. Writes whose error the code ignores are assumed to succeed while the
process lives.

**Upgrade.** `Order` is the sequence of migrations in `Store.migrate`; each is
one transaction with its row of `gateway_migrations`, except the two that work in
batches. A crash may fall between any two. A state of a session is written when a
migration or a request changes it, and has an age of its own: those the older version
left are `recent` or `expired`. The cleanup ignores its errors, so a statement may fail
and take effect a day later: its statements are separate actions, in any order. What
is `Retained` is one cut-off for the whole behaviour. The claims that the cleanup
deletes as well are in `ChatSession`.

## 3. Runs

| run | question | bounds | result |
|---|---|---|---|
| `channel_circuit` | Do late verdicts, in any interleaving with administration, keep columns, flags and records in agreement? | 2 models, 3 mapping ids, 3 attempts in flight, threshold 2, durations 1 and 2 ticks | holds, 118,652 states up to symmetry |
| `relay` | Are candidates tried in a sound order, sent what was asked, answered, recorded and billed once, and is the answer complete in every form? | 3 candidates and 3 attempts of history; 4 candidates in a plan; 3 messages and 2 attempts; 3 items and 3 fragments | holds, 276,676 states |
| `access` | Do revoked secrets open nothing, limits hold while they change, and refresh tokens get spent once? | 1 login, 2 edits, 2 generations; 3 handlers; 2 relays, 1 edit, 3 refresh tokens | holds, 881,391 states up to symmetry |
| `verification` | Do session, jobs, report and logs agree at the end, whatever stops and crashes do? | 2 workers, 2 jobs of 2 attempts, 1 crash | holds, 706,807 states up to symmetry |
| `recovery` | Does what has to come right by itself come right: an upgrade, a verification, a circuit? | 5 old and 2 new requests of 3 sessions (with a recent state, with an expired one, with none) over 5 days, 2 crashes; 1 worker, 2 jobs, 1 crash; 1 mapping, 2 attempts, 2 edits | holds, 139,371 states |
| `session` | Does a session keep its channel, its identity and its window? | 3 requests, 2 models, 2 channels; 4 conversations, 2 session ids; 2 sessions, 2 clients, 2 requests | holds, 875,368 states |
| `session_log` | Do auxiliary requests end in their session, with its title and its count? | 5 requests (1 main, 1 compaction, 2 titles, 1 guardian), 3 session ids, 3 histories, lookups of 1 row (recording) and 2 (backfill), 1 rename, 1 day | holds, 606,242 states |
| `payload_log` | Is what the log tells of a body true: shown as it was sent, and what is left out recorded before as far as hashes tell? Is every resource catalogued and linked? | 3 requests of one session or none, 4 messages of which 2 have one hash, 2 days, 1 cleanup | holds, 1,070,543 states up to symmetry |
| `verification_budget` | At most three attempts per job, restarts included? | 1 job of 3 attempts, 1 crash | no: finding 1 |
| `relay_cancel` | Is a client's departure never held against a channel? | as `relay` | no: finding 2 |
| `relay_usage` | Are only channels that support it asked for usage? | as `relay` | no: finding 3 |
| `stats_rebuild` | Do daily statistics survive the logs they were made from? | as `recovery` | no: finding 4 |

Why the bounds are enough. The breaker has three levels; three attempts in
flight and a threshold of two reach each level by counting and at once, reach the
third trip, and leave attempts to report after it. Four candidates and at most
three attempts let skipping, exhausting the plan and exhausting the attempts be
told apart; a configured maximum above three exercises the cap. Three candidates
are the least with a best one, a cold one and one of lower priority. Two attempts
are enough for one to spoil what the next is sent; three messages hold a call, its
result and what surrounds them. Two ticks are the least that distinguish a young,
an old and an expired window. Three overlapping requests are the least in which
one is recorded between another's comparison and its write while a third has
planned with the old route. A conversation, its two continuations and a stranger
give every way to be a prefix, to be ambiguous and to be unrelated. Lookups of one
and of two rows are the least at which a matching row is kept out by another and is
not: in the instance the compaction keeps the main request from one title request and
not from the other. Two messages of one hash are the least with which a body is taken
for the continuation of another that it does not continue. Two crashes
reach every gap between two migrations and the gap after the restart. One worker
lets every worker leave while the sender holds a job, two let one refuse its
credentials while the other probes. The bounds in guards are `MaxEdits`,
`MaxGrants`, `MaxCandidates`, `MaxCrashes`, `MaxLog`, `MaxSwitches`, `MaxItems`,
`MaxFragments`, `MaxMessages`, `MaxSent`, `MaxRequests`, `MaxOverlap`,
`MaxChanges`, `MaxSessions`, `MaxRenames`, `MaxAge`, `MaxDay`, `MaxCleanups`,
`MaxRunning`, `MaxSecret`, `MaxFailures`, `MaxIssued` and `Slots`.

`CHECK_DEADLOCK FALSE` stands where the system may stop: a deleted channel with
no attempts left, a request that is done, a session that has ended. `access` has
none of these and checks deadlock.

Each property has a mutant: an operator beside the definition it replaces that
introduces a plausible bug (a dropped guard, an off-by-one, a missing reset).
Under the mutant TLC finds the property violated.

### Fairness

* `ChannelEdit`: weak fairness of `EditTick` only. The clock advances whatever
  the gateway does; no handler is assumed to run.
* `RelayRequest`: the gateway's own loop steps are taken; a call ends at the
  latest by the response-header timeout, a body read by the idle timeout
  (`withIdleTimeout`) and the size limit; a stream whose client has left ends,
  because the context closes it. No fairness is assumed of the upstream: a
  stream may last for ever while its client stays, and `EventuallyAnswered` says
  so.
* `VerificationRun`: every goroutine that can move does (weak fairness per worker
  and of the run, the settlement, the resumption and a stop under way); the HTTP
  client's timeout of 310 seconds ends a probe. Nothing obliges anyone to start,
  stop, crash or restart.
* `Upgrade`: a process that runs goes on with its migrations; crashes are bounded.

### Findings

1. `verification_budget`. A probe is sent before it is counted. A crash in
   between repeats it: a job can have more attempts than its budget, by one per
   crash and no more (`BudgetSurvivesRestart`).
2. `relay_cancel`. A client that leaves during a buffered body read causes a
   channel failure, where every other path treats a cancellation as neutral.
3. `relay_usage`. `UpstreamRequestBody` copies the request one level deep. A
   `stream_options` object the client sent is shared by all attempts, so that after
   an attempt at a channel that supports stream usage the next channel is asked for
   usage although it is configured not to be.
4. `stats_rebuild`. The migration that rebuilds the daily statistics deletes the
   days whose detailed logs retention has removed.

### Remarks

What the models show of the code beside the findings, where no document says
otherwise. The properties carry an exception for each that concerns them.

* Circuit and management: `UpdateChannel` overlapping a verdict writes old circuit
  columns back, so the level jumps (`ChannelEdit` therefore states only that a
  circuit elapses). `DeleteModel` leaves level-three records pending that nobody
  can reopen, and a mapping disabled twice has two of them.
* Verification: a stop between the two queries of `resumeRunningSessions` reaches
  neither (`Overlooked`). The last attempt is counted before the job is settled; a
  crash in between leaves the job unsettled in a session that completes.
* Routes: a remembered route is compared and written in separate statements, so an
  older success can replace a newer route. `previousSessionRoute` reads the latest
  request of a session even if it was a title request. `maxRoutablePriority` starts
  at 0, so that with only negative priorities no metrics are loaded.
* Credentials: an administrator who replaces credentials or switches a channel to
  an API key during a refresh has them overwritten; without `expires_in` every
  request refreshes; waiting for the lock cannot be cancelled.
* Answers: an incomplete buffered chat answer is a success with reason `stop` where
  the streamed form fails; an empty completed answer is a success as a buffered chat
  completion and a failure streamed. A completed answer that holds nothing but
  reasoning is a success streamed and as a chat completion, but the buffered response
  takes it for an empty one and tries again, so that only this form asks the next
  channel. Without `include_usage` the chat stream has no `[DONE]`.
* Requests: on the responses endpoint legacy `functions` replace `tools` and stay
  nested while the choice is flat; system text replaces the request's own
  instructions; a legacy assistant `function_call` is not converted, so a function
  result stands without its call; `tool_choice` "required" stays when all tools
  were dropped.
* Sessions: the merge subtracts the elapsed time from `created_at`, which already
  is the start; the search for an existing main request counts the request's own
  `processing` row. A stale claim past the window still decides, because it is in
  the way of a new one and is not refreshed. The manual deletion takes the claim
  of a session whose first request is still running. A merge deletes the state of
  the title request's session even if other rows stay in it, and the backfill moves a
  guardian's row without its count: a compaction there would lose its count
  (`TitleAssumption` and `HistoryAssumption` say that clients send none). The limits
  of the lookups are applied before the prompts are compared: when eight
  requests of other sessions have begun between a main request and the recording of its
  title request, the title stays in a session of its own. The upgrade's counts do not
  touch `updated_at`: the cleanup of the same start may delete a state that was just
  counted, and the count begins again with the next request.
* Windows: with two or three samples the upper quartile is the largest one. A
  session whose client changes while the log holds no counted row keeps the old
  client's window.
* Bodies: a message that differs from the one that stood in its place in its images
  only, or a reasoning item that differs in anything, is left out as if it were the same:
  what was sent is not in the log, and the request named holds something else. A form
  leaves the manifest as it was but becomes the latest request, so that a later
  difference names a form that holds no messages.
* Logs: `request_parameters_json` is stored with detail `none`. A request over
  midnight is counted on the day it ends, while migrations count by its start. A
  title the user chose is lost when a session resumes after retention.

## 4. Proofs

TLAPS checks, for all constants that satisfy the named assumptions:

**ChannelCircuit.** `TypeCorrect` is proved first, on its own. `BreakerInv`, the
conjunction of the four state properties, is then inductive given the types:
`ChannelRowConsistent` and `PendingMatchesLevel` each by themselves, the two
clauses about mappings only together (reopening by a record needs the mapping's
flag, and a flag needs its record). One lemma per handler (`FailureStep`,
`RecoveryStep`, `ReplaceStep`, `ResetStep`, `ReopenStep`, `RemovalStep`) shows
that it preserves the invariant; `AddRecordCount` and `ResolveLevelCount` say
what the two record operators do to each counter. `BreakerSafety` gives
`DisabledStaysReopenable`, `RowStaysConsistent`, `RecordsFollowLevel` and
`ManualRecordsAccounted`. The action properties `EscalationInOrder`,
`NoLateExtension` and `OnlyAdministratorsReopen` follow from the types and each
handler. Assumptions: `ModelOf` is a function into the models, the placeholder
of an idle attempt is no mapping, the threshold and the durations are positive.

**TokenAccess.** `SlotInv` adds to the type invariant that `window.active`
is the number of running handlers and, for each limit k, that the handlers
admitted under k or less are at most k. The second is not inductive without the
first (admission compares the counter, not the set). `SlotsCounted` and
`ConcurrencyHolds` follow for any finite set of handlers. `RateInv` compares the
history of grants with the window, as sets of the grants' numbers: those of the
present window are counted and at most k, those of the window before are at most k,
older ones are more than a minute old, and once a window has run out no grant is of
the present tick. `RateHolds` follows: under a limit of k a window grants at most k
and any minute at most 2k.

**Console.** `TypeCorrect`, then `ScopesAgree` by itself: every transaction that
writes the flag writes the links. `RevocationHolds` needs `KeysKnown`: whatever a
handler has read or a session was opened with is a secret issued before. Without it
a save could put back a key nobody knows. For any sets of handlers, editors,
models and slots.

**OAuthRefresh.** `SpentOnce` says nothing of the token a request is about to send, so
it is not inductive. What carries it is the lock. `LockHeld`: at most one request of a
channel is between the lock and its return. `TokensUnspent`: unless a successor was
lost, the row's token is spent only while the holder carries its successor, and
neither a token about to be sent nor a carried successor is spent. A request that
takes the lock reads the row again and therefore sends an unspent token; the copy
it planned with may be spent, which is why the code reads twice. `TokensIssued`
bounds what rows, copies and requests know by what the provider has issued, so that a
successor is new. An edit that saves an old token sets `lost`, as do a cancellation
and a crash between answer and save. `TokensSpentOnce` and `OneRefreshAtATime` follow
for any number of requests, edits and tokens. Assumptions: the placeholder of a
free lock is no request, the bound on tokens is positive.

**RelayRequest.** `Inv` adds to the properties where the relay stands in its plan
(`Position`: a header is out only while a stream is relayed or at the end) and what
the attempts so far were (`History`: those before the current one failed, in plan
order, and one recorded as canceled is settled only with the client gone or the
error canceled). Without the last clause `BilledIffSuccess` could not follow a
canceled attempt, and without the order of the candidates `RecordedOnce` is not
inductive. All actions that end an attempt share `AttemptEnds` (one record, then an error
for the loop or an answer for the client), so `EndKeepsInv` is proved once and one
lemma per group of actions (`CallEnds`, `BufferedEnds`, `StreamFinishes`) shows that
its actions are of that form. `Settlement`, `HonestVerdicts` and `Commitment` follow
for any number of candidates and any configured number of attempts. Assumptions:
both are natural numbers.

**RouteOrder.** A plan is an arrangement of the candidates: the order of a strategy is
strict and total (`StrategyOrders`), so each member of a finite set has another number
of members before it, and every place is taken (`PlacesTaken`). With the strategy
`priority_weighted` a draw takes its first candidate from those that are worth
something, and these have the highest priority (`WorthOfEligible`: neither the
correction of the balance nor the exploration of cold candidates lifts one of a lower
priority from nothing); the others follow in the order of the strategy
(`DrawnByPriority`). `PrioritiesKept` follows for any number of channels, any priorities
and weights, and any history of attempts. Assumptions (`SetupsAssumption`): the
candidates are finitely many positive ids, priorities are integers, costs and efficiencies
natural numbers.

**RequestBody.** `BodyInv` says that the payload differs from the client's request in
its options at most (`SameButOptions`), which an attempt at a channel with usage may
change (finding 3). Requests that differ so far give every channel the same body but for
the options (`BodiesAlike`): a ChatGPT OAuth channel's drops them before anything is
converted, so that nothing need be known of the conversion; the others' are the request.
`BodiesDoNotDrift` follows for any requests, channels and number of attempts.

`ConversationsReachTheUpstream` says what the conversion yields: everything a
conversation says stands in the body, as input in the order of the conversation or as
instructions, and a tool wanted by name is described and chosen in the upstream's form.
The input is a list put together from one list for each message, and that of an
assistant from one for each call. `FlattenMembers` and `FlattenOrdered` say of any list
put together so that it has the members of its parts, and is in order if each part is and
the parts are (the theory of `FlattenSeq` is under ChatAnswer). `MessageTold`, `InputTold`
and `TextTold` give what becomes of one message (`Conveys`), `ConvertedTells` of the
conversation, `ToolsOffered` of the tools. `TellInv`, inductive beside `BodyInv`, says
that every body a ChatGPT OAuth channel was sent is the one of the client's request,
which is a request with a conversation of its form; TLC checked it on the instance of the
`relay` run before it was proved. The proof found two cases of the model's conversion
that overlapped, of which TLC had always taken the first; they now exclude each other.

Assumptions: requests have the fields of a request (`WishesAssumption`); `messages` are a
conversation of a chat request only, calls are read in an assistant's message only, and
an input that is one string is the user's (`UtterancesAssumption`), as in
`convertChatMessagesToResponses` and `normalizeChatGPTInput`.

**ChatAnswer.** While the answer is `Open` the chunks are `Framed`: the role first, the
arguments of a call behind its header, the headers numbered; and what the converter
knows is what they say (`Converting`). A chunk that `Fits` keeps it so (`FramedGrows`),
and every event that is no end makes chunks that fit (`EventStreamed`). An event makes
three chunks at most, so the recursion that forwards them is over in three steps
(`StreamedStepwise`). `Heard` joins the forms: an item that says something was output,
and what the buffered response has gathered was said. At the end `FramingGrows` adds the
finish reason, `[DONE]` or the error, and the verdicts follow from `Heard`
(`CompletedTaken`, `ErrorTaken`, `Interrupted`). `ChunksAreFramed` and `FormsAgree`
follow for any number of items and fragments. The forms do not agree on everything, and
`VerdictsAgree` says where: a streamed success is a success in the other two, but for an
answer of nothing but reasoning, which the buffered response tries again; a buffered
response's success is one in the other two; a chat completion succeeds alone if the
answer was cut short or ended without a word. What the forms hold is `Told`: of the
items that have begun, the chunks received (`StreamTells`), the message being built
(`ChatTells`) and the items gathered (`GatheredTells`) tell each text and each call's
arguments, and the converter's numbers are one less than the calls' places
(`ConverterTells`). It is stronger than `AnswerComplete`, which speaks of an answer that
ended well, since only a complete record of an answer that goes on stays one; TLC
checked it on the instance of the `relay` run before it was proved. Texts are lists of
parts put one behind another, so each step is a fact about such lists: a part more, or
the last part longer (`PartMore`, `PartLonger`). Those rest on what `FlattenSeq`
computes, a function that is defined by its own recursion; that it satisfies its
equation is shown at the least number where it could fail (`LeastNumber`,
`JoinedEquation`). Arguments may grow anywhere among the calls, but a call's place does
not change (`Placed`, `CallsLonger`). `AnswersAreComplete` follows.

**SessionRoute.** `Inv` adds to `RouteEarned` that every handler is `Sound`: it
tries mappings of its own model only, and compares or writes a route only after
success or cancellation. What a handler served it does not forget (`Keeps`), so
a route stays earned through the steps of the others, expiry included
(`HandlersMoveOn`); the write itself is the case that needs `Sound`. `RoutesEarned`
follows for any mappings, models and number of requests, whatever their handlers
overlap. `LoneInv` then follows a request that nothing overlaps. While it is `alone`
nobody else is in flight; if its session's route is usable, it tries that route
first, compares and writes with what it found, and leaves the route in place
(`KeepsRoute`); if it changes models, it opens on the channel of the previous route
(`StaysOn`). The invariant carries that among the requests served one began last
(`LastServed`): otherwise the previous route, a choice, need not exist.
`RoutesKept` and `SwitchesStay` follow. Assumptions: a mapping is a pair of a
channel and a model, the placeholder is no mapping, the bounds are natural numbers.

**ChatSession.** The two properties speak of what a request was given when it began;
what they need is the relation of three tables to what was given before them.
`ClaimsGiven`: a session was given the conversation of each of its claims.
`RecentClaimed`: what was given within the window has a claim of the window, by the
same session; this is why no second session can be given a conversation of the window.
The cleanup deletes expired claims only, and what a manual deletion takes counts as
expired. `StatesGiven`: a state begins with a conversation its session was
given. Then a score of 2, 3 or 4 speaks for a session that was given a prefix of the
conversation (`SpeaksForGiven`, `PrefixOfPrefix`), and conversely a prefix given
within the window gives its session a score (`GivenSpeaks`), so that the only session
spoken for is the candidate (`OneSpeaksForIsCandidate`).
`ConversationsKeepTheirSession` follows for any conversations, answers, requests and
sessions. Assumptions: conversations are sequences of messages and not empty, answers
sequences of messages; the placeholder is no session, claim, state or history entry.

**ContextWindow.** `TablesTrue` says of a record of the three tables that what a state
shows as its own, and every profile, is `LearnedRightly`, and that a state that was
looked at shows what its profile knows. `UpdateKeeps` proves it of one call of
`updateSessionContextWindow`, through `TablesTrueBut` for the middle of the call, where
one session shows too little; the same lemma serves a recorded request and every row
of the backfill (`BackfilledTrue`, an induction on the rows read, for which
`ReplayedEquation` first proves that the recursion defines what it says). `ThresholdThere`
proves that the order statistic exists, for any samples, `SamplesBalanced` that no single
sample decides it, `PrimaryModelThere` that a session asked for some model has one
that comes first. `WindowsAreTrue` follows, for any sessions, clients, models, sizes,
sample limit and histories. Assumptions: `Unknown` is none of the model's values,
`SampleLimit` is positive, and before the start-up nothing is running.

**VerificationRun.** `Inv` has seven parts. `Lifecycle` relates the goroutines to the
status of the session, `StopFirst` says that a session is stopping before anyone is
told to stop, `Custody` that a job is held by one goroutine at most: counts per job
mean something only if nobody else is probing it. `Counting` bounds the probes of a
job by its counted attempts, plus one if a worker is between the answer and the
count, plus one per crash; it gives `BudgetHolds`. `NoneLost` says where every
unsettled job is while the session runs (in the queue, with the sender or with a
worker), which gives `SettledWhenEnded`; and `Accounts` says what the settlement has
copied so far, so that a second run of the settlement after a crash copies nothing
twice (`AttemptsTold`). For any number of workers, jobs, attempts and crashes.
Assumptions: jobs and attempts are positive natural numbers, crashes a natural number.

**SessionLog.** The recording transaction merges up to two requests and touches up to
three states, so its effect is stated first, piece by piece (`TouchEffect`,
`ApplyEffect`, `MergeEffect`, `SaveEffect`, `CountEffect`) and then whole (`Taken`):
rows other than the request's own stay or become merged titles, and a state is
`Grown` - nothing is lost, a chosen title stays - or goes from a session that shows no
compaction. `IInv` adds to the properties what they need of each other. `Fresher`: a
state is at least as young as the compactions shown, without which a cleanup could
take the state and leave the rows. `Steady`: only title requests leave the session of
their key, so that a later title request finds its main request there. `Recording`:
between the two statements of a cleanup every row is of today. That a title request
finds a main request needs the limits: of the rows that a lookup counts before the
wanted one, none can be more than those settled when the request was recorded
(`NewestSome`, `OldestSome`, `ReadAmong`), so a main request in reach (`InReach`) is
among the rows read, and one that matches is found. The backfill is a
function of the number of titles done (`BackfilledEquation`); `Progress` is its
invariant, and by `LeastNumber` it holds for all of them. `AuxiliariesAreMerged`,
`CompactionsAreCounted` and `ChosenTitleIsKept` follow for any requests, sessions,
pairs of prompts and histories. Assumptions: a canonical session is its own; titles are
asked for in sessions that hold no compaction; no guardian is compacted; one moment is
one request's, and what an older version recorded came before what is sent now
(`CreatedAssumption`, `HistoryAssumption`); the limits are positive; the order
of the backfill lists all titles.

**PayloadLog.** The messages a body leaves out are told by their hashes only, and a
hash is a constant about which nothing is assumed, so what can be proved is what the
hash tells: `CompactedShows` says of the algorithm that the body is whole, or that what
it shows is the end of what was sent and the first messages, as many as it counts, have
the hashes of those its base held. `LogInv` adds to the types that states are true
(`StatesTrue`): a manifest is of a request of the session that has been recorded, the
one the state names unless only forms came after it. What the rows say needs no invariant of
its own, since a step that does not record only takes from them (`Lesser`,
`RemovalLessens`). Each step is one of the archive's (`StartedIsSend`, `RecordedIsRecord`,
`LesserIsLoss`), and `LogImplementsArchive` states the refinement of `RequestArchive`:
what is told was true when it was recorded and is never told otherwise. The archive does
not promise that a body can be read back: the request named may have been cleared or
deleted, it may itself be a difference, and messages of one hash may differ.
`ResourceInv` adds to `ResourcesTrue` that only recorded requests
hold links and that none was recorded in the future; `ResourcesKept` follows. For any
requests, sessions, messages, hashes and lengths. Assumptions: bodies and answers are
sequences of messages, each message has a hash, a message carries resources of the
catalogue, `None` is none of these.

**Upgrade.** The order of the migrations carries everything. `InOrder`: those applied
are always the first ones of `Order`, wherever the process died, so that a migration
that is due knows which earlier ones took effect and which did not (`Applied`). With
`PastUntouched` - until the last migration is recorded the requests are those of the older
version, and until it can begin their bodies are in their columns - every migration that reads bodies finds
them, and `BodiesReadable` follows: of a body within retention always, of the others until
the upgrade is over. `StatsKeptOnceUpgraded` is an action property: with
all migrations applied no step but a recorded request touches the statistics, and
that one adds. `RowsTold` and `SessionsFollow` say what the rows and the sessions are
after each number of applied migrations; the correction that subtracts the failed
compactions is right because it meets counts that include them exactly once.
Of a session `SessionsFollow` also says how old its state is (`ThreadsTold`,
`CountsTold`), since the cleanup deletes what has expired: a state that was expired
survives only if a migration or a request has touched it, and a count touches none. A session
is `Lasting` unless its state was expired and its bodies tell nothing of a thread; a
session that is not may lose the count of its old compactions and counts those recorded
since. `SessionsToldRight` says so, for any ages of the older version's states and any
retention, by cardinalities of finite sets; the subagents and their parents are told of
every session, since one that was found to be a subagent's has been touched. The figures are next:
`AttemptsTold` says what every attempt of a retained request is after each migration,
`RowsFinal` what a row costs and lasts when the last rebuilding adds it up, `DailyTold`
and `ChannelsTold` what the statistics of a day are from then on, and `FiguresInv`
joins them. TLC checked `FiguresInv` on the instance of the `recovery` run before it was
proved. The sums are over any number of requests. They are folds, and what a fold yields
when an element is taken out or a term changes is an induction on the set; since the
provers cannot instantiate the induction theorems, `SumsEquation` turns the fold into an
equation between functions on the subsets of one set and each fact about sums is shown of
a smallest subset on which it could fail (`SmallestSet`). `PastIsTold` follows: the
rebuilt and the incremented figures agree with what happened, whatever crashed on the
way. Days that lost a request to retention, or whose older statistics are all that is
left of deleted requests, are outside it, as they are outside `PastTold`: there the
code rebuilds from what is left (`DailyStatsKept`, a finding). Assumptions: the
requests are finitely many, old and new ones differ and new ones are retained, every
request has a day, a session, a reply and at least one attempt; a session's bodies say the
same of its thread (`Source`) and its older state has an age (`States`); the statistics of deleted
requests are rows or none; the batch size is positive.

Model-checked only: every liveness property (liveness under fairness and `ENABLED` are
outside what the prover handles); `NobodyStarved`, whose figures allow for the rounding
on the instance and are not meant for any number of candidates; and the four properties
that the code violates (section 3), of which a run shows the counterexample. Every other
invariant and action property of a run is a theorem. Induction in its operator form
cannot be instantiated by the provers; where a proof needs it, it goes through
the least element of a set.

## 5. Not modelled

* Transactions and repositories (`pkg/core/tx`, `pkg/repository`): the gateway
  package opens its transactions with gorm directly and no modelled handler goes
  through these helpers.
* HTTP API, application shell, frontend, tools: binding, serving, configuration.
* Fingerprint statistics, stream parsing and request building of the verification;
  recognition of a client from its headers; usage counts and prices; the pages
  and aggregations of the log views: pure conversions and queries.
* The browser authorization of ChatGPT OAuth channels (`Start`, `Exchange`).
* The check of a request against its token's model scope.
* Reading back a body stored as a difference: the repository has no code that does.
* The schema itself, the compaction of the database file, the daily timer.
* A crash in the middle of a relayed request: it leaves a row `processing` that no
  later code settles.

## 6. Plan

Done: everything in section 2. Left, in the order of value: the browser authorization of OAuth channels;
an abstract verification session that `VerificationRun` refines; one module of
`RelayRequest` and `ChannelCircuit` together, with several requests and channels.
