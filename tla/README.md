# TLA+ models of Sheri ML (opencto/Sheri-ML)

This directory holds TLA+ models of the concurrent and stateful parts of the
Sheri ML CLI (`src/opencto/Sheri-ML/sheri-ml-cli`) and of its auth worker
(`src/opencto/Sheri-ML/heysalad-sheri-auth`). It also holds the TLC
configurations that check them. `PROJECT.json` is the machine-readable
index. It lists the components, the runs, the mutants, the map from every
definition to the source lines it models, the findings and the hazards.

## The system

* **Agents over MQTT.** `sheri --mqtt` (`cli-v2.ts` `startMQTTAgent`)
  starts an `MQTTClient` (`mqtt/client.ts`) and a `TaskHandler`
  (`mqtt/task-handler.ts`).
  * The client connects with `clean: true`, subscribes to the `tasks/#`,
    `agents/#` and direct topics, registers itself, and sends a heartbeat
    every 10 s (`client.ts:73`).
  * It delivers each message that another agent published to the
    handler's listener. Publishes are QoS 1, i.e. at least once.
  * The handler claims a `tasks/new` announcement when:
    * it is idle;
    * its role may handle the task type (`canHandleTask`);
    * the task is not assigned to someone else.
  * To claim, it publishes `tasks/assigned` and awaits the executor. It
    then publishes `tasks/complete` or `tasks/failed` and clears
    `currentTask`.
  * There is no coordinator. Two agents can claim the same task, and
    messages from different agents arrive in any order.
* **Provider failover.** `SmartRouter` (`providers/smart-router.ts`) wraps
  the model providers.
  * `generate` sorts the providers so that deprioritized ones come last.
    It then tries each in turn until one answers.
  * Three consecutive failures stamp `deprioritizedAt`. A provider counts
    as deprioritized while the stamp is less than
    `DEPRIORITIZE_DURATION_MS` old.
  * The CLI chat loop awaits each `generate`, so calls never overlap.
* **Chat session.** `sheri [prompt]` (`cli.ts`, the main command) builds
  the providers whose keys are configured (`buildProviders`) and gives a
  `CoderAgent` (`agents/coder.ts`) a primary provider: the one named by
  `--primary`, or a new `SmartRouter` over mcp, gemini-31-pro, gemini,
  vertex-ai and mock (`buildRouter`).
  * With a prompt it runs `generateCode` once: the primary answers, and
    a `--secondary` provider, when built, reviews the answer.
  * Otherwise it loops: each line is a slash command or a message for
    `agent.chat`. `/router` and `/model` replace the agent's provider;
    every router they build starts with empty health.
* **MCP provider** (`providers/mcp.ts`), the default primary and the
  router's first provider. `generate` answers greetings, status checks
  and capability questions itself; any other prompt goes to the HeySalad
  MCP gateway, and a gateway error or timeout becomes a thrown Error.
* **Auth.** A Cloudflare worker (`heysalad-sheri-auth/src/index.ts`)
  handles register, login, me, logout, token generate/revoke/list and
  migrate. It stores users and `auth_tokens` in D1.
  * The CLI commands `login`, `logout` and `whoami` (with
    `utils/auth.ts` and `utils/api-client.ts`) keep a local token file and
    call the worker.
  * Requests from several CLIs interleave at the worker.
  * The bearer token comes from `getToken`, which reads `process.env`
    (filled by `Config.load` from the shell, `~/.sheri-ml/.env` and the
    local `.env`) and then `auth.json`.
* **Everything else** is either formatting or network wrappers:
  * display commands (team, metrics, roadmap, ui, colors);
  * the provider SDK wrappers (Gemini, Vertex AI, Claude, Cheri ML);
  * MCP's `detectDomain`, `callTool` and `health`;
  * the `sheri config` writes of provider keys (`utils/config.ts`).

## Modules

| Module | Models | State (code) | Actions (code) |
|---|---|---|---|
| `TaskHandler` | `task-handler.ts` with the delivery of `client.ts` | `currentTask`, `taskQueue`; per-agent broker inbox; `received`/`published` histories | `Announce` (a `tasks/new` publish), `Redeliver` (QoS 1 duplicate), `HandleNewTask` (busy skip / ineligible skip / `claimTask` up to its await), `HandleTaskAssigned`, `FinishTask` (the executor settles, the report, the `finally`) |
| `TaskClaimAbstract` | the protocol of spec 4.2 and 5, without broker or executors | `announced`, `busy` (the task each agent works on) | `Announce`, `Take` (an idle, eligible agent takes an announced task), `Report`; weak fairness on `Report` |
| `MCTaskHandler` | 2 agents (`review`, `general`), 3 tasks: `code.review` (free), `code.generate` (assigned to the review agent), `lint.fix` (free) | | |
| `SmartRouter` | `smart-router.ts`, `ProviderHealth` of `types.ts` | the health map (`failCount`, `deprioritizedAt`, `lastSuccessAt`), the loop of `generate` (`ordered`, `idx`, `errors`), a clock | `Generate` (sort and start), `GenerateAcrossTick` (the same, with the clock moving on during the sort), `ProviderSucceeds` (`onSuccess`, return), `ProviderFails` (`onFailure`, next), `AllFailed` (the throw), `Tick` |
| `RouterFailover` | the contract of `SmartRouter.generate` (spec 8), without health, order or clock | `phase`, `tried` (the providers failed in the current call), `last` (outcome of the last call) | `Call`, `Fail(p)` and `Serve(p)` (only for `p` not yet tried), `GiveUp` (only when every provider is tried), `Replace` (a new router between calls); safety only |
| `MCSmartRouter` | 3 providers `<<pA, pB, pC>>` (the `router_sort_mid_cooldown` run) | | |
| `ChatSession` | the main command of `cli.ts` and `CoderAgent.chat`/`generateCode`, composed with `SmartRouter` (instance `R`, same variables) | `options` (until resolved), `stage`, `currentModel` (the name shown), `primary`/`secondary` (the agent's providers), `reply` (the answer printed for the current line: label and provider), `line` (the kind of the prompt being answered), and the router's variables | `Start` (validate, resolve `--primary`/`--router`/`--secondary`, start the chat loop or `generateCode`), `PrimaryAnswers` (a single provider settles), `RouterTriesNext`, `RouterAnswers`, `RouterGivesUp` (the router's steps, ending the agent's await), `Review`, `Chat`, `Quit`, `RouterCommand`, `ModelCommand`, `ModelPicker`, `Tick` |
| `MCPProvider` | `MCPProvider.generate` of `providers/mcp.ts`, as operators | none | `Generate(q)`: the ways the call settles for a prompt of kind `q` (`HandleConversational`, then `Settle` of each of the gateway's `GatewayReplies`) |
| `MCChatSession` | MCP and Vertex AI keys: 4 built providers, a router over mcp, vertex-ai, mock | | |
| `AuthWorker` | `heysalad-sheri-auth/src/index.ts` | the D1 tables (`tables`, `users`, `authTokens`, `tokenOwner`, `tokenExp`), a clock, one request record per client (`req`: handler, pc, inputs), the tokens each client holds, histories `removed` and `answers` | `Start` (the `fetch` routing of one request), one action per awaited D1 statement of each handler (`RegSelect`, `RegInsertUser`, `RegInsertToken`, `LoginSelect`, `LoginInsert`, `MeSelect`, `MeRest`, `ListSelect`, `GenSelect`, `GenInsert`, `LogoutDelete`, `RevSelectCur`, `RevSelectTarget`, `RevDelete`, `Migrate`), `Tick` |
| `MCAuthWorker` | 2 clients, 2 emails, 4 tokens, 4 requests, clock 0..2 | | |
| `AgentProcess` | `startMQTTAgent` of `cli-v2.ts` with the session of `mqtt/client.ts` | process phase and exit code, connection state, the startup promise and its timer, the `once('error')` listener count, heartbeat intervals, pending `end`/`exit` timers, broker queue, the task in flight, `claimed`/`reported` | `Connect`, `Drop`, `StreamError`, `StartupTimeout`, `Heartbeat`, `Signal`, `EndClient`, `Exit`, `Announce`, `HandleNewTask`, `FinishTask`, `MalformedMessage` |
| `MCAgentProcess` | 1 agent, 2 tasks, 2 connects, 2 errors | | |
| `CliCredentials` | `utils/auth.ts`, `utils/config.ts` (`load`, `get`, `set` by `clearAuth`), `commands/login.ts`, `logout.ts`, `whoami.ts`, the bearer token of `utils/api-client.ts` | shell env, local `.env`, `~/.sheri-ml/.env` (`globalEnv`), `auth.json` (`authFile`), the tokens the worker accepts (`valid`, `issued`), one record per concurrent invocation (`proc`), histories `shown` and `ended` | `Login`, `LoginWithToken`, `Logout`, `Whoami` (the command up to its worker call), `LoginReply`, `TokenReply`, `LogoutReply`, `WhoamiReply` (the continuation), `Expire` |
| `MCCliCredentials` | 2 invocations; tokens `tA` (auth.json), `tL` (legacy or exported), `t1` (fresh) | | |

### How the code maps to the model

* **TaskHandler.**
  * The broker inbox of each agent is a *set* of messages. Any pending
    message may be handled next, which covers every reordering between
    publishers. The self-filter of `onMessage` is there because
    `PublishAssigned` never delivers to the publisher.
  * `Redeliver` puts back a message the agent already received, up to
    `MaxRedeliveries` times. This is the QoS 1 duplicate.
  * `claimTask` is split at its one `await`:
    * `HandleNewTask`'s claim disjunct sets `currentTask`, publishes
      `tasks/assigned` and starts the executor (`running`);
    * `FinishTask` is the continuation: the executor settles, the report
      is published, `finally` clears `currentTask` and drains
      `taskQueue`.
    * Other handlers run between the two. That is the interleaving the
      busy check is there for.
  * Each executor's outcome is abstracted to the set `Outcomes(t)`:
    * an undispatched type throws (`failed`);
    * `deployment.rollback` and `database.migrate` read
      `task.payload.*`, and the model's tasks carry no payload, so they
      may throw;
    * the other executors only resolve.
  * Payloads, timestamps and the `setTimeout` delays are left out. No
    decision reads them.
  * `Abstract == INSTANCE TaskClaimAbstract WITH busy <- currentTask,
    Eligible <- ...` maps the handler to the abstract protocol. A claim is
    `Take`, the `finally` is `Report`, and every other step stutters.
* **SmartRouter.**
  * `Array.prototype.sort` is V8's TimSort. On fewer than 64 elements it
    makes one run: `CountAndMakeRun` (the longest ascending or strictly
    descending prefix, reversed if descending), then `BinaryInsertionSort`
    of the rest (`RunEnd`, `BinarySearch`, `SortProviders`, RECURSIVE).
    This is V8's algorithm, not code of the repository; the map points
    these definitions at the `sort` call, `smart-router.ts:58-62`.
  * The comparator `Compare(p, q, tp, tq)` is the code's
    `Number(da) - Number(db)`. Each `isDeprioritized` inside it calls
    `Date.now()`, so each operand has its own read time. `ReadAt(i, t0,
    k)` gives the time of the i-th read of a sort that starts at `t0`:
    reads from `k` on see `t0 + 1`. `Generate` sorts at one instant.
    `GenerateAcrossTick` lets the clock pass a tick at any read, which
    is how a cool-down can end in the middle of a sort.
  * The clock is discrete. `Cooldown` is `DEPRIORITIZE_DURATION_MS` in
    ticks.
  * `failTimes` and `demoted` are history variables: the failure times
    since the last success, and the sets of deprioritized providers at
    the instants the current call's sort read.
    The properties use them. No action reads them.
  * `Failover == INSTANCE RouterFailover WITH Providers <- ProviderSet,
    tried <- IF phase = "calling" THEN ToSet(errors) ELSE {}, last <-
    result` maps the router to its contract. `Generate` and `GenerateAcrossTick` are `Call`,
    `ProviderFails` is `Fail` of `ordered[idx]`, `ProviderSucceeds` is
    `Serve`, `AllFailed` is `GiveUp`, and `Tick` stutters. In
    `ChatSession`, `NewRouter` is `Replace`. A provider retried within a
    call would map to a stutter, so the contract does not catch that;
    `AllFailedNamesEveryProvider` does.

* **ChatSession.**
  * `R == INSTANCE SmartRouter WITH Providers <- BuildRouter(Providers)`:
    the router's variables are the session's, so the router's actions
    are the session's steps. `RouterAnswers` is `R!ProviderSucceeds`
    together with the agent's continuation (`Answered`); `RouterGivesUp`
    is `R!AllFailed` with the `catch` (`Failed`).
  * `NewRouter` is `createSmartRouter` in `/router` and `/model router`:
    a fresh health map, with the clock and the call bound going on.
  * `BuildProviders(keys)` is `buildProviders`: a provider is built when
    one of its keys is set (`KeysFor`); mock and cheri-ml always are.
    `BuildRouter` keeps `buildRouter`'s order with `SelectSeq`.
  * A call to a single provider reads no clock and no router state. The
    loop awaits it and nothing else runs, so it is one step,
    `PrimaryAnswers`, that resolves or rejects.
  * `SelectModel(m)` is `/model`: `currentModel` takes the name first.
    Then the agent gets a router, the built provider, or nothing new
    ("not available").
  * `reply` is a history variable: what the current line printed. Each
    line read clears it. A single prompt's result is printed without a
    model name (label `result`).
  * `secondary` is kept only in single-prompt mode: `agent.chat` never
    reads it.
  * `line` is the kind of the prompt or chat message, conversational or
    query. `Outcomes(p, q)` is how provider `p` can settle for it: mcp
    through `MCP!Generate`, which never rejects a conversational prompt,
    every other provider either way. The review prompt is a query.
* **MCPProvider.** Prompts are abstracted to their kind. The domain of
  `detectDomain` only selects the knowledge base the gateway searches,
  so it is left out. All 2xx replies resolve: an answer, the "no
  knowledge" help text and the "No answer returned" text. 401, 429 and
  every other error reject.

* **AuthWorker.**
  * Each request of a client is a record in `req` with a `pc`. Every
    `await env.DB.prepare(...)` is one action, so requests of other
    clients and `/migrate` run between the statements of one handler.
  * A statement on a table `/migrate` has not created yet answers 500,
    as the handler's `catch` does. `InitTables` sets the tables at start.
  * Passwords are abstracted: `users[e]` is the client whose password
    registered `e`, and `LoginSelect` accepts exactly that client.
  * Clients present their own tokens or a `Forged` one; revoke may name
    any issued token.
* **AgentProcess.**
  * The timers become orders: `end(true)` (500 ms) always precedes the
    exit (1000 ms). The heartbeat, the executors' 1-5 s and the 30 s
    timeout may fall anywhere.
  * `errListeners` counts the one `once('error')` listener. An error
    with no listener is `crashed`, which is what an `EventEmitter` does.
  * The task handler is reduced to the task in flight and its report.
  * `MalformedMessage` is a `tasks/new` or `tasks/assigned` envelope
    without `payload`. The async handler throws on it, the rejection is
    unhandled, and Node 15 and later end the process. An older Node only
    prints a warning, which is a stuttering step.
* **CliCredentials.**
  * Each `sheri` invocation runs `Config.load` once (`LoadedEnv`):
    the global file without override, then the local `.env` with
    override. `getToken` reads that `process.env` and `auth.json`.
  * A command runs up to its one worker call in one action; the answer
    is a second action, so two terminals interleave between them.
  * The worker is abstracted to the set `valid` of tokens it accepts. A
    reply may fail (401 or network) in every command.
  * Early returns that change nothing ("Already authenticated", CI, SSH
    declined, "Not authenticated") are stuttering steps.

## Runs

| Run | Config | Expect | What it shows |
|---|---|---|---|
| `task_claim` | `MCTaskHandler.cfg` | pass | With reordering and one duplicate delivery, an agent never has two tasks open. Its published stream alternates claim and report for the same task (`OneTaskAtATime`). Every claim is eventually reported, also when the executor throws (`ClaimsAreReported`). `TaskHandler` implements `TaskClaimAbstract` with `currentTask` as the busy map (`ImplementsTaskClaimAbstract`); in particular every claim is a `Take` of an eligible task. |
| `task_duplicate_claim` | `MCTaskHandler_OnlyRacingDuplicates.cfg` | violation | Spec 4.2 and 6: duplicate execution only in the accepted race (`OnlyRacingDuplicates`). TLC's shortest trace: a1 claims t1, a2 receives a1's `tasks/assigned` before the announcement and then claims t1 anyway, because `handleTaskAssigned` remembers nothing. The other way, found when a single general agent is the only subscriber, is a QoS 1 duplicate of `tasks/new` delivered after the task finished, which makes the same agent claim and run it again. |
| `task_dropped_while_busy` | `MCTaskHandler_EligibleTasksAreClaimed.cfg` | violation | The only eligible agent is busy when `lint.fix` is announced. The announcement is dropped (`taskQueue` is never filled) and the task is never claimed. |
| `chat_router` | `MCChatSession.cfg` | pass | The router as the CLI drives it: single prompts with or without review, chat messages, `/router`, `/model` by name or picker, and providers that are not built. For every router the session builds, the stamp is the time of the third consecutive failure and a success clears it (`StampIsThirdFailure`). Each call tries the active providers first, then the deprioritized ones, each group in configured order (`SortMatchesReference`: V8's sort with the code's comparator, at any one instant, gives the `SelectSeq` partition `Partition`). An "All providers failed" error names each provider once, in attempt order (`AllFailedNamesEveryProvider`). An answer printed under `[router]` came from one of the router's providers (`RouterLabelMeansRouterAnswer`). A conversational chat line is never answered with an error while mcp is the agent's provider or in its router, even when mcp is deprioritized and tried last (`ConversationalLineAnswered`). Every prompt sent is eventually answered or reported as an error (`AnswerSettles`, under the fairness below). The router implements `RouterFailover` (`ImplementsRouterFailover`): distinct providers per call, served by one not yet failed, or an error only after all failed. 1,005,500 distinct states, about 3 minutes. |
| `chat_model_label` | `MCChatSession_ReplyLabelNamesProvider.cfg` | violation | An answer printed under a single model's name came from that model (`ReplyLabelNamesProvider`, cli.ts:434). In five steps: `/model claude` without an Anthropic key prints "not available" but has already set `currentModel`, so the next answer, still from mcp, is printed under `[claude]`. |
| `router_sort_mid_cooldown` | `MCSmartRouter_ActiveFirst.cfg` | violation | Spec 8 and the comment at `smart-router.ts:57` say that a call tries active providers first, then deprioritized ones, each in configured order (`ActiveFirst`: the order is `Partition` of the providers deprioritized at some instant of the sort). pA fails three times at time 0. The fourth call sorts while the clock reaches 1, when pA's cool-down ends. V8's `CountAndMakeRun` sees pB < pA (pA still deprioritized) and reverses them. The binary insertion of pC then finds pC = pA (pA active) and leaves it last. The call tries `<<pB, pA, pC>>`, which is the right order at neither instant. |
| `auth_ownership` | `MCAuthWorker.cfg` | pass | Over every interleaving of register, login, me, logout, generate, revoke, list and `/migrate` of two clients, with expiry and forged tokens, a client only ever holds tokens of the account whose password it set (`TokensHeldOnlyByOwner`), and revoke deletes only tokens of the caller's own account (`RevokedOnlyByOwner`). 508,548 distinct states. |
| `auth_register_race` | `MCAuthWorker_RegisterAnswersContract.cfg` | violation | Two clients register the same email at once. Both pass the `SELECT`; the second `INSERT` fails on the UNIQUE email and the client gets 500, which the contract (400/401/409) does not allow. |
| `agent_startup` | `MCAgentProcess.cfg` | pass | Over connects, drops, reconnects, errors, the 30 s timer and signals, startup always settles (`StartupSettles`), and the process exits with 1 only if it never connected (`FailureExitOnlyBeforeConnect`). |
| `agent_crash` | `MCAgentProcess_AgentSurvivesFailures.cfg` | violation | Spec 7: neither transport failures nor a failed task end the agent. TLC's shortest trace is a `tasks/new` without payload right after connecting. The async handler rejects unhandled and the agent dies. Without `MalformedMessage` in `Next`, TLC finds the other way: the first MQTT `error` consumes the `once` listener, the second finds none, and the thrown error ends the agent. |
| `agent_shutdown_not_graceful` | `MCAgentProcess_ShutdownIsGraceful.cfg` | violation | Spec 4.2 and 7: graceful shutdown stops the heartbeat with `agents/shutdown` and lets the current task report (`ShutdownIsGraceful`). TLC's shortest trace: connect, drop, reconnect, SIGINT, heartbeat. `onConnect` started a second interval and `disconnect` cleared only the newest. With `MaxConnects = 1` TLC finds the other way: SIGINT exits after 1 s while a task claimed in the shutdown window is still running, so it is never reported. |
| `cli_logout_keeps_session` | `MCCliCredentials_LogoutEndsSavedSession.cfg` | violation | `~/.sheri-ml/.env` holds a legacy `HEYSALAD_API_KEY` and `auth.json` a session token. `Config.load` has copied the legacy key into `process.env`, so `getToken` returns it before `auth.json`, against its own comment. `logout` invalidates the legacy token, deletes `auth.json`, prints "Logged out successfully", and the session token stays valid at the worker. |

Each property of a passing run has a mutant in `PROJECT.json`: a plausible
code bug, defined next to the definition it replaces, that TLC finds. The
mutants are:

* a dropped busy check;
* a dropped assigned-to check;
* an unknown task type that never settles;
* a claim that stores the message instead of the task;
* a comparator with its operands swapped;
* a stamp rewritten on each failure;
* `/router` that shows the router but keeps the old agent;
* a `--secondary` name taken without looking up the built providers;
* a loop that gives up one provider early;
* a loop that waits one index past the end before it gives up;
* MCP's generate asking the gateway before the conversational check;
* login that does not verify the password;
* generate-token that inserts for the user named in the request body;
* revoke without the owner check;
* a startup timeout that is never armed;
* a startup timeout that exits even after connecting;
* a task report published after `currentTask` is cleared;
* a `finally` block that does not reset `currentTask`.

## Bounds

* **TaskHandler.** 2 agents and 3 tasks cover every guard:
  * a task of the review role (`code.review`);
  * a task assigned to one agent (`code.generate`, assigned to the
    reviewer, whose role does not cover it: the reviewer skips it on the
    role table and the general agent on `assigned_to`, so nobody claims
    it);
  * a task only the general agent may take (`lint.fix`).
  * With `MaxRedeliveries = 1`, one duplicate is enough for the reclaim
    and shows that duplicates do not break the passing invariants.
    `task_duplicate_claim` uses the same bound, so both of its paths are
    in reach; `task_dropped_while_busy` uses 0.
  * The pass run has 19,446 distinct states.
* **SmartRouter** (`router_sort_mid_cooldown`).
  * 3 providers let `CountAndMakeRun` and `BinaryInsertionSort` both run.
    With the deprioritized provider first, their two steps can read
    different instants.
  * `MaxRequests = 4` calls: three calls to stamp pA, and a fourth that
    sorts with the stamp.
  * `Cooldown = 1` and `MaxTime = 1`: the stamp taken at 0 ends at 1,
    which is the tick a sort may cross.
* **ChatSession** (`chat_router`).
  * The MCP and Vertex AI keys give 4 built providers and a router of 3,
    so the router keeps the 3 providers of `MCSmartRouter`.
  * `MaxRequests = 4` as above: three failures of mcp on queries and a
    fourth, conversational, call in which mcp is sorted last.
  * `Cooldown = 1` and a clock up to 2: a stamp is in force for the
    calls of its own instant and expires at the next tick, inside the
    bound. With `Cooldown = 2` and a clock to 3 the run has 3.2 million
    states and, with the liveness property, takes over 6 minutes.
  * Each chat line and single prompt is conversational or a query.
  * `--primary` is mcp or claude (not built), with or without
    `--router`. `--secondary` is cheri-ml (built) or claude (not built).
    `/model` takes router, cheri-ml or claude, and the picker offers
    every built model. This reaches every branch of the main action.
* **AuthWorker.**
  * Two clients and two emails are the least that lets one client try
    the other's account, and revoke a token of another user.
  * 4 requests are enough for register, a second register or login, and
    a token operation on the result; 4 tokens cover each issuing request.
  * `Expiry = 1` and a clock of 0..2 let a token expire while a request
    is in flight.
  * The worker starts with no tables, so `/migrate` interleaves with the
    handlers. The register race run starts with all tables.
* **AgentProcess.**
  * 2 connects are a first connection and one reconnect, the least that
    shows two heartbeat intervals. 2 errors reach the crash on the second.
  * 2 tasks let a second announcement arrive during shutdown. 3,166
    distinct states.
* **CliCredentials.**
  * Two invocations are two terminals. `tA` is an earlier session in
    `auth.json`, `tL` a legacy or exported token, `t1` the one token the
    worker can still issue.
  * Each env source lacks the keys or holds `tL`; the global file may also
    hold the `KEY=` lines an earlier logout wrote. 192 initial states.

## Fairness

* **TaskHandler.** `Spec` has weak fairness on `HandleNewTask`,
  `HandleTaskAssigned` and `FinishTask` of each agent.
  * The first two are the MQTT client's message callbacks. Node's event
    loop runs each delivered message eventually.
  * `FinishTask` is an executor settling. Every executor is a `setTimeout`
    of 1-5 s or a synchronous throw, so it always settles.
  * There is no fairness on `Announce` or `Redeliver`. Publishers and the
    broker's duplicates are the environment.
  * All TaskHandler configs set `CHECK_DEADLOCK FALSE`. After its work is
    done the agent idles forever (`await new Promise(() => {})` in
    `cli-v2.ts`), so a state with no enabled action is the program's
    normal quiescence.
* **SmartRouter.** `Spec` has no fairness and the runs check only safety.
  The router configs also set `CHECK_DEADLOCK FALSE`: a run stops only
  when the clock and call bounds are spent.
* **ChatSession.** Weak fairness on `PrimaryAnswers`, `Review` and the
  router's steps together (`RouterTriesNext`, `RouterAnswers`,
  `RouterGivesUp`): every provider call settles. axios times out after
  30 s (MCP, Cheri ML), Node's fetch after 300 s without a response
  (Vertex AI, the Gemini SDK), and the Anthropic SDK after 10 minutes.
  The user's lines and commands and the clock get no fairness. A session
  ends on exit, after the single prompt or with exit 1, and otherwise
  when the clock and call bounds are spent, hence `CHECK_DEADLOCK FALSE`.
* **AuthWorker.** No fairness; the runs check safety. `CHECK_DEADLOCK
  FALSE`: the run ends when the request and clock bounds are spent.
* **AgentProcess.** Weak fairness on `StartupTimeout`, `EndClient`,
  `Exit`, `FinishTask` and `HandleNewTask`: Node timers fire, executors
  settle and the event loop runs delivered messages. The broker, the
  network and the operator's signals get none. A process that exited or
  crashed takes no step, hence `CHECK_DEADLOCK FALSE`.
* **CliCredentials.** No fairness: every step is a user's command or the
  worker's answer.

## Not modelled

* **cli-v2.ts's chat** (`buildProvider`'s preference order). It is a
  second front end over the same providers. Its `MCPProvider(mcpUrl,
  mcpKey)` passes the gateway URL as the API key and the key as the URL
  (the constructor is `(apiKey, gatewayUrl)`). With `MCPProvider`'s
  early return, greetings are still answered and every query fails on
  the bad URL. Its `conversationHistory` is filled but never sent. It
  calls one provider per line and has no state beyond the printed answer
  and the files written from `FILE:` blocks: no interleaving, no retry
  and nothing persisted, so there is nothing for a model checker that a
  unit test does not reach.
* **Parts of cli.ts that only print**: `/help`, `/models`, `/clear`,
  `/mcp` and `/tool` (one call to MCP, outside the router), `--models`,
  and `sheri mcp`. `sheri config` writes keys before a session starts;
  it is the constant `ConfigKeys`. `cli.ts` imports `./providers/mock`,
  which is not in the repository. The model assumes that `MockProvider`
  constructs and that its calls resolve or reject like any provider.
* **CliCredentials composed with AuthWorker.** `CliCredentials`
  abstracts the server to the set `valid` of tokens it accepts; in
  `AuthWorker` that set is `authTokens` less the expired ones. Joining
  the two would multiply a state space that is already 500,000 states
  for `auth_ownership` by the CLI's login, logout and whoami steps, and
  the questions each run asks (the server's ownership checks, the CLI's
  handling of a revoked or unreachable session) do not depend on the
  other side beyond what `valid` says. The composition is left out.
* **MCP's `detectDomain`** (first-match table). Its
  patterns match substrings: "pr" in "prospect" routes the provider's own
  sales example to engineering, and "cs" in "metrics" routes "Show me
  DORA metrics" to customer-success. These are direct unit-test cases
  and not a model-checking question.
* Out of reach or without state:
  * the provider SDK wrappers (network I/O). ChatSession's `Outcomes`
    stands for their `generate`: resolve, with an empty text when the
    answer has none (`gemini.ts:38`, `vertex-ai.ts:86`), or reject;
  * the display commands and terminal formatting;
  * the text of prompts and answers;
  * `SheriAuthClient.generateToken` and `revokeToken`, which no command
    calls.
