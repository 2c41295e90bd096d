---------------------------- MODULE ChatSession ----------------------------
(***************************************************************************)
(* The main command of the sheri CLI (src/cli.ts) with the CoderAgent      *)
(* (src/agents/coder.ts) and the SmartRouter it may drive.                 *)
(*                                                                         *)
(* buildProviders turns the configured keys into the providers that can   *)
(* be constructed; the main action resolves --primary (or --router) to the *)
(* agent's provider and then answers one prompt (generateCode, with the   *)
(* optional --secondary review) or runs the chat loop.  In the loop,      *)
(* /router and /model replace the agent's provider; a chat message is     *)
(* answered by agent.chat.  Every router is a new SmartRouter with fresh   *)
(* health, modelled by the SmartRouter module under the name R; a call to *)
(* a single provider resolves or rejects, except that MCPProvider answers *)
(* a conversational prompt itself and cannot reject it (module MCPProvider,*)
(* instance MCP).                                                          *)
(*                                                                         *)
(* The loop awaits each answer before it reads the next line, so only the *)
(* clock (R!Tick) runs beside a call.  A call to a single provider reads   *)
(* no clock and no router state and is one step with two outcomes.        *)
(* Slash commands that only print (/help, /models, /clear, /mcp, /tool,    *)
(* an unknown command) and empty lines change no modelled state.          *)
(***************************************************************************)
EXTENDS Naturals, Sequences, FiniteSets, SequencesExt

CONSTANTS
  Cooldown, MaxTime, MaxRequests, NoTime,  \* as in SmartRouter
  ConfigKeys,       \* the keys for which Config.get returns a non-empty value
  PrimaryOptions,   \* values given to -p/--primary (default 'mcp')
  SecondaryOptions, \* values given to -s/--secondary
  ModelArgs,        \* names typed after /model
  NoVal             \* an absent option, provider or reply

\* AVAILABLE_MODELS, the ids the CLI knows.
AvailableModels ==
  <<"mcp", "gemini", "gemini-31-pro", "gemini-31-pro-tools", "vertex-ai",
    "cheri-ml", "claude", "mock", "router">>

\* The keys each provider constructor needs; any one of them is enough.
\* mock and cheri-ml (its key has a default) need none.
KeysFor(id) ==
  CASE id = "mcp"                                 -> {"MCP_API_KEY", "HEYSALAD_API_KEY"}
    [] id = "gemini"                              -> {"GOOGLE_AI_STUDIO_KEY"}
    [] id \in {"gemini-31-pro", "gemini-31-pro-tools"} ->
                                  {"GOOGLE_AI_STUDIO_KEY_PRO", "GOOGLE_AI_STUDIO_KEY"}
    [] id = "vertex-ai"                           -> {"VERTEX_AI_API_KEY"}
    [] id = "claude"                              -> {"ANTHROPIC_API_KEY"}
    [] OTHER                                      -> {}

\* buildProviders: mock and cheri-ml always, every other provider when one
\* of its keys is set (a constructor that throws is skipped).
BuildProviders(keys) ==
  {id \in ToSet(AvailableModels) \ {"router"} :
     id \in {"mock", "cheri-ml"} \/ KeysFor(id) \cap keys # {}}

Providers == BuildProviders(ConfigKeys)

\* buildRouter: mcp, gemini-31-pro, gemini, vertex-ai when built, then mock.
BuildRouter(p) ==
  SelectSeq(<<"mcp", "gemini-31-pro", "gemini", "vertex-ai">>, LAMBDA id : id \in p)
    \o <<"mock">>

\* Config.validate: at least one of its keys is set.
Validate ==
  ConfigKeys \cap {"CHERI_ML_API_KEY", "GOOGLE_AI_STUDIO_KEY", "GOOGLE_AI_STUDIO_KEY_PRO",
                   "VERTEX_AI_API_KEY", "ANTHROPIC_API_KEY", "MCP_API_KEY",
                   "HEYSALAD_API_KEY"} # {}

VARIABLES
  now, failCount, deprioritizedAt, lastSuccessAt, phase, ordered, idx,
  errors, result, requests, failTimes, demoted,   \* the router, see SmartRouter
  options,       \* the parsed command line, until the primary is resolved
  stage,         \* where the main action is
  currentModel,  \* the model name the CLI shows
  primary,       \* the agent's primary provider: an id of Providers or "router"
  secondary,     \* the agent's secondary provider, or NoVal
  reply,         \* the answer printed for the line being handled
  line           \* the kind of the prompt or chat message being answered

routerVars == <<now, failCount, deprioritizedAt, lastSuccessAt, phase, ordered,
                idx, errors, result, requests, failTimes, demoted>>
chatVars == <<options, stage, currentModel, primary, secondary, reply, line>>
vars == <<routerVars, chatVars>>

R == INSTANCE SmartRouter WITH Providers <- BuildRouter(Providers)

RouterSet == ToSet(BuildRouter(Providers))

MCP == INSTANCE MCPProvider

\* How provider p's generate can settle for a prompt of kind q.
Outcomes(p, q) == IF p = "mcp" THEN MCP!Generate(q) ELSE {"resolve", "reject"}

\* No answer printed yet; an error printed instead of an answer.
NoReply == [label |-> NoVal, by |-> NoVal]
ErrorReply == [label |-> "error", by |-> NoVal]

(***************************************************************************)
(* The agent's calls                                                       *)
(***************************************************************************)
\* createSmartRouter: a new router, whose health map starts with a fresh
\* record for every provider; the clock and the bound on calls go on.
NewRouter ==
  /\ failCount' = [p \in RouterSet |-> 0]
  /\ deprioritizedAt' = [p \in RouterSet |-> NoTime]
  /\ lastSuccessAt' = [p \in RouterSet |-> NoTime]
  /\ failTimes' = [p \in RouterSet |-> <<>>]
  /\ ordered' = <<>> /\ idx' = 1 /\ errors' = <<>> /\ result' = "none"
  /\ demoted' = {}
  /\ UNCHANGED <<now, phase, requests>>

\* agent.chat and generateCode up to the await of primaryProvider.generate:
\* the router sorts and calls its first provider; a single provider is
\* simply awaited.
Ask(p) ==
  IF p = "router" THEN R!Generate \/ R!GenerateAcrossTick
  ELSE UNCHANGED routerVars

\* The await of the primary resolves with the text of provider by: chat
\* prints it under [currentModel]; generateCode goes on to the review, or
\* returns the text, which is printed without a model name (label
\* "result"), and the action ends.
Answered(by) ==
  \/ /\ stage = "chat"
     /\ stage' = "prompt"
     /\ reply' = [label |-> currentModel, by |-> by]
  \/ /\ stage = "oneShot" /\ secondary = NoVal
     /\ stage' = "done"
     /\ reply' = [label |-> "result", by |-> by]
  \/ /\ stage = "oneShot" /\ secondary # NoVal
     /\ stage' = "review"
     /\ UNCHANGED reply

\* It rejects: the chat loop prints the error and reads the next line; the
\* single prompt exits with 1.
Failed ==
  \/ stage = "chat" /\ stage' = "prompt" /\ reply' = ErrorReply
  \/ stage = "oneShot" /\ stage' = "exited" /\ UNCHANGED reply

(***************************************************************************)
(* The main action                                                         *)
(***************************************************************************)
\* options.chat stands for "-c given, or no prompt argument": the single
\* prompt mode is !options.chat && prompt.
Init ==
  /\ R!Init
  /\ options \in [primary : PrimaryOptions, router : BOOLEAN, chat : BOOLEAN,
                  secondary : SecondaryOptions]
  /\ stage = IF Validate THEN "start" ELSE "exited"
  /\ currentModel = options.primary
  /\ primary = NoVal
  /\ secondary = NoVal
  /\ reply = NoReply
  /\ line = NoVal

\* Mutant: the agent takes the --secondary name without looking it up.
StartKeepsSecondaryName ==
  LET useRouter == options.router \/ options.primary = "router"
      p == IF useRouter THEN "router" ELSE options.primary
  IN /\ stage = "start"
     /\ \/ /\ ~useRouter /\ options.primary \notin Providers
           /\ stage' = "exited"
           /\ UNCHANGED <<currentModel, primary, secondary, routerVars>>
        \/ /\ useRouter \/ options.primary \in Providers
           /\ currentModel' = p
           /\ primary' = p
           /\ secondary' = options.secondary
           /\ \/ options.chat /\ stage' = "prompt" /\ UNCHANGED routerVars
              \/ ~options.chat /\ stage' = "oneShot" /\ Ask(p)
     /\ line' \in IF options.chat THEN {NoVal} ELSE MCP!PromptKinds
     /\ options' = NoVal
     /\ UNCHANGED reply

\* Resolve the primary provider (exit 1 when it was not built) and the
\* secondary one (undefined when not built), build the agent, then start
\* generateCode or the chat loop.  options is not read afterwards, and
\* agent.chat never reads the secondary provider, so it is kept only for
\* generateCode.
Start ==
  LET useRouter == options.router \/ options.primary = "router"
      p == IF useRouter THEN "router" ELSE options.primary
  IN /\ stage = "start"
     /\ \/ /\ ~useRouter /\ options.primary \notin Providers
           /\ stage' = "exited"
           /\ UNCHANGED <<currentModel, primary, secondary, routerVars>>
        \/ /\ useRouter \/ options.primary \in Providers
           /\ currentModel' = p
           /\ primary' = p
           /\ \/ /\ options.chat
                 /\ stage' = "prompt"
                 /\ UNCHANGED <<secondary, routerVars>>
              \/ /\ ~options.chat
                 /\ stage' = "oneShot"
                 /\ secondary' = IF options.secondary \in Providers
                                   THEN options.secondary ELSE NoVal
                 /\ Ask(p)
     /\ line' \in IF options.chat THEN {NoVal} ELSE MCP!PromptKinds
     /\ options' = NoVal
     /\ UNCHANGED reply

\* A single provider's generate settles.
PrimaryAnswers ==
  /\ stage \in {"chat", "oneShot"}
  /\ primary # "router"
  /\ \/ "resolve" \in Outcomes(primary, line) /\ Answered(primary)
     \/ "reject" \in Outcomes(primary, line) /\ Failed
  /\ UNCHANGED <<routerVars, options, currentModel, primary, secondary, line>>

\* The router's current provider rejects and the loop tries the next one.
RouterTriesNext ==
  /\ R!ProviderFails
  /\ "reject" \in Outcomes(ordered[idx], line)
  /\ UNCHANGED chatVars

\* The router's current provider answers and generate returns its text.
RouterAnswers ==
  /\ R!ProviderSucceeds
  /\ Answered(ordered[idx])
  /\ UNCHANGED <<options, currentModel, primary, secondary, line>>

\* Every provider failed: generate throws 'All providers failed'.
RouterGivesUp ==
  /\ R!AllFailed
  /\ Failed
  /\ UNCHANGED <<options, currentModel, primary, secondary, line>>

\* generateCode's review: the secondary's generate settles; its text is
\* the result, and a rejection exits with 1.  The review prompt begins
\* "Review and improve this code", a query.
Review ==
  /\ stage = "review"
  /\ \/ /\ "resolve" \in Outcomes(secondary, "query")
        /\ stage' = "done" /\ reply' = [label |-> "result", by |-> secondary]
     \/ /\ "reject" \in Outcomes(secondary, "query")
        /\ stage' = "exited" /\ UNCHANGED reply
  /\ UNCHANGED <<routerVars, options, currentModel, primary, secondary, line>>

(***************************************************************************)
(* The chat loop                                                           *)
(***************************************************************************)
\* A line that is not a slash command or exit: agent.chat(msg).
Chat ==
  /\ stage = "prompt"
  /\ stage' = "chat"
  /\ Ask(primary)
  /\ UNCHANGED <<options, currentModel, primary, secondary>>
  /\ reply' = NoReply
  /\ line' \in MCP!PromptKinds

\* /exit, /quit, exit or quit ends the loop.
Quit ==
  /\ stage = "prompt"
  /\ stage' = "done"
  /\ UNCHANGED <<routerVars, options, currentModel, primary, secondary, reply,
                 line>>

\* Mutant: /router shows the router but keeps the old agent.
RouterCommandKeepsAgent ==
  /\ stage = "prompt"
  /\ currentModel' = "router"
  /\ NewRouter
  /\ UNCHANGED <<options, stage, primary, secondary>>
  /\ reply' = NoReply /\ line' = NoVal

\* /router: a new router becomes the agent's provider.
RouterCommand ==
  /\ stage = "prompt"
  /\ currentModel' = "router"
  /\ primary' = "router"
  /\ NewRouter
  /\ UNCHANGED <<options, stage, secondary>>
  /\ reply' = NoReply /\ line' = NoVal

\* /model with a name, or the name picked from the list: currentModel takes
\* the name at once; the agent gets a new router for 'router', the provider
\* when it was built, and is kept otherwise ("Model ... not available").
SelectModel(m) ==
  /\ currentModel' = m
  /\ \/ m = "router" /\ primary' = "router" /\ NewRouter
     \/ m \in Providers /\ primary' = m /\ UNCHANGED routerVars
     \/ m \notin Providers \cup {"router"} /\ UNCHANGED <<primary, routerVars>>

ModelCommand ==
  /\ stage = "prompt"
  /\ \E m \in ModelArgs : SelectModel(m)
  /\ UNCHANGED <<options, stage, secondary>>
  /\ reply' = NoReply /\ line' = NoVal

\* /model without a name lists the built providers and 'router'.
ModelPicker ==
  /\ stage = "prompt"
  /\ \E m \in {id \in ToSet(AvailableModels) : id \in Providers \cup {"router"}} :
       SelectModel(m)
  /\ UNCHANGED <<options, stage, secondary>>
  /\ reply' = NoReply /\ line' = NoVal

Tick ==
  /\ R!Tick
  /\ UNCHANGED chatVars

Next ==
  \/ Start \/ PrimaryAnswers \/ Review
  \/ RouterTriesNext \/ RouterAnswers \/ RouterGivesUp
  \/ Chat \/ Quit \/ RouterCommand \/ ModelCommand \/ ModelPicker
  \/ Tick

\* Every provider call settles: axios gives up after 30 s (mcp, cheri-ml),
\* Node's fetch after 300 s without an answer (gemini, vertex-ai) and the
\* Anthropic SDK after 10 minutes; a settled call's continuation runs.
\* The user, the clock and the commands typed get no fairness.
Fairness ==
  /\ WF_vars(PrimaryAnswers)
  /\ WF_vars(Review)
  /\ WF_vars(RouterTriesNext \/ RouterAnswers \/ RouterGivesUp)

Spec == Init /\ [][Next]_vars /\ Fairness

(***************************************************************************)
(* Properties                                                              *)
(***************************************************************************)
Stages == {"start", "prompt", "chat", "oneShot", "review", "done", "exited"}
Labels == ToSet(AvailableModels) \cup PrimaryOptions \cup ModelArgs \cup {"result"}

TypeOK ==
  /\ R!TypeOK
  /\ stage \in Stages
  /\ currentModel \in Labels
  /\ primary \in Providers \cup {"router", NoVal}
  /\ secondary \in Providers \cup {NoVal}
  /\ reply \in {NoReply, ErrorReply} \cup [label : Labels, by : Providers]
  /\ line \in MCP!PromptKinds \cup {NoVal}

\* The router's health bookkeeping, attempt order and aggregated error
\* (SmartRouter) hold as the chat loop drives it, with every /router and
\* /model router starting a new router.
StampIsThirdFailure == R!StampIsThirdFailure
SortMatchesReference == R!SortMatchesReference
AllFailedNamesEveryProvider == R!AllFailedNamesEveryProvider

\* The chat loop's router keeps the failover contract of RouterFailover
\* (spec 8); a /model or /router command that builds a new router is its
\* Replace step.
ImplementsRouterFailover ==
  R!Failover!Spec

\* An answer printed under [router] (cli.ts:434) was produced by one of the
\* providers of buildRouter: /router and /model router give the agent a
\* router whenever they make 'router' the name shown.
RouterLabelMeansRouterAnswer ==
  reply.by \in Providers /\ reply.label = "router" => reply.by \in RouterSet

\* mcp serves the agent: it is the agent's provider or one of its router's.
McpServes == primary = "mcp" \/ (primary = "router" /\ "mcp" \in RouterSet)

\* A conversational chat message (a greeting, "status", "what can you
\* do?") is never answered with an error while mcp serves the agent:
\* MCPProvider answers it without the gateway (mcp.ts:50), and the router
\* tries every provider, a deprioritized mcp at the end included
\* (smart-router.ts:62-80), before it gives up.
ConversationalLineAnswered ==
  line = "conversational" /\ McpServes => reply # ErrorReply

\* The agent's await always ends (smart-router.ts:62-80, coder.ts): once a
\* prompt or chat message is sent, the answer, the review or the error is
\* eventually printed, whatever the health order and the failures.
AnswerSettles ==
  stage \in {"chat", "oneShot", "review"} ~> stage \in {"prompt", "done", "exited"}

\* The chat label names the provider that answered (cli.ts:434): an answer
\* printed under the name of a single model came from that model.
ReplyLabelNamesProvider ==
  reply.by \in Providers /\ reply.label \notin {"router", "result"} =>
    reply.by = reply.label

=============================================================================
