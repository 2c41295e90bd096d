---------------------------- MODULE MCPProvider ----------------------------
(***************************************************************************)
(* MCPProvider.generate (src/providers/mcp.ts) as its callers see it: the  *)
(* ways the returned promise settles for a prompt.                         *)
(*                                                                         *)
(* A prompt is abstracted to its kind: "conversational" when one of the    *)
(* four anchored patterns of handleConversational matches (greetings,      *)
(* status checks, capability and how-are-you questions), "query"           *)
(* otherwise.  A query goes to the gateway's /mcp/ask with the domain of   *)
(* detectDomain; the domain only selects the gateway's knowledge base and  *)
(* does not change how the call settles, so it is left out.  The gateway's *)
(* reply is one of GatewayReplies.                                         *)
(***************************************************************************)

PromptKinds == {"conversational", "query"}

\* handleConversational: a canned answer, without a network call, for the
\* prompts its four patterns match.
HandleConversational(q) == q = "conversational"

\* What the POST to /mcp/ask can come back with: an answer, the RAG's
\* "could not find relevant information", no answer field, or an error:
\* 401, 429, or any other status, the network or the 30 s timeout.
GatewayReplies ==
  {"answer", "noKnowledge", "noAnswer", "unauthorized", "rateLimited", "failed"}

\* The catch turns each error into a thrown Error; every reply with a
\* 2xx status resolves (handleNoKnowledge and the "[MCP:domain] No answer"
\* text are answers too).
Settle(r) ==
  IF r \in {"answer", "noKnowledge", "noAnswer"} THEN "resolve" ELSE "reject"

\* Mutant: the gateway is asked before the conversational check.
GenerateAsksGatewayFirst(q) == {Settle(r) : r \in GatewayReplies}

\* generate: the conversational check comes first and returns at once;
\* only a query reaches the gateway.
Generate(q) ==
  IF HandleConversational(q) THEN {"resolve"}
  ELSE {Settle(r) : r \in GatewayReplies}

=============================================================================
