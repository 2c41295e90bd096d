--------------------------- MODULE MCChatSession ---------------------------
(***************************************************************************)
(* The MCP and Vertex AI keys configured: buildProviders builds mock,      *)
(* cheri-ml, mcp and vertex-ai, and the router tries mcp, vertex-ai, then *)
(* mock, three providers as in MCSmartRouter.  --primary names mcp or      *)
(* claude (not built) and --router may be given; --secondary names        *)
(* cheri-ml or claude (not built).  /model names the router, cheri-ml or   *)
(* claude; the picker offers the four built models and the router.  Four   *)
(* router calls are enough for three failures in a row and a call that     *)
(* sorts with the stamp; with a cool-down of 1 a clock up to 2 lets a      *)
(* stamp expire and the provider fail again.                               *)
(***************************************************************************)
EXTENDS ChatSession

MCConfigKeys == {"MCP_API_KEY", "VERTEX_AI_API_KEY"}
MCPrimaryOptions == {"mcp", "claude"}
MCSecondaryOptions == {"cheri-ml", "claude"}
MCModelArgs == {"router", "cheri-ml", "claude"}

=============================================================================
