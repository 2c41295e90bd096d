--------------------------- MODULE MCSmartRouter ---------------------------
(***************************************************************************)
(* Three providers, as buildRouter in cli.ts configures mcp, gemini and    *)
(* the mock provider.  With a cool-down of one tick, three calls at time 0 *)
(* in which pA fails deprioritize it; the fourth call can sort while the   *)
(* clock reaches 1, the end of pA's cool-down.                             *)
(***************************************************************************)
EXTENDS SmartRouter

CONSTANTS pA, pB, pC

MCProviders == <<pA, pB, pC>>

=============================================================================
