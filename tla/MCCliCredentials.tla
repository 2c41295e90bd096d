-------------------------- MODULE MCCliCredentials --------------------------
(***************************************************************************)
(* Two concurrent invocations.  tA is the token of an earlier login, tL a  *)
(* token stored under a legacy key or exported in the shell; t1 is the     *)
(* one token the worker can still issue.  Each env source either lacks    *)
(* the keys or holds tL, and the global file may also hold the KEY= lines  *)
(* an earlier logout wrote.                                                *)
(***************************************************************************)
EXTENDS CliCredentials

CONSTANTS p1, p2, tA, tL, t1

MCProcs == {p1, p2}
MCTokens == {tA, tL, t1}
MCInitTokens == {tA, tL}

NoKeys == [k \in Keys |-> NoVal]
MCEnvChoices == {NoKeys, [NoKeys EXCEPT !["HEYSALAD_API_KEY"] = tL]}
MCGlobalChoices ==
  { NoKeys,
    [NoKeys EXCEPT !["HEYSALAD_API_KEY"] = tL],
    [NoKeys EXCEPT !["SHERI_AUTH_TOKEN"] = tL],
    [k \in Keys |-> ""] }
=============================================================================
