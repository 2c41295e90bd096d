--------------------------- MODULE RouterFailover ---------------------------
(***************************************************************************)
(* What a failover router promises its caller, with no health records and *)
(* no order: a call tries providers one at a time, never the same one      *)
(* twice; it is served by a provider it has not yet seen fail, or it gives *)
(* up once every provider has failed.  Between calls the caller may       *)
(* replace the router, which forgets the outcome of the last call.        *)
(* SmartRouter is shown to implement it (ImplementsRouterFailover).       *)
(***************************************************************************)
CONSTANT Providers   \* the set of providers the router was built with

VARIABLES
  phase,   \* "idle" or "calling"
  tried,   \* the providers that have failed in the current call
  last     \* outcome of the last call: "none", "served", "allFailed"

absVars == <<phase, tried, last>>

Init ==
  /\ phase = "idle"
  /\ tried = {}
  /\ last = "none"

Call ==
  /\ phase = "idle"
  /\ phase' = "calling"
  /\ UNCHANGED <<tried, last>>

\* A provider not yet tried fails; the call goes on.
Fail(p) ==
  /\ phase = "calling"
  /\ p \notin tried
  /\ tried' = tried \cup {p}
  /\ UNCHANGED <<phase, last>>

\* A provider not yet tried answers; the call ends served.
Serve(p) ==
  /\ phase = "calling"
  /\ p \notin tried
  /\ phase' = "idle"
  /\ tried' = {}
  /\ last' = "served"

\* Every provider has failed; the call ends in an error.
GiveUp ==
  /\ phase = "calling"
  /\ tried = Providers
  /\ phase' = "idle"
  /\ tried' = {}
  /\ last' = "allFailed"

\* The caller builds a new router between calls.
Replace ==
  /\ phase = "idle"
  /\ last' = "none"
  /\ UNCHANGED <<phase, tried>>

Next ==
  \/ Call
  \/ \E p \in Providers : Fail(p) \/ Serve(p)
  \/ GiveUp
  \/ Replace

\* Safety only: liveness of a call is AnswerSettles of ChatSession.
Spec == Init /\ [][Next]_absVars

=============================================================================
