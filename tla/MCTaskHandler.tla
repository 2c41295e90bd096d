--------------------------- MODULE MCTaskHandler ---------------------------
(***************************************************************************)
(* Two agents, a review agent a1 and a general agent a2, and three tasks:  *)
(*   t1  code.review, no assigned_to: both roles may take it, so both can  *)
(*       claim it and each sees the other's tasks/assigned;                *)
(*   t2  code.generate assigned to a1: only a2's role may take it, and a2  *)
(*       must skip it because it is assigned elsewhere;                    *)
(*   t3  a type with no entry in the table: it falls back to the general   *)
(*       role and executeTask's default case fails it.                     *)
(* a2 can therefore be busy with one task when another arrives.            *)
(***************************************************************************)
EXTENDS TaskHandler

CONSTANTS a1, a2, t1, t2, t3

MCAgents == {a1, a2}
MCTasks  == {t1, t2, t3}
MCRole == (a1 :> "review") @@ (a2 :> "general")
MCTaskType == (t1 :> "code.review") @@ (t2 :> "code.generate")
                @@ (t3 :> "lint.fix")
MCAssignedTo == (t1 :> NoAgent) @@ (t2 :> a1) @@ (t3 :> NoAgent)

=============================================================================
