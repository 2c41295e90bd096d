--------------------------- MODULE MCAgentProcess ---------------------------
(* Two announced tasks, so that one can arrive while the other runs.       *)
EXTENDS AgentProcess

CONSTANTS t1, t2

MCTasks == {t1, t2}
====
