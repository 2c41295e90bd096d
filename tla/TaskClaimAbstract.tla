------------------------- MODULE TaskClaimAbstract -------------------------
(***************************************************************************)
(* What the task-claim protocol promises each agent (spec 4.2, 5), with    *)
(* the broker, the message order and the executors left out: a task is    *)
(* announced; an idle agent whose role may take it, and to whom it is not  *)
(* assigned elsewhere, takes it; the agent is busy with that one task      *)
(* until it reports it, and it always does report it.  Several agents may *)
(* take the same task (the accepted race).                                 *)
(***************************************************************************)
CONSTANTS
  Agents,
  Tasks,
  NoTask,
  Eligible(_, _)   \* Eligible(a, t): a's role may take t, not assigned elsewhere

VARIABLES
  announced,  \* tasks announced so far
  busy        \* the task each agent works on, or NoTask

absVars == <<announced, busy>>

Init ==
  /\ announced = {}
  /\ busy = [a \in Agents |-> NoTask]

Announce(t) ==
  /\ t \notin announced
  /\ announced' = announced \cup {t}
  /\ UNCHANGED busy

Take(a, t) ==
  /\ busy[a] = NoTask
  /\ t \in announced
  /\ Eligible(a, t)
  /\ busy' = [busy EXCEPT ![a] = t]
  /\ UNCHANGED announced

Report(a) ==
  /\ busy[a] # NoTask
  /\ busy' = [busy EXCEPT ![a] = NoTask]
  /\ UNCHANGED announced

Next ==
  \/ \E t \in Tasks : Announce(t)
  \/ \E a \in Agents, t \in Tasks : Take(a, t)
  \/ \E a \in Agents : Report(a)

\* A taken task is always finished.
Spec == Init /\ [][Next]_absVars /\ \A a \in Agents : WF_absVars(Report(a))

=============================================================================
