---------------------------- MODULE TaskHandler ----------------------------
(***************************************************************************)
(* The multi-agent task-claim protocol of sheri-ml-cli: one TaskHandler    *)
(* (src/mqtt/task-handler.ts) per agent process, all of them connected to  *)
(* one MQTT broker through an MQTTClient (src/mqtt/client.ts).             *)
(*                                                                         *)
(* A supervisor outside the repository publishes announcements on          *)
(* {swarm}/tasks/new.  Every agent handles each delivered announcement in  *)
(* handleNewTask: it skips the task when it is busy, when its role may not *)
(* take the task type, or when the task is assigned to someone else, and   *)
(* otherwise claims it: it publishes on tasks/assigned, runs the executor  *)
(* (an awaited timer) and publishes on tasks/complete or tasks/failed.     *)
(*                                                                         *)
(* The broker is modelled per subscriber: inbox[a] holds the messages      *)
(* published but not yet delivered to agent a.  It is a set, so messages   *)
(* of different publishers reach an agent in any order.  QoS 1 delivery is *)
(* at least once: Redeliver puts a message that was already delivered back *)
(* into the inbox, at most MaxRedeliveries times in all.                   *)
(***************************************************************************)
EXTENDS Naturals, Sequences, FiniteSets, SequencesExt

CONSTANTS
  Agents,          \* agent ids (--agent-id), one TaskHandler per id
  Tasks,           \* task_ids announced on tasks/new
  NoTask,          \* currentTask = null
  NoAgent,         \* an announcement without assigned_to
  role,            \* [Agents -> role string], the --role option
  taskType,        \* [Tasks -> type string] of each announcement
  assignedTo,      \* [Tasks -> Agents \cup {NoAgent}] of each announcement
  MaxRedeliveries  \* bound on QoS 1 duplicate deliveries in a behaviour

ASSUME NoTask \notin Tasks /\ NoAgent \notin Agents
ASSUME role \in [Agents -> STRING] /\ taskType \in [Tasks -> STRING]
ASSUME assignedTo \in [Tasks -> Agents \cup {NoAgent}]
ASSUME MaxRedeliveries \in Nat

VARIABLES
  currentTask,   \* TaskHandler.currentTask of each agent
  taskQueue,     \* TaskHandler.taskQueue of each agent
  running,       \* tasks whose claimTask is suspended on await executeTask
  inbox,         \* messages the broker has still to deliver to each agent
  received,      \* messages delivered to each agent so far (history)
  published,     \* what each agent published on tasks/*, in order (history)
  announced,     \* tasks the supervisor has announced
  redeliveries   \* duplicate deliveries so far

vars == <<currentTask, taskQueue, running, inbox, received, published,
          announced, redeliveries>>

(***************************************************************************)
(* Messages.  Only the fields the handlers read are kept.                  *)
(***************************************************************************)
NewTaskMsg(t)     == [topic |-> "tasks/new", task |-> t]
AssignedMsg(t, a) == [topic |-> "tasks/assigned", task |-> t, agent |-> a]
Messages == {NewTaskMsg(t) : t \in Tasks}
              \cup {AssignedMsg(t, a) : t \in Tasks, a \in Agents}

\* Entries of an agent's own tasks/* publications.
Claimed(t)  == [topic |-> "assigned", task |-> t]
Reported(t, status) == [topic |-> status, task |-> t]
Reports == {"complete", "failed"}

(***************************************************************************)
(* canHandleTask: the task type -> roles table; an unknown type needs the  *)
(* general role.                                                           *)
(***************************************************************************)
TaskRoleMap ==
     ("code.review"            :> {"review", "general"})
  @@ ("code.generate"          :> {"general"})
  @@ ("deployment.deploy"      :> {"deployment"})
  @@ ("deployment.rollback"    :> {"deployment"})
  @@ ("testing.run"            :> {"testing"})
  @@ ("testing.coverage"       :> {"testing"})
  @@ ("security.scan"          :> {"security", "review"})
  @@ ("security.audit"         :> {"security"})
  @@ ("monitoring.health"      :> {"monitoring"})
  @@ ("monitoring.alerts"      :> {"monitoring"})
  @@ ("documentation.generate" :> {"documentation", "general"})
  @@ ("database.migrate"       :> {"database"})
  @@ ("database.backup"        :> {"database"})

AllowedRoles(ty) ==
  IF ty \in DOMAIN TaskRoleMap THEN TaskRoleMap[ty] ELSE {"general"}

CanHandleTask(a, ty) == role[a] \in AllowedRoles(ty)

\* The third early return of handleNewTask.
AssignedElsewhere(a, t) == assignedTo[t] # NoAgent /\ assignedTo[t] # a

(***************************************************************************)
(* executeTask: the types with a case in the switch succeed after their    *)
(* delay; rollback and migrate read a field of the payload and throw when  *)
(* the announcement carries none; the default case throws.                 *)
(***************************************************************************)
Dispatched == DOMAIN TaskRoleMap
ReadsPayload == {"deployment.rollback", "database.migrate"}

\* Mutant: the default case of executeTask awaits an executor that is
\* never registered instead of throwing UnknownTaskType.
OutcomesUnknownTypeHangs(t) ==
  (IF taskType[t] \in Dispatched THEN {"complete"} ELSE {})
    \cup (IF taskType[t] \in ReadsPayload THEN {"failed"} ELSE {})

Outcomes(t) ==
  (IF taskType[t] \in Dispatched THEN {"complete"} ELSE {})
    \cup (IF taskType[t] \in ReadsPayload \/ taskType[t] \notin Dispatched
            THEN {"failed"} ELSE {})

\* MQTTClient.publish on tasks/assigned: the broker fans it out to every
\* subscriber; onMessage drops the copy that comes back to the publisher.
PublishAssigned(t, a) ==
  [b \in Agents |-> IF b = a THEN inbox[b] ELSE inbox[b] \cup {AssignedMsg(t, a)}]

(***************************************************************************)
(* Actions                                                                 *)
(***************************************************************************)
Init ==
  /\ currentTask  = [a \in Agents |-> NoTask]
  /\ taskQueue    = [a \in Agents |-> <<>>]
  /\ running      = [a \in Agents |-> {}]
  /\ inbox        = [a \in Agents |-> {}]
  /\ received     = [a \in Agents |-> {}]
  /\ published    = [a \in Agents |-> <<>>]
  /\ announced    = {}
  /\ redeliveries = 0

\* The supervisor publishes a task on tasks/new; every agent is subscribed.
Announce(t) ==
  /\ t \notin announced
  /\ announced' = announced \cup {t}
  /\ inbox' = [a \in Agents |-> inbox[a] \cup {NewTaskMsg(t)}]
  /\ UNCHANGED <<currentTask, taskQueue, running, received, published,
                 redeliveries>>

\* QoS 1: the broker delivers again a message whose PUBACK it did not see.
Redeliver(a) ==
  \E m \in received[a] \ inbox[a] :
    /\ redeliveries < MaxRedeliveries
    /\ inbox' = [inbox EXCEPT ![a] = @ \cup {m}]
    /\ redeliveries' = redeliveries + 1
    /\ UNCHANGED <<currentTask, taskQueue, running, received, published,
                   announced>>

\* Mutant: claimTask stores the announcement instead of its task_id.
ClaimTaskStoresMessage(a, t) ==
  /\ currentTask' = [currentTask EXCEPT ![a] = NewTaskMsg(t)]
  /\ running' = [running EXCEPT ![a] = @ \cup {t}]
  /\ published' = [published EXCEPT ![a] = Append(@, Claimed(t))]
  /\ inbox' = [PublishAssigned(t, a) EXCEPT ![a] = @ \ {NewTaskMsg(t)}]

\* claimTask up to its first await: currentTask is set and the claim is
\* published before the executor is started.
ClaimTask(a, t) ==
  /\ currentTask' = [currentTask EXCEPT ![a] = t]
  /\ running' = [running EXCEPT ![a] = @ \cup {t}]
  /\ published' = [published EXCEPT ![a] = Append(@, Claimed(t))]
  /\ inbox' = [PublishAssigned(t, a) EXCEPT ![a] = @ \ {NewTaskMsg(t)}]

\* Mutant: handleNewTask without the busy check.
HandleNewTaskNoBusyCheck(a) ==
  \E m \in inbox[a] :
    LET t == m.task IN
    /\ m.topic = "tasks/new"
    /\ received' = [received EXCEPT ![a] = @ \cup {m}]
    /\ \/ /\ ~CanHandleTask(a, taskType[t]) \/ AssignedElsewhere(a, t)
          /\ inbox' = [inbox EXCEPT ![a] = @ \ {m}]
          /\ UNCHANGED <<currentTask, running, published>>
       \/ /\ CanHandleTask(a, taskType[t])
          /\ ~AssignedElsewhere(a, t)
          /\ ClaimTask(a, t)
    /\ UNCHANGED <<taskQueue, announced, redeliveries>>

\* The 'message' listener on tasks/new, i.e. handleNewTask.
HandleNewTask(a) ==
  \E m \in inbox[a] :
    LET t == m.task IN
    /\ m.topic = "tasks/new"
    /\ received' = [received EXCEPT ![a] = @ \cup {m}]
    /\ \/ /\ currentTask[a] # NoTask
          /\ inbox' = [inbox EXCEPT ![a] = @ \ {m}]
          /\ UNCHANGED <<currentTask, running, published>>
       \/ /\ currentTask[a] = NoTask
          /\ ~CanHandleTask(a, taskType[t]) \/ AssignedElsewhere(a, t)
          /\ inbox' = [inbox EXCEPT ![a] = @ \ {m}]
          /\ UNCHANGED <<currentTask, running, published>>
       \/ /\ currentTask[a] = NoTask
          /\ CanHandleTask(a, taskType[t])
          /\ ~AssignedElsewhere(a, t)
          /\ ClaimTask(a, t)
    /\ UNCHANGED <<taskQueue, announced, redeliveries>>

\* The 'message' listener on tasks/assigned, i.e. handleTaskAssigned.
HandleTaskAssigned(a) ==
  \E m \in inbox[a] :
    LET Other(x) == x # m.task IN
    /\ m.topic = "tasks/assigned"
    /\ inbox' = [inbox EXCEPT ![a] = @ \ {m}]
    /\ received' = [received EXCEPT ![a] = @ \cup {m}]
    /\ taskQueue' =
         IF m.agent # a /\ Contains(taskQueue[a], m.task)
           THEN [taskQueue EXCEPT ![a] = SelectSeq(@, Other)]
           ELSE taskQueue
    /\ UNCHANGED <<currentTask, running, published, announced, redeliveries>>

\* Mutant: the finally block of claimTask does not reset currentTask.
FinishTaskKeepsCurrent(a) ==
  \E t \in running[a], status \in Reports :
    /\ status \in Outcomes(t)
    /\ running' = [running EXCEPT ![a] = @ \ {t}]
    /\ published' = [published EXCEPT ![a] = Append(@, Reported(t, status))]
    /\ UNCHANGED <<currentTask, taskQueue, inbox, received, announced, redeliveries>>

(***************************************************************************)
(* claimTask after its await: the executor settles, the report is          *)
(* published, and the finally block clears currentTask and claims the head *)
(* of taskQueue.  taskQueue is never appended to in task-handler.ts, so    *)
(* the drain is written as a conditional rather than an action of its own. *)
(***************************************************************************)
FinishTask(a) ==
  \E t \in running[a], status \in Reports :
    LET log  == Append(published[a], Reported(t, status))
        next == Head(taskQueue[a])
    IN
    /\ status \in Outcomes(t)
    /\ IF taskQueue[a] = <<>>
         THEN /\ currentTask' = [currentTask EXCEPT ![a] = NoTask]
              /\ running' = [running EXCEPT ![a] = @ \ {t}]
              /\ published' = [published EXCEPT ![a] = log]
              /\ UNCHANGED <<taskQueue, inbox>>
         ELSE /\ currentTask' = [currentTask EXCEPT ![a] = next]
              /\ taskQueue' = [taskQueue EXCEPT ![a] = Tail(@)]
              /\ running' = [running EXCEPT ![a] = (@ \ {t}) \cup {next}]
              /\ published' = [published EXCEPT ![a] = Append(log, Claimed(next))]
              /\ inbox' = PublishAssigned(next, a)
    /\ UNCHANGED <<received, announced, redeliveries>>

Next ==
  \/ \E t \in Tasks : Announce(t)
  \/ \E a \in Agents : Redeliver(a)
  \/ \E a \in Agents : HandleNewTask(a)
  \/ \E a \in Agents : HandleTaskAssigned(a)
  \/ \E a \in Agents : FinishTask(a)

(***************************************************************************)
(* Node's event loop runs every handler whose message has arrived, and     *)
(* every executor is a setTimeout that fires: both are weakly fair.  The   *)
(* supervisor and the broker's redeliveries are not.                       *)
(***************************************************************************)
Fairness ==
  \A a \in Agents :
    /\ WF_vars(HandleNewTask(a))
    /\ WF_vars(HandleTaskAssigned(a))
    /\ WF_vars(FinishTask(a))

Spec == Init /\ [][Next]_vars /\ Fairness

(***************************************************************************)
(* Properties                                                              *)
(***************************************************************************)
TypeOK ==
  /\ currentTask \in [Agents -> Tasks \cup {NoTask}]
  /\ taskQueue \in [Agents -> Seq(Tasks)]
  /\ running \in [Agents -> SUBSET Tasks]
  /\ inbox \in [Agents -> SUBSET Messages]
  /\ received \in [Agents -> SUBSET Messages]
  /\ \A a \in Agents : \A i \in 1..Len(published[a]) :
       published[a][i] \in {Claimed(t) : t \in Tasks}
                             \cup {Reported(t, s) : t \in Tasks, s \in Reports}
  /\ announced \subseteq Tasks
  /\ redeliveries \in 0..MaxRedeliveries

ClaimCount(a, t) == Cardinality({i \in 1..Len(published[a]) :
                                   published[a][i] = Claimed(t)})
ReportCount(a) == Cardinality({i \in 1..Len(published[a]) :
                                 published[a][i].topic \in Reports})
Unanswered(a) == Len(published[a]) - 2 * ReportCount(a)

\* One task at a time (spec 5): in every agent's publications a claim is
\* always followed by the report of that same task before the next claim.
\* It fails if handleNewTask claims while claimTask of another task is
\* still awaiting its executor.
OneTaskAtATime ==
  \A a \in Agents : \A i \in 1..Len(published[a]) :
    /\ (published[a][i].topic = "assigned") <=> (i % 2 = 1)
    /\ i % 2 = 0 => published[a][i].task = published[a][i - 1].task

\* Every claim is answered: once an agent has published a claim, it
\* eventually publishes tasks/complete or tasks/failed for it, whatever
\* the executor does (claimTask's catch reports failures).
ClaimsAreReported ==
  \A a \in Agents :
    Unanswered(a) > 0 ~> Unanswered(a) = 0

\* Duplicate execution only in the accepted race (spec 4.2, 6): subscribers
\* tolerate duplicate and out-of-order delivery, and the one duplicate run
\* the design accepts is two agents that both see the announcement before
\* either claim reaches them.  So an agent claims a task only if it has
\* not claimed it before (a QoS 1 redelivery of tasks/new must not run it
\* again) and has not already been told on tasks/assigned that another
\* agent took it.
OnlyRacingDuplicates ==
  [][\A a \in Agents, t \in Tasks :
       ClaimCount(a, t)' > ClaimCount(a, t) =>
         /\ ClaimCount(a, t) = 0
         /\ ~\E b \in Agents \ {a} : AssignedMsg(t, b) \in received[a]]_vars

\* Busy agents keep eligible tasks (spec 4.2): every announced task that
\* some agent's role may take is eventually claimed by some agent.
EligibleTasksAreClaimed ==
  \A t \in Tasks :
    (t \in announced /\ \E a \in Agents : CanHandleTask(a, taskType[t])
                                           /\ ~AssignedElsewhere(a, t))
      ~> (\E a \in Agents : ClaimCount(a, t) > 0)

(***************************************************************************)
(* Refinement: with currentTask as the task each agent is busy with,       *)
(* task-handler.ts implements the abstract protocol.  An agent takes only *)
(* an announced task it is eligible for, and only while idle; it stays on *)
(* it until the finally block of claimTask clears it, which always         *)
(* happens.  Handlers that skip a message, the broker's deliveries and the *)
(* tasks/assigned handler are stuttering steps of the abstract protocol.   *)
(***************************************************************************)
Abstract == INSTANCE TaskClaimAbstract WITH
  busy <- currentTask,
  Eligible <- LAMBDA a, t : CanHandleTask(a, taskType[t]) /\ ~AssignedElsewhere(a, t)

\* task-handler.ts, under the fairness of the event loop, implements the
\* abstract claim protocol of TaskClaimAbstract.
ImplementsTaskClaimAbstract == Abstract!Spec

=============================================================================
