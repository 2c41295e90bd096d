---------------------------- MODULE AgentProcess ----------------------------
(***************************************************************************)
(* One sheri --mqtt agent process, from startMQTTAgent (cli-v2.ts) to its  *)
(* exit, with its MQTTClient session (mqtt/client.ts).                     *)
(*                                                                         *)
(* startMQTTAgent constructs the client and the TaskHandler, then awaits   *)
(* a promise that 'connected' resolves and the first 'error' or a 30 s    *)
(* timer rejects; a rejection exits with code 1.  Once running it installs *)
(* SIGINT/SIGTERM handlers that call disconnect() and exit(0) after 1 s.   *)
(* Every 'connect' of the mqtt library (the first and each automatic       *)
(* reconnect) runs onConnect, which starts another heartbeat interval.     *)
(* With clean: true the broker drops what it holds for the agent when the *)
(* connection goes.                                                        *)
(*                                                                         *)
(* The task handler is reduced to what the lifecycle changes: the task in  *)
(* flight (every announced task is taken to be eligible) and its report.   *)
(* Timer delays become orders: end(true) 500 ms after a signal always      *)
(* precedes the exit 1000 ms after it; the heartbeat period, the           *)
(* executors' 1-5 s and the 30 s timeout may fall anywhere.  A second      *)
(* signal while stopping only repeats disconnect() and is left out.        *)
(***************************************************************************)
EXTENDS Naturals, FiniteSets

CONSTANTS
  Tasks,        \* tasks other agents announce on tasks/new
  NoTask,       \* currentTask = null
  MaxConnects,  \* bound on 'connect' events (the first and the reconnects)
  MaxErrors     \* bound on 'error' events

ASSUME NoTask \notin Tasks
ASSUME MaxConnects \in Nat /\ MaxErrors \in Nat

Alive == {"starting", "running", "stopping"}

VARIABLES
  proc,          \* "starting", "running", "stopping", "exited", "crashed"
  exitCode,      \* the argument of process.exit
  conn,          \* the mqtt client: "connecting", "connected", "offline", "ended"
  startup,       \* the awaited connection promise: "pending", "resolved", "rejected"
  timeoutArmed,  \* the 30 s setTimeout of that promise has not fired yet
  errListeners,  \* listeners of the client's 'error' event
  timers,        \* heartbeat intervals that are alive
  lastLive,      \* this.heartbeatInterval is alive (not yet cleared)
  endPending,    \* the 500 ms client.end(true) timer of disconnect()
  exitPending,   \* the 1000 ms process.exit(0) timer of the signal handler
  shutdownSent,  \* agents/shutdown has been published
  hbAfterShutdown, \* a heartbeat was published after agents/shutdown
  brokerQueue,   \* tasks/new the broker holds for this session
  announced,     \* tasks announced so far
  currentTask,   \* TaskHandler.currentTask
  claimed,       \* tasks this agent claimed (published tasks/assigned)
  reported,      \* tasks whose tasks/complete or tasks/failed was sent
  connects,      \* 'connect' events so far
  errors         \* 'error' events so far

vars == <<proc, exitCode, conn, startup, timeoutArmed, errListeners, timers,
          lastLive, endPending, exitPending, shutdownSent, hbAfterShutdown,
          brokerQueue, announced, currentTask, claimed, reported, connects,
          errors>>

lifecycle == <<proc, exitCode, startup, timeoutArmed, errListeners,
               endPending, exitPending>>
tasking == <<brokerQueue, announced, currentTask, claimed, reported>>

Init ==
  /\ proc = "starting"
  /\ exitCode = 0
  /\ conn = "connecting"
  /\ startup = "pending"
  /\ timeoutArmed = TRUE
  /\ errListeners = 1
  /\ timers = 0
  /\ lastLive = FALSE
  /\ endPending = FALSE
  /\ exitPending = FALSE
  /\ shutdownSent = FALSE
  /\ hbAfterShutdown = FALSE
  /\ brokerQueue = {}
  /\ announced = {}
  /\ currentTask = NoTask
  /\ claimed = {}
  /\ reported = {}
  /\ connects = 0
  /\ errors = 0

(***************************************************************************)
(* The MQTT session                                                        *)
(***************************************************************************)
\* The library's 'connect' event runs onConnect: subscribe, publish
\* agents/register, start a heartbeat interval, emit 'connected', which the
\* first time resolves startMQTTAgent's promise.
Connect ==
  /\ proc \in Alive
  /\ conn \in {"connecting", "offline"}
  /\ connects < MaxConnects
  /\ conn' = "connected"
  /\ connects' = connects + 1
  /\ timers' = timers + 1
  /\ lastLive' = TRUE
  /\ IF startup = "pending"
       THEN startup' = "resolved" /\ proc' = "running"
       ELSE UNCHANGED <<startup, proc>>
  /\ UNCHANGED <<exitCode, timeoutArmed, errListeners, endPending, exitPending,
                 shutdownSent, hbAfterShutdown, errors, tasking>>

\* 'close' and 'offline': the library reconnects after reconnectPeriod;
\* the clean session loses what the broker held.
Drop ==
  /\ proc \in Alive
  /\ conn = "connected"
  /\ conn' = "offline"
  /\ brokerQueue' = {}
  /\ UNCHANGED <<lifecycle, timers, lastLive, shutdownSent, hbAfterShutdown,
                 announced, currentTask, claimed, reported, connects, errors>>

\* onError re-emits 'error'.  The once('error', reject) of startMQTTAgent
\* takes the first one: before the promise settled it rejects and the catch
\* exits with 1; after, the reject is a no-op.  With no listener left,
\* EventEmitter throws and the uncaught exception ends the process.
StreamError ==
  /\ proc \in Alive
  /\ conn # "ended"
  /\ errors < MaxErrors
  /\ errors' = errors + 1
  /\ \/ /\ errListeners > 0
        /\ errListeners' = errListeners - 1
        /\ IF startup = "pending"
             THEN /\ startup' = "rejected" /\ proc' = "exited" /\ exitCode' = 1
             ELSE UNCHANGED <<startup, proc, exitCode>>
     \/ /\ errListeners = 0
        /\ proc' = "crashed"
        /\ UNCHANGED <<startup, exitCode, errListeners>>
  /\ UNCHANGED <<conn, timeoutArmed, timers, lastLive, endPending, exitPending,
                 shutdownSent, hbAfterShutdown, connects, tasking>>

\* Mutant: the connection wait has no timer.
StartupTimeoutMissing == FALSE

\* Mutant: the timer ends the process whether or not the promise settled.
StartupTimeoutAlwaysExits ==
  /\ proc \in Alive
  /\ timeoutArmed
  /\ timeoutArmed' = FALSE
  /\ startup' = "rejected" /\ proc' = "exited" /\ exitCode' = 1
  /\ UNCHANGED <<conn, errListeners, timers, lastLive, endPending, exitPending,
                 shutdownSent, hbAfterShutdown, connects, errors, tasking>>

\* The 30 s timer rejects the promise, which only matters while pending.
StartupTimeout ==
  /\ proc \in Alive
  /\ timeoutArmed
  /\ timeoutArmed' = FALSE
  /\ IF startup = "pending"
       THEN startup' = "rejected" /\ proc' = "exited" /\ exitCode' = 1
       ELSE UNCHANGED <<startup, proc, exitCode>>
  /\ UNCHANGED <<conn, errListeners, timers, lastLive, endPending, exitPending,
                 shutdownSent, hbAfterShutdown, connects, errors, tasking>>

\* A heartbeat interval fires and publishes agents/heartbeat (after
\* end(true) the publish fails).
Heartbeat ==
  /\ proc \in Alive
  /\ timers > 0
  /\ conn # "ended"
  /\ hbAfterShutdown' = (hbAfterShutdown \/ shutdownSent)
  /\ UNCHANGED <<lifecycle, conn, timers, lastLive, shutdownSent, connects,
                 errors, tasking>>

(***************************************************************************)
(* Shutdown                                                                *)
(***************************************************************************)
\* SIGINT or SIGTERM.  Before the handlers are installed the default action
\* ends the process; after, disconnect() clears this.heartbeatInterval (the
\* latest interval only), publishes agents/shutdown and arms end(true) in
\* 500 ms, and the handler arms process.exit(0) in 1000 ms.
Signal ==
  /\ proc \in {"starting", "running"}
  /\ IF proc = "starting"
       THEN /\ proc' = "exited" /\ exitCode' = 130
            /\ UNCHANGED <<timers, lastLive, endPending, exitPending,
                           shutdownSent>>
       ELSE /\ proc' = "stopping"
            /\ timers' = IF lastLive THEN timers - 1 ELSE timers
            /\ lastLive' = FALSE
            /\ shutdownSent' = TRUE
            /\ endPending' = TRUE
            /\ exitPending' = TRUE
            /\ UNCHANGED exitCode
  /\ UNCHANGED <<conn, startup, timeoutArmed, errListeners, hbAfterShutdown,
                 connects, errors, tasking>>

\* client.end(true): the connection is closed for good.
EndClient ==
  /\ proc \in Alive
  /\ endPending
  /\ endPending' = FALSE
  /\ conn' = "ended"
  /\ brokerQueue' = {}
  /\ UNCHANGED <<proc, exitCode, startup, timeoutArmed, errListeners,
                 exitPending, timers, lastLive, shutdownSent, hbAfterShutdown,
                 announced, currentTask, claimed, reported, connects, errors>>

\* process.exit(0), 500 ms after end(true).
Exit ==
  /\ proc \in Alive
  /\ exitPending /\ ~endPending
  /\ exitPending' = FALSE
  /\ proc' = "exited"
  /\ exitCode' = 0
  /\ UNCHANGED <<conn, startup, timeoutArmed, errListeners, endPending, timers,
                 lastLive, shutdownSent, hbAfterShutdown, connects, errors,
                 tasking>>

(***************************************************************************)
(* Task traffic                                                            *)
(***************************************************************************)
\* Another agent publishes tasks/new; the broker holds it for this agent
\* only while its session is connected.
Announce(t) ==
  /\ t \notin announced
  /\ announced' = announced \cup {t}
  /\ brokerQueue' = IF conn = "connected" /\ proc \in Alive
                      THEN brokerQueue \cup {t} ELSE brokerQueue
  /\ UNCHANGED <<lifecycle, conn, timers, lastLive, shutdownSent,
                 hbAfterShutdown, currentTask, claimed, reported, connects,
                 errors>>

\* onMessage -> handleNewTask: claim when idle, else return (busy).
HandleNewTask(t) ==
  /\ proc \in Alive
  /\ conn = "connected"
  /\ t \in brokerQueue
  /\ brokerQueue' = brokerQueue \ {t}
  /\ IF currentTask = NoTask
       THEN currentTask' = t /\ claimed' = claimed \cup {t}
       ELSE UNCHANGED <<currentTask, claimed>>
  /\ UNCHANGED <<lifecycle, conn, timers, lastLive, shutdownSent,
                 hbAfterShutdown, announced, reported, connects, errors>>

\* A tasks/new or tasks/assigned message whose envelope has no payload
\* (any client of the broker may publish one, and JSON.parse accepts it).
\* handleNewTask reads task.task_id or task.type of undefined and
\* handleTaskAssigned destructures undefined, so the async handler
\* rejects; onMessage's try/catch only sees the returned promise, and
\* nothing handles the rejection, which ends the process (Node 15 and
\* later).  An older Node only prints a warning, a stuttering step.
MalformedMessage ==
  /\ proc \in Alive
  /\ conn = "connected"
  /\ proc' = "crashed"
  /\ UNCHANGED <<exitCode, conn, startup, timeoutArmed, errListeners, timers,
                 lastLive, endPending, exitPending, shutdownSent,
                 hbAfterShutdown, connects, errors, tasking>>

\* Mutant: the report is built after currentTask was cleared.
FinishTaskReportsAfterClear ==
  /\ proc \in Alive
  /\ currentTask # NoTask
  /\ currentTask' = NoTask
  /\ reported' = IF conn = "ended" THEN reported ELSE reported \cup {currentTask'}
  /\ UNCHANGED <<lifecycle, conn, timers, lastLive, shutdownSent,
                 hbAfterShutdown, brokerQueue, announced, claimed, connects,
                 errors>>

\* The executor settles and claimTask publishes the report; after
\* end(true) the client refuses the publish and the report is lost.
FinishTask ==
  /\ proc \in Alive
  /\ currentTask # NoTask
  /\ reported' = IF conn = "ended" THEN reported ELSE reported \cup {currentTask}
  /\ currentTask' = NoTask
  /\ UNCHANGED <<lifecycle, conn, timers, lastLive, shutdownSent,
                 hbAfterShutdown, brokerQueue, announced, claimed, connects,
                 errors>>

Next ==
  \/ Connect \/ Drop \/ StreamError \/ StartupTimeout \/ Heartbeat
  \/ Signal \/ EndClient \/ Exit \/ FinishTask \/ MalformedMessage
  \/ \E t \in Tasks : Announce(t) \/ HandleNewTask(t)

\* Timers always fire, executors always settle and the event loop runs
\* every delivered message; the broker, the network and the operator's
\* signals are the environment and get no fairness.
Fairness ==
  /\ WF_vars(StartupTimeout)
  /\ WF_vars(EndClient)
  /\ WF_vars(Exit)
  /\ WF_vars(FinishTask)
  /\ \A t \in Tasks : WF_vars(HandleNewTask(t))

Spec == Init /\ [][Next]_vars /\ Fairness

(***************************************************************************)
(* Properties                                                              *)
(***************************************************************************)
TypeOK ==
  /\ proc \in Alive \cup {"exited", "crashed"}
  /\ exitCode \in {0, 1, 130}
  /\ conn \in {"connecting", "connected", "offline", "ended"}
  /\ startup \in {"pending", "resolved", "rejected"}
  /\ errListeners \in 0..1
  /\ timers \in 0..MaxConnects
  /\ brokerQueue \subseteq announced /\ announced \subseteq Tasks
  /\ currentTask \in Tasks \cup {NoTask}
  /\ reported \subseteq claimed /\ claimed \subseteq Tasks
  /\ connects \in 0..MaxConnects /\ errors \in 0..MaxErrors

\* Startup failure is the only failure exit: the process exits with 1 only
\* if it never connected.  A late 30 s timeout or a first 'error' after
\* 'connected' settles nothing (startMQTTAgent's promise is already
\* resolved).
FailureExitOnlyBeforeConnect ==
  proc = "exited" /\ exitCode = 1 => connects = 0

\* The agent never hangs at startup: the awaited connection promise
\* settles (connected, failed or timed out) and the process runs or ends.
StartupSettles ==
  proc = "starting" ~> proc # "starting"

\* Failures are not fatal to the agent (spec 7): transport failures
\* surface as error events and the coordinator does not end the process,
\* and a failure of one task is caught and reported.  Neither the MQTT
\* 'error' event nor a malformed task message crashes the process.
AgentSurvivesFailures ==
  proc # "crashed"

\* Graceful shutdown (spec 4.2, 7): the agent announces agents/shutdown and
\* its liveness signal stops with it, and the current task publishes its
\* result before the process exits.  No heartbeat is published after the
\* shutdown message (disconnect() clears only the latest interval of
\* onConnect), and after a graceful exit every claimed task was reported
\* (the exit timer is fixed while executors take 1-5 s).
ShutdownIsGraceful ==
  /\ ~hbAfterShutdown
  /\ proc = "exited" /\ exitCode = 0 => claimed \subseteq reported
====
