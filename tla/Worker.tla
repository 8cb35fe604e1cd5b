------------------------------- MODULE Worker -------------------------------
(***************************************************************************)
(* The build worker: BuildService (worker/src/service.ts) and its State,    *)
(* reached by launchers over one WebSocket at a time (worker/src/ws.ts,      *)
(* worker/src/utils/WebSocketServer.ts).                                    *)
(*                                                                          *)
(* Node runs one callback at a time, so an action runs from one await to     *)
(* the next.  The tasks that interleave are the build (startBuildInternal)   *)
(* and one finishAbort per ABORT handled.  The launchers are external: they  *)
(* connect, send the letters of the constant Letters in any order, each      *)
(* once, and go away cleanly, with a socket error, or silently.             *)
(***************************************************************************)
EXTENDS Naturals, Sequences, FiniteSets

CONSTANTS
  Conns,       \* the sockets launchers may open, each used once
  Letters,     \* what launchers may send
  Kind,        \* Kind[m]: the type of letter m, and whether its id matches
  None

Kinds == {"dispatch", "dispatch-other", "query", "query-other",
          "abort-cancel", "abort-timeout", "close"}
Aborts == {m \in Letters : Kind[m] \in {"abort-cancel", "abort-timeout"}}
Tasks  == {"build"} \cup Aborts

Results  == {"success", "error", "aborted"}             \* FinalStatus
Statuses == {"new", "in-progress"} \cup Results         \* Worker.Status

ASSUME WorkerAssumption ==
  /\ Kind \in [Letters -> Kinds]
  /\ "build" \notin Letters
  /\ None \notin Conns \cup Statuses

VARIABLES
  conn,      \* each socket, seen from the worker
  alive,     \* WebSocketServer.isWsAlive
  queue,     \* WebSocketBase.queue, after what the network still carries
  ws,        \* BuildService.ws
  status,    \* State.status
  started,   \* startedProcessingBuild
  shouldCloseWorker,
  logs,      \* the sinks behind logsCleanUp
  pc,        \* where each task is suspended
  outcome,   \* the result each task is reporting
  hangReported, \* reportHangingWorker has run
  process,   \* "up", or how the process ended
  unsent,    \* letters not sent yet
  heard,     \* history: the last status each launcher was told
  told,      \* history: every result any launcher was told
  replaced   \* history: some result was overwritten in State

sockets == <<conn, alive>>
service == <<ws, status, started, shouldCloseWorker>>
tasks   == <<pc, outcome>>
history == <<heard, told, replaced>>
vars == <<sockets, queue, service, logs, tasks, hangReported, process,
          unsent, history>>

Entries == [kind : {"receive"}, letter : Letters]
             \cup [kind : {"send"}, status : Statuses]
             \cup [kind : {"onClose"}]
Receive(m) == [kind |-> "receive", letter |-> m]
Send(s)    == [kind |-> "send", status |-> s]
OnClose    == [kind |-> "onClose"]

ConnStates == {"new", "open", "dead", "closing", "closed", "refused"}
PCs == {"idle", "setUp", "context", "building", "xcodeLogs", "hook", "flush",
        "cleanUp", "check", "over"}

\* One invariant for the shape of every variable.
TypeOK ==
  /\ conn \in [Conns -> ConnStates]
  /\ alive \in [Conns -> BOOLEAN]
  /\ queue \in [Conns -> Seq(Entries)]
  /\ ws \in Conns \cup {None}
  /\ status \in Statuses
  /\ started \in BOOLEAN /\ shouldCloseWorker \in BOOLEAN
  /\ logs \in {"absent", "open", "cleaning", "clean", "failed"}
  /\ pc \in [Tasks -> PCs]
  /\ outcome \in [Tasks -> Results \cup {None}]
  /\ hangReported \in BOOLEAN
  /\ process \in {"up", "exited", "crashed"}
  /\ unsent \subseteq Letters
  /\ heard \in [Conns -> Statuses \cup {None}]
  /\ told \subseteq Results
  /\ replaced \in BOOLEAN

Init ==
  /\ conn = [c \in Conns |-> "new"] /\ alive = [c \in Conns |-> TRUE]
  /\ queue = [c \in Conns |-> <<>>]
  /\ ws = None /\ status = "new"
  /\ started = FALSE /\ shouldCloseWorker = FALSE
  /\ logs = "absent"
  /\ pc = [t \in Tasks |-> "idle"] /\ outcome = [t \in Tasks |-> None]
  /\ hangReported = FALSE /\ process = "up"
  /\ unsent = Letters
  /\ heard = [c \in Conns |-> None] /\ told = {} /\ replaced = FALSE

-----------------------------------------------------------------------------
(* Sockets.                                                                *)

\* Fault: isConnected is not consulted.
ConnectAnyway(c) ==
  /\ conn[c] = "new"
  /\ conn' = [conn EXCEPT ![c] = "open"] /\ ws' = c
  /\ UNCHANGED <<alive, queue, status, started, shouldCloseWorker, logs, tasks,
                 hangReported, process, unsent, history>>

\* handleConnection: a second launcher is turned away.
Connect(c) ==
  /\ conn[c] = "new"
  /\ IF ws # None
       THEN conn' = [conn EXCEPT ![c] = "refused"] /\ UNCHANGED ws
       ELSE conn' = [conn EXCEPT ![c] = "open"] /\ ws' = c
  /\ UNCHANGED <<alive, queue, status, started, shouldCloseWorker, logs, tasks,
                 hangReported, process, unsent, history>>

LauncherSends(c, m) ==
  /\ conn[c] \in {"open", "closing"} /\ m \in unsent
  /\ queue' = [queue EXCEPT ![c] = Append(@, Receive(m))]
  /\ unsent' = unsent \ {m}
  /\ UNCHANGED <<sockets, service, logs, tasks, hangReported, process, history>>

\* The launcher is gone and nothing told the worker.
LauncherVanishes(c) ==
  /\ conn[c] = "open"
  /\ conn' = [conn EXCEPT ![c] = "dead"]
  /\ UNCHANGED <<alive, queue, service, logs, tasks, hangReported, process,
                 unsent, history>>

\* The close event: the handler takes its place behind what is queued.
CloseEvent(c) ==
  /\ conn' = [conn EXCEPT ![c] = "closed"]
  /\ queue' = [queue EXCEPT ![c] = Append(@, OnClose)]
  /\ UNCHANGED <<service, logs, tasks, hangReported, process, unsent, history>>

LauncherCloses(c) == conn[c] = "open" /\ CloseEvent(c) /\ UNCHANGED alive

\* The closing handshake ends, or ws gives up on it.
CloseCompletes(c) == conn[c] = "closing" /\ CloseEvent(c) /\ UNCHANGED alive

\* handleError empties the queue; ws then closes the socket.
SocketError(c) ==
  /\ conn[c] = "open"
  /\ conn' = [conn EXCEPT ![c] = "closing"]
  /\ queue' = [queue EXCEPT ![c] = <<>>]
  /\ UNCHANGED <<alive, service, logs, tasks, hangReported, process, unsent,
                 history>>

\* Fault: isWsAlive is not reset before the ping.
PingTickNeverDead(c) ==
  /\ conn[c] \in {"open", "dead"}
  /\ ~alive[c] /\ CloseEvent(c) /\ UNCHANGED alive

\* The 10 s ping interval: a socket that did not answer the last one is
\* terminated.
PingTick(c) ==
  /\ conn[c] \in {"open", "dead"}
  /\ \/ ~alive[c] /\ CloseEvent(c) /\ UNCHANGED alive
     \/ /\ alive[c] /\ alive' = [alive EXCEPT ![c] = FALSE]
        /\ UNCHANGED <<conn, queue, service, logs, tasks, hangReported,
                       process, unsent, history>>

Pong(c) ==
  /\ conn[c] = "open" /\ ~alive[c]
  /\ alive' = [alive EXCEPT ![c] = TRUE]
  /\ UNCHANGED <<conn, queue, service, logs, tasks, hangReported, process,
                 unsent, history>>

-----------------------------------------------------------------------------
(* State, and messages to the launcher.                                    *)

\* State.finish and State.buildStarted: unconditional assignments.
SetStatus(s) ==
  /\ status' = s
  /\ replaced' = (replaced \/ status \in Results)

\* this.ws.send, for a queue q without the entry being run.
Tell(q, s) ==
  queue' = IF ws = None THEN q ELSE [q EXCEPT ![ws] = Append(@, Send(s))]

-----------------------------------------------------------------------------
(* drainQueue: one entry of a socket's queue.                              *)

Rest(c) == [queue EXCEPT ![c] = Tail(@)]

\* Fault: startedProcessingBuild is not consulted.
StartBuildAgain(c, m) ==
  /\ queue' = Rest(c)
  /\ IF Kind[m] = "dispatch-other"
       THEN UNCHANGED <<started, status, replaced, pc>>
       ELSE /\ started' = TRUE /\ SetStatus("in-progress")
            /\ pc' = [pc EXCEPT !["build"] = "setUp"]
  /\ UNCHANGED <<ws, shouldCloseWorker, outcome, conn>>

\* BuildService.startBuild; startBuildInternal runs to its first await.
StartBuild(c, m) ==
  /\ queue' = Rest(c)
  /\ IF started \/ Kind[m] = "dispatch-other"
       THEN UNCHANGED <<started, status, replaced, pc>>
       ELSE /\ started' = TRUE /\ SetStatus("in-progress")
            /\ pc' = [pc EXCEPT !["build"] = "setUp"]
  /\ UNCHANGED <<ws, shouldCloseWorker, outcome, conn>>

\* BuildService.syncLauncherState: answers on the current socket.
SyncLauncherState(c, m) ==
  /\ IF Kind[m] = "query" THEN Tell(Rest(c), status) ELSE queue' = Rest(c)
  /\ UNCHANGED <<service, replaced, tasks, conn>>

\* BuildService.closeWorker
CloseWorker(c) ==
  /\ queue' = Rest(c)
  /\ conn' = [d \in Conns |-> IF d = ws /\ conn[d] \in {"open", "dead"}
                                THEN "closing" ELSE conn[d]]
  /\ ws' = None /\ shouldCloseWorker' = TRUE
  /\ UNCHANGED <<status, started, replaced, tasks>>

\* BuildService.finishAbort, up to maybeUploadXCodeLogs.
FinishAbort(c, m) ==
  /\ queue' = Rest(c)
  /\ pc' = IF status \in {"success", "error"} THEN pc
                                            ELSE [pc EXCEPT ![m] = "xcodeLogs"]
  /\ UNCHANGED <<service, replaced, outcome, conn>>

HandleMessage(c, m) ==
  \/ Kind[m] \in {"dispatch", "dispatch-other"} /\ StartBuild(c, m)
  \/ Kind[m] \in {"query", "query-other"} /\ SyncLauncherState(c, m)
  \/ Kind[m] = "close" /\ CloseWorker(c)
  \/ m \in Aborts /\ FinishAbort(c, m)

RunMessage(c) ==
  /\ Head(queue[c]).kind = "receive"
  /\ HandleMessage(c, Head(queue[c]).letter)
  /\ UNCHANGED <<alive, logs, hangReported, process, unsent, heard, told>>

\* A socket that is not open takes the data and drops it.
RunSend(c) ==
  LET s == Head(queue[c]).status
  IN  /\ Head(queue[c]).kind = "send"
      /\ queue' = Rest(c)
      /\ IF conn[c] = "open"
           THEN /\ heard' = [heard EXCEPT ![c] = s]
                /\ told' = told \cup ({s} \cap Results)
           ELSE UNCHANGED <<heard, told>>
      /\ UNCHANGED <<sockets, service, logs, tasks, hangReported, process,
                     unsent, replaced>>

\* Fault: only the socket still held by the service ends the process.
RunOnCloseIfHeld(c) ==
  /\ Head(queue[c]).kind = "onClose"
  /\ queue' = Rest(c)
  /\ IF shouldCloseWorker /\ ws = c
       THEN process' = "exited" /\ UNCHANGED ws
       ELSE ws' = None /\ UNCHANGED process
  /\ UNCHANGED <<sockets, status, started, shouldCloseWorker, logs, tasks,
                 hangReported, unsent, history>>

\* handleConnection's onClose, outside the test environment.
RunOnClose(c) ==
  /\ Head(queue[c]).kind = "onClose"
  /\ queue' = Rest(c)
  /\ IF shouldCloseWorker THEN process' = "exited" /\ UNCHANGED ws
                          ELSE ws' = None /\ UNCHANGED process
  /\ UNCHANGED <<sockets, status, started, shouldCloseWorker, logs, tasks,
                 hangReported, unsent, history>>

\* What the launcher sends is JSON: no entry throws, and handleError is left to
\* SocketError.
Drain(c) ==
  /\ queue[c] # <<>>
  /\ RunMessage(c) \/ RunSend(c) \/ RunOnClose(c)

-----------------------------------------------------------------------------
(* The tasks.                                                              *)

At(t, p) == pc[t] = p
GoTo(t, p) == pc' = [pc EXCEPT ![t] = p]

\* Fault: the result to report is not kept.
FinishForgetsOutcome(t, r, p) ==
  /\ SetStatus(r)
  /\ UNCHANGED outcome
  /\ GoTo(t, p)

\* finishSuccess, finishError and finishAbort record the result, then wait
\* for the 5 s sleep or the metrics.
Finish(t, r, p) ==
  /\ SetStatus(r)
  /\ outcome' = [outcome EXCEPT ![t] = r]
  /\ GoTo(t, p)

\* Fault: a failed build returns before it reports.
ReportUnlessError(t) ==
  /\ IF outcome[t] = "error" THEN UNCHANGED queue ELSE Tell(queue, outcome[t])
  /\ GoTo(t, "check") /\ UNCHANGED outcome

\* ... and at the end report it to whoever is connected by then.
Report(t) ==
  /\ Tell(queue, outcome[t])
  /\ GoTo(t, "check") /\ UNCHANGED outcome

\* createBuildLoggerWithSecretsFilter resolves, or throws.
LoggerReady ==
  /\ At("build", "setUp")
  /\ \/ /\ logs' = "open" /\ GoTo("build", "context")
        /\ UNCHANGED <<status, replaced, outcome>>
     \/ Finish("build", "error", "flush") /\ UNCHANGED logs
  /\ UNCHANGED <<sockets, queue, ws, started, shouldCloseWorker, hangReported,
                 process, unsent, heard, told>>

\* createBuildContext resolves, or throws.
ContextReady ==
  /\ At("build", "context")
  /\ \/ GoTo("build", "building") /\ UNCHANGED <<status, replaced, outcome>>
     \/ Finish("build", "error", "flush")
  /\ UNCHANGED <<sockets, queue, ws, started, shouldCloseWorker, logs,
                 hangReported, process, unsent, heard, told>>

\* build() returns or throws.
BuildEnds ==
  /\ At("build", "building")
  /\ \E r \in {"success", "error"} : Finish("build", r, "flush")
  /\ UNCHANGED <<sockets, queue, ws, started, shouldCloseWorker, logs,
                 hangReported, process, unsent, heard, told>>

\* finishAbort after the Xcode logs: no second look at the status.  The
\* ON_BUILD_CANCEL hook needs the build context.
Abort(a) ==
  /\ At(a, "xcodeLogs")
  /\ \/ Finish(a, "aborted", "flush")
     \/ /\ Kind[a] = "abort-cancel" /\ pc["build"] \notin {"idle", "setUp", "context"}
        /\ Finish(a, "aborted", "hook")
  /\ UNCHANGED <<sockets, queue, ws, started, shouldCloseWorker, logs,
                 hangReported, process, unsent, heard, told>>

\* A failing hook is only logged.
HookEnds(a) ==
  /\ At(a, "hook") /\ GoTo(a, "flush")
  /\ UNCHANGED <<sockets, queue, service, logs, outcome, hangReported, process,
                 unsent, history>>

\* Fault: the promise of logsCleanUp is not awaited.
CleanUpLogsUnawaited(t) ==
  /\ At(t, "flush")
  /\ logs' = IF logs = "open" THEN "cleaning" ELSE logs
  /\ Report(t)
  /\ UNCHANGED <<sockets, service, hangReported, process, unsent, history>>

\* logsCleanUp: the first call closes the sinks, a later one returns at once.
CleanUpLogs(t) ==
  /\ At(t, "flush")
  /\ IF logs = "open"
       THEN logs' = "cleaning" /\ GoTo(t, "cleanUp") /\ UNCHANGED <<queue, outcome>>
       ELSE Report(t) /\ UNCHANGED logs
  /\ UNCHANGED <<sockets, service, hangReported, process, unsent, history>>

LogsCleaned(t) ==
  /\ At(t, "cleanUp") /\ logs' = "clean" /\ Report(t)
  /\ UNCHANGED <<sockets, service, hangReported, process, unsent, history>>

\* logsCleanUp throws.  In finishSuccess the catch of startBuildInternal turns
\* the success into an error; elsewhere nobody handles the rejection.
LogsCleanUpThrows(t) ==
  /\ At(t, "cleanUp") /\ logs' = "failed"
  /\ IF outcome[t] = "success"
       THEN Finish(t, "error", "flush") /\ UNCHANGED process
       ELSE process' = "crashed" /\ UNCHANGED <<status, replaced, tasks>>
  /\ UNCHANGED <<sockets, queue, ws, started, shouldCloseWorker, hangReported,
                 unsent, heard, told>>

\* Fault: a worker whose socket is closed is not reported.
HangCheckIfConnected(t) ==
  /\ At(t, "check") /\ GoTo(t, "over")
  /\ hangReported' = (hangReported \/ (~shouldCloseWorker /\ ws # None))
  /\ UNCHANGED <<sockets, queue, service, logs, outcome, process, unsent,
                 history>>

\* checkForHangingWorker, five minutes after the report.  startBuildTime throws when
\* an ABORT came before any DISPATCH, and nobody handles the rejection.
HangCheck(t) ==
  /\ At(t, "check") /\ GoTo(t, "over")
  /\ hangReported' = (hangReported \/ (~shouldCloseWorker /\ started))
  /\ process' = IF shouldCloseWorker \/ started THEN process ELSE "crashed"
  /\ UNCHANGED <<sockets, queue, service, logs, outcome, unsent, history>>

TaskStep(t) ==
  \/ t = "build" /\ (LoggerReady \/ ContextReady \/ BuildEnds)
  \/ t \in Aborts /\ (Abort(t) \/ HookEnds(t))
  \/ CleanUpLogs(t) \/ LogsCleaned(t) \/ LogsCleanUpThrows(t) \/ HangCheck(t)

SocketStep(c) ==
  \/ Connect(c) \/ LauncherVanishes(c) \/ LauncherCloses(c)
  \/ CloseCompletes(c) \/ SocketError(c) \/ PingTick(c) \/ Pong(c)
  \/ \E m \in Letters : LauncherSends(c, m)

Next ==
  /\ process = "up"
  /\ \/ \E c \in Conns : SocketStep(c) \/ Drain(c)
     \/ \E t \in Tasks : TaskStep(t)

Spec == Init /\ [][Next]_vars

\* The event loop runs what is ready, timers fire, sockets that are being
\* closed get closed, and once it has ended its build, a task goes on.  No
\* fairness for the launchers, nor for the end of the build itself.
Running(t) == pc[t] \notin {"setUp", "context", "building"} /\ TaskStep(t)
Up(A) == process = "up" /\ A
Fairness ==
  /\ \A c \in Conns :
       /\ WF_vars(Up(Drain(c)))
       /\ WF_vars(Up(PingTick(c)))
       /\ WF_vars(Up(CloseCompletes(c)))
  /\ \A t \in Tasks : WF_vars(Up(Running(t)))
FairSpec == Spec /\ Fairness

-----------------------------------------------------------------------------
(* Properties.                                                             *)

\* As long as the worker was not told to close, the one socket it answers on
\* is every socket it accepted and has not seen closing, so that no launcher
\* it let in is left unheard: handleConnection refuses the others, and the
\* late onClose of an old socket must not clear a newer one.
OneLauncherServed ==
  ~shouldCloseWorker =>
    \A c \in Conns : conn[c] \in {"open", "dead"} => ws = c

\* Nothing is on its way any more: no task is between recording a result and
\* reporting it, and the connected launcher's queue is empty.
Settled(c) ==
  /\ process = "up" /\ ws = c /\ conn[c] = "open" /\ queue[c] = <<>>
  /\ \A t \in Tasks : pc[t] \notin {"flush", "cleanUp", "hook"}

\* A launcher that stays connected knows the state: what it last heard (an
\* answer to STATE_QUERY or a result) is the worker's status, whichever of the
\* query, the end of the build and a reconnection came first, unless an abort
\* replaced a result.
LastHeardIsStatus ==
  \A c \in Conns :
    Settled(c) /\ heard[c] \in {"in-progress"} \cup Results /\ ~replaced
      => heard[c] = status

\* Launchers hear one result of a build and not two, over any number of
\* sockets and repeated DISPATCHes, unless an ABORT was handled or the log
\* sinks failed to close.
ToldOnce ==
  /\ \A a \in Aborts : pc[a] = "idle"
  /\ logs # "failed"
  => Cardinality(told) <= 1

\* A build that was not aborted reports its result only when the log sinks are
\* closed (or never were opened, or failed): the launcher stops the machine on
\* that message, and the log would lose its end.
ToldAfterLogs ==
  /\ \A a \in Aborts : pc[a] = "idle"
  /\ pc["build"] \in {"check", "over"}
  => logs \in {"absent", "clean", "failed"}

\* The result of a build is told once, and not before its logs are complete.
OneResultTold == ToldOnce /\ ToldAfterLogs

\* A launcher that vanished without closing its socket does not keep the next
\* one out for ever: ping, terminate and onClose free the worker.
DeadSocketFreed ==
  \A c \in Conns : (ws = c /\ conn[c] = "dead") ~> (ws # c \/ process # "up")

\* A worker told to close does end its process, however its sockets fare.
ClosedWorkerExits == shouldCloseWorker ~> process # "up"

\* One told to close exits, and once the build has its
\* result the worker is closed by a launcher, or its hanging is reported.
FinishedWorkerReported ==
  outcome["build"] # None ~> shouldCloseWorker \/ hangReported \/ process # "up"

\* No worker stays up unseen, or is kept by a launcher that is no longer there.
WorkerGoesAway == ClosedWorkerExits /\ FinishedWorkerReported /\ DeadSocketFreed

\* service.ts:163, "Build has finished in the meantime before receiving ABORT
\* message": a build that has finished is not turned into an aborted one.
FinishedBuildNotAborted ==
  [][(status \in {"success", "error"}) => status' # "aborted"]_vars

=============================================================================
