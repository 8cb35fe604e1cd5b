# A TLA+ model of EAS builds

This directory specifies the parts of `eas-cli` where the order of events decides
what happens: the engine that runs the steps of a job, the worker that runs a
build and talks to a launcher over WebSockets, the two streams that publish its
log, the phases and hooks of a native build, the sessions on remote devices and
the events they collect, and, of the CLI, `eas build` and the rollouts of
updates. The modules are written from
the code under `src/packages`; paths below are relative to `src/packages` unless
they start with `src/`.

Every module is model-checked with TLC on small instances, and what matters
most is proved with TLAPS for every value of the constants.

    tlc -workers 2 -config MCWorkflow.cfg MCWorkflow.tla     # a run
    tlapm WorkflowProofs.tla                                 # a proof

`PROJECT.json` lists the runs with their properties, the source lines each
definition stands for (`map`), the mutations that show that a property can be
broken (`mutants`), the hazards the properties are for, the findings and the
theorems. In the modules, a definition introduced by `\* Fault:` is such a
mutation: the form a definition would have if the code had a plausible bug. It
is never part of a specification.

Contents: [the system](#the-system), [modules and code](#modules-and-code),
[runs](#runs), [findings](#findings), [fairness](#fairness),
[proofs](#proofs), [what is not modelled](#what-is-not-modelled),
[plan](#plan).

## The system

A user asks for a build with `eas build` (`eas-cli`). A server queues it and
starts a machine on which the `worker` runs; a *launcher* connects to the worker
over a WebSocket and dispatches the job. The worker creates the log streams and
a `BuildContext`, and runs one of the builders of `build-tools`: a native
Android or iOS builder (a fixed series of build phases with hooks) or a custom
one, which hands a list of steps to the executor in `steps`. When the build
ends, the worker closes its log streams and tells the launcher the result.

    eas-cli ──GraphQL──> server ──> launcher ══WebSocket══> worker: BuildService
                                                              │ build(), finishAbort()
                                         ┌────────────────────┼──────────────────┐
                                         v                    v                  v
                                   BuildContext         RemoteLoggerStream   HttpLogStream
                                   native builders        (file + upload)     (POST batches)
                                   custom builder ──> BuildWorkflow (steps)

| component | state it keeps | operations | interacts with | what is hard | what makes it correct |
|---|---|---|---|---|---|
| job executor (`steps/src/BuildWorkflow.ts`, composite scopes, hook metrics) | place in the job, status and result of each step, failure flags at three levels (entry, side, job), memo of each call's gate | `executeAsync`, `executeHookStepsAsync`, `shouldExecuteStep`, `isActive` | called by the custom builder and by hook sides of native builds | a condition may throw instead of answering; a failure is recorded at several levels, which gates later read | the job rejects exactly when something failed, with the first error; hooks run around an anchor that runs and only then; a call's gate holds for the whole call; no step is left undecided |
| worker service (`worker/src/service.ts`, `ws.ts`, `utils/WebSocketServer.ts`) | `State.status`, the one socket, a queue per socket, the tasks suspended at awaits | connections, messages, ping, `startBuildInternal`, `finishAbort`, the finish functions, hanging check | launchers, build, log sinks | messages handled between two awaits of a build; sockets that vanish; late `close` events | one launcher at a time; a connected launcher knows the state; one build, one result; a closed worker exits |
| remote log (`RemoteLoggerStream.ts`) | buffer, batch being written, file, upload under way, timer | `write`, `init`, `flush`, `cleanUp` | bunyan, file system, signed URL upload | flushes that overlap writes, uploads and the final clean-up | no line is lost or repeated; the final object is complete |
| log entries over HTTP (`HttpLogStream.ts`) | buffer, batch in flight, attempts | `write`, the flush loop, `cleanUp` | log server | a request that times out may have been received; a failed batch goes back while more is written | nothing is lost silently; order is kept; `cleanUp` ends |
| build phases (`build-tools/src/context.ts`) | the open phase and its marks, `env`, a directory of stored variables | `runBuildPhase`, markers, marks, collection of variables | builders, worker's on-cancel hook, scripts (`set-env`) | there is one field for the open phase, and two callers | markers are bracketed, no phase stays open, a phase ends with its own result, a variable stored in a phase is there in the next |
| native builders and job hooks (`builders/*.ts`, `common/hookableBuildPhase.ts`, `utils/hooks`) | place in the build, error in flight, `env` and the hook context's `env`, metric uploads | phases, hook entries, finally blocks, package.json hooks | build phases, steps | which error wins, what still runs after it, which `env` it sees | first error reported, credentials cleaned up, hooks told the outcome, `env` complete |
| event collection (`steps/utils/deviceRunSessionEvents.ts`) | offset, rest of a line and next number of each file, the pass under way | passes of the poller with one reader per file, `stopAsync` | the tool that writes the files, the two log streams | files grow and are emptied between two awaits; a failing reader leaves the others at work | an event has one ID; records come once and in order; none that was complete is left out at the end |
| device sessions (`steps/functions/start*RemoteSession.ts`, `steps/utils/remoteDeviceRunSession.ts`, `argentArtifacts.ts`, `agentDeviceArtifacts.ts`) | what was started, the reason to stop, files under upload, the step's time limit | start-up, the wait, the `finally`, both pollers | producers, API, tunnels, `BuildStep` | many things can end a session at any moment, also half-way up; the poller is a second task; a step that timed out goes on | nothing started stays; no session is ended over activity that its collector observed; what was offered is uploaded; an ended session goes away |
| `eas build` (`eas-cli/src/build`, `submit/utils/wait.ts`) | place in the command, version of each build, answers of a round | versions, requests, submissions, waiting | API, other commands on the project | responses are lost and requests repeated; a part of the command fails when others are done | no version given twice, no build made twice; the exit code tells the outcome; the wait ends |
| rollouts and channels (`eas-cli/src/rollout`, `channel/edit.ts`) | the mapping read, the mapping to write, the group to republish | create, edit, end, point | API, publishers, other operators | read, ask, write, with no version of the mapping on the server | a true reading does what its operator saw and nothing else; the chosen group is served at the end |

The other components (simulators, step functions, credentials, the rest of the
CLI) are listed in `PROJECT.json` and under
[what is not modelled](#what-is-not-modelled).

The hazards that made us choose these ten are in `PROJECT.json` too, each at its
line with the properties that would show it going wrong. Most are of two kinds:
state that is checked before an `await` and used after it (the abort that
outlives the build, the upload that outlives a flush, the phase that is closed
by another caller), and one failure among several steps, where what was done
before and what is skipped after it must fit together.

## Modules and code

JavaScript runs one callback at a time. Where several tasks interleave
(`Worker`, `RemoteLogger`, `HttpLog`, `BuildPhases`, `EventCollection`,
`DeviceSession`), an action is what the code does between two awaits, so an
interleaving of actions is one that the event loop can produce. In `Rollout` and
`BuildCommand` the tasks are processes of their own, and an action runs from one
request or question to the next. `Workflow` and `NativeBuild` are single tasks; there an action
is one step of the loop or one phase, and what is chosen is what succeeds.

Histories (`failures`, `heard`, `told`, `accepted`, `stored`, `raised`, ...) are
marked as such where the variables are declared; no guard reads them.

### Workflow: the job executor

A job is given by constants: the occurrences in `buildSteps` and what anchors
them, the hooks of each occurrence with their entries and steps, the composite
calls around each step, the output nodes of calls. The conditions (`if:`) are
chosen in `Init` out of the kinds each place may have: none, `always()`,
`success()`, `failure()`, or an expression, which may answer or throw.

| in the module | in the code |
|---|---|
| `EnterOccurrence`, `SkipOccurrence`, `RunAnchor`, `Finish` | the loop of `executeAsync` (`BuildWorkflow.ts`) |
| `EnterEntry`, `SkipEntry`, `RunHookStep`, `SkipHookStep`, `EndBefore`, `EndAfter` | `executeHookStepsAsync` and what its caller does with the outcome |
| `ShouldExecute`, `IsActive`, `Memoized`, `OwnGate` | `BuildStep.shouldExecuteStep`, `BuildStepCompositeFunctionScope.isActive` |
| `RecordJobFailure`, `RecordSideFailure`, `ScopedFailure` | the two closures `recordFailure`, the failure a default condition looks at |
| `ReportSide` | the hook metric of a side |

`Execute` has the three ways in which a step ends: it returns, it throws having
failed, or it throws although it succeeded because its outputs could not be
collected. What a step does is left out; its time limit is in `DeviceSession`.

### Worker: build service and launchers

A socket is `new`, `open`, `dead` (the launcher vanished, no event came),
`closing`, `closed`, or `refused` by a worker that has another one. What a
launcher sends is put in the queue of its socket, behind what is on its way
before it; the service's answers and the handler of the close event go through
the same queue, as `WebSocketBase` does it. `Drain` runs one entry.

| in the module | in the code |
|---|---|
| `Connect`, `CloseEvent`, `PingTick`, `Pong`, `SocketError`, `CloseCompletes` | `worker/src/ws.ts`, `worker/src/utils/WebSocketServer.ts` |
| `Drain`, `RunMessage`, `RunSend`, `RunOnClose` | the promise queue of `WebSocketBase` |
| `StartBuild`, `SyncLauncherState`, `CloseWorker`, `FinishAbort` | the handlers of DISPATCH, STATE_QUERY, CLOSE and ABORT |
| `LoggerReady`, `ContextReady`, `BuildEnds` | `startBuildInternal` up to its awaits |
| `Abort`, `HookEnds` | `finishAbort` after the upload of the Xcode logs, and after the on-cancel hook |
| `CleanUpLogs`, `LogsCleaned`, `LogsCleanUpThrows`, `Finish`, `Report` | the finish functions, `logsCleanUp`, the message to the launcher |
| `HangCheck` | `checkForHangingWorker` after its timer, `reportHangingWorker` |

`LauncherSends`, `LauncherVanishes` and `LauncherCloses` are the environment.
A message written to a socket that is no longer open is lost, and a socket
error loses whatever was queued.

What a launcher sends is JSON, so that no entry of the queue throws: the `catch` of
`drainQueue` is left out, and `handleError` is `SocketError`. `HangCheck` ends the
process when the build was never dispatched: the report reads `startBuildTime`,
which throws, and nobody handles the rejection.

Left out: artifact names and error details, the check of the host name, the part
of `HttpLogStream` in `logsCleanUp` (it has a module of its own). `build()` is
one step that succeeds or fails. The flush of metrics and the five seconds' wait
behind it are one gap between two actions.

### PublishedLog and RemoteLogger: the log file

`PublishedLog` says what the stream promises: the lines taken are stored in
order, and what is published is a prefix of them that never gets shorter, but
while publications are unordered (`Reorder`). `RemoteLogger` implements it
(`PublishesLog`, with `stored <- file`, `published <- remote` and
`unordered <- overlapped`).

| in the module | in the code (`RemoteLoggerStream.ts`) |
|---|---|
| `Write`, `WriteEnds`, `Resume`, `KeepRest` | `write`, `safeWriteToFile` with `writePromise` |
| `Open`, `Tick` | `init` and the interval it sets |
| `Flush`, `FlushAgain`, `StartUpload`, `Stat`, `Put`, `Settle` | `flush`, `flushInternal` with `uploadingPromise`, `upload` with its stat of the file |
| `CleanUp`, `Drain`, `Closed` | `cleanUp` |

Each tick of the interval is a flush of its own (`Ticks`), the clean-up's flush
is one more. A failed write writes nothing, and there are no short writes.
Compression is left out. The retries inside an upload are part of the time it
takes, which with two of them, 30 s apart (`uploadWithSignedUrl.ts`), is several
intervals of 10 s (`worker/src/config.ts`): any number of ticks may wait for one
upload. `overlapped` says that a flush found no upload under way although another
had looked before it and not started its own (`Unnoticed`), so that both upload; it
ends when one starts that is alone. Lines and `cleanUp` come after `init` has returned, as the worker
does it. A rejection of `cleanUp` is the state `thrown`. A file
write may outlast the upload interval as well.

### HttpLog: log entries by POST

| in the module | in the code (`HttpLogStream.ts`) |
|---|---|
| `Write`, `StartBatch`, `Flush` | `_write`, `flush`, `takeBatch` |
| `Trims`, `Expire` | `trimExpiredBufferedLogs`; `Expire` is time going by |
| `RequestSucceeds`, `AttemptFails`, `GiveBack`, `Settle` | `sendBatch` with its attempts, the batch put back in front of the buffer |
| `RunLoop`, `RunCleaner`, `CleanUp` | `cleanUp`, and what it and the flush loop do once the request they wait for has settled |

When a request settles, the functions chained to it run in the order they were
chained, and no other callback between them: that is `resumed` and the guard
`Quiet`. A batch may have any size, for sizes of entries are not modelled. A
request that timed out was received or not; it is not received later. A second
`cleanUp` may resolve before the last request of the first one does.

### BuildPhases: one phase at a time, two callers

A runner is a caller of `runBuildPhase`. The builder runs a plan of phases;
`finishAbort` of the worker runs the on-cancel hook as a phase, at any point.

| in the module | in the code (`build-tools/src/context.ts`) |
|---|---|
| `Enter`, `Leave`, `SetBuildPhase`, `EndPhase` | `runBuildPhase`, `setBuildPhase`, `endCurrentBuildPhaseAsync` |
| `MarkSkipped`, `MarkHasWarnings` | `markBuildPhaseSkipped`, `markBuildPhaseHasWarnings` |
| `SetEnv` | a script's `set-env`, which writes a file in `buildEnvsDirectory` |
| `BodyReturns`, `BodyThrows`, `HandleError` | the body's end, `handleBuildPhaseErrorAsync` |
| `List`, `ReadFile`, `FileGone`, `StartRemoving`, `RemoveFile`, `Merge`, `Finish` | `collectAndUpdateEnvVariablesAsync`, one action for each read and removal of a file, and the end of the phase |

Values are numbered in the order in which they are stored, so that "this value
or a later one" can be said. `SPIN_UP_BUILDER` is in `Unmarked`, as
`worker/src/build.ts:42-44` passes `doNotMarkStart` for it; `doNotMarkEnd` is
used by no caller. The markers that the worker's `logBuildError`
(`build.ts:98-127`) logs for `FAIL_BUILD` do not go through `runBuildPhase` and
are left out. `set-env` is atomic. When the phase was closed by the other
runner, reading it for the phase metric (`context.ts:358`) throws a TypeError:
`Finish` has that as `Thrown`.

### NativeBuild: phases, hooks and finally blocks

The builder is a series of stretches (`setup`, job hooks and install phase,
`rest`, `guarded`, `tail`) of phases given by `PhasesOf`. `guarded` is what the
iOS builder runs in the `try` whose `finally` cleans up credentials.

| in the module | in the code |
|---|---|
| `RunPhase`, `EndStage`, `SkipNativeBuild`, `CleanUpCredentials` | `builders/android.ts`, `builders/ios.ts`, `common/setup.ts` |
| `ParseHooks` | `parseJobHooksAsync` |
| `BeginSide`, `RunEntry`, `EndSide`, `SkipSide`, `Install` | `runHookableBuildPhaseAsync`, `runHookEntriesAsync` |
| `DrainMetrics` | the `finally` of the builders' `buildAsync` |
| `OnSuccess`, `OnError`, `OnComplete`, `Upload` | `builders/common.ts`, `runBuilderWithHooksAsync` |

A variable is known by the place that stored it, so `env` is a set of places. A
phase is one action; what happens inside it is `BuildPhases`. Not listed are the
phases that only some projects have and the resigning of an iOS archive. The
upload phase never throws, for its body catches everything. The bare
`readPackageJson` between two phases of the set-up counts as part of them.

### EventCollection: the events of a session

A record is two cells of its file, the second of which ends the line, so that a
reader can see half of one, and the middle of a file that was emptied and has
grown again. Every await of a reader is a place in its `reader[pass][file]`.

| in the module | in the code (`deviceRunSessionEvents.ts`) |
|---|---|
| `Find`, `FindFails`, `PassOver`, `Settle`, `Wake` | `collectAsync` under `Promise.all`, `collectSafelyAsync`, the loop of `pollingPromise` |
| `Stat`, `Sized`, `Reset`, `Missing`, `Open`, `Read`, `Closed`, `Return`, `Fails` | `collectEventFileAsync`, await by await |
| `Events`, `LineOf`, `Rest` | the split into lines, the decoder's rest, the numbering |
| `StopAsync`, `Close` | `stopAsync` and its own last pass |

`Produce` and `Truncate` are the tool. The streams the events go to are modules
of their own; here they are the set `out`. Set-up and reports to Sentry are left
out.

### DeviceSession: a session and its artifacts

The four functions differ in what they start, before their `try` (`Unguarded`)
and in it (`Guarded`), and in what their `finally` stops, in which order
(`Finally`); what they share is written once.

| in the module | in the code |
|---|---|
| `Collect` | a pass of the collector in `deviceRunSessionEvents.ts`, as far as `getLastEventObservedAt` tells of it |
| `StartupGoesOn`, `StartupFails`, `HeldAfterFailure`, `EnterFinally`, `Stop`, `AwaitPoll` | the four `start...RemoteSession.ts`, Appium's `stopAsync` in `appiumEvents.ts` |
| `BeginWait`, `LoopTop`, `QueryAnswered`, `QueryFails`, `SleepEnds`, `EnsureStopped`, `Overdue`, `IdledOut` | `waitForDeviceRunSessionStoppedAsync`, `ensureDeviceRunSessionStoppedAsync` |
| `ListArgent`, `PollerWakes`, `DrainArgent`, `UploadEnds`, `UploadsTimeOut` | `argentArtifacts.ts`: uploads run beside the loop, a last listing, a limited wait |
| `ListAgentDevice`, `UploadNext` | `agentDeviceArtifacts.ts`: one upload after the other, a failed one again |
| `TimeOut` | the time limit in `BuildStep.executeAsync`: the step is over, the function gets a signal and goes on |

Time is counted in polls of the session's status: `age` in those since the last
observation (or the first look), `quiet` in those since the last event, `IdleLimit`
is the limit. The collector is a poller of its own: `Collect` observes some of the
events that are `unseen`, at any time or never, and the wait looks only at when it
last did. `ServerEnds`, `Offer` and `Act` are the environment. Appium's two
directories, that of its server and that of its events, may fail to be removed, in
its `finally` and in the `catch` before it. The end of the machine is not an action of its own: it cuts a behaviour short. What the
tunnels, previews and producers do, and recordings, are left out; a thing that
was started is in `held` until it is stopped.

### BuildCommand: eas build

| in the module | in the code |
|---|---|
| `ReadVersion`, `Keeps`, `Initializes`, `AtLimit`, `WriteVersion`, `WriteLost` | `build/android/version.ts`, `build/ios/version.ts`, `project/android/versions.ts`; the repetition by `retryExchange` in `createGraphqlClient.ts` |
| `SendBuild`, `SendLost`, `Submit`, `SubmitLost`, `Throw` | `prepareAndStartBuildAsync`, `sendBuildRequestAsync`, `prepareAndStartAutoSubmissionAsync` |
| `AfterBuildStarted`, `AfterSubmissionStarted`, `Wait`, `End` | the two loops of `runBuildAndSubmitAsync` and its exits |
| `Answer`, `QueryFails`, `Round`, `BuildsSettled`, `JudgeBuilds`, `JudgeSubmissions`, `ExitIfSome` | `waitForBuildEndAsync`, `getBuildsSafelyAsync`, `submit/utils/wait.ts` |

Versions are numbers, with the limit of Android; a version is one number of the
app on one platform. A build that is `canceled` may still be at work
(PENDING_CANCEL), which the command does not tell apart. Whatever happens between
two requests (prompts, credentials, the project's upload) is a step that may
throw (`Throw`); that it may create the profile's channel on the server
(`runBuildAndSubmit.ts:471-480`) is left out, as nothing else here reads it, and so
are throws between the wait and the exit code (lines 339, 351-359). A submission
that was requested twice counts as one. Left out: local builds, `--json`, running the
build on a simulator.

### Rollout: one channel, several operators

| in the module | in the code |
|---|---|
| `IsStandard`, `IsRollout`, `CreateMapping`, `EditMapping`, `Standard` | `eas-cli/src/rollout/branch-mapping.ts`, `channel/branch-mapping.ts` |
| `Begin`, `ViewCreate`, `AskCreate`, `ViewEdit`, `AskEdit`, `ViewEnd`, `AskEnd`, `Republish`, `Write`, `GiveUp` | `rollout/actions/{CreateRollout,EditRollout,EndRollout,NonInteractiveRollout}.ts` and the mutations they send |
| `AskPoint` | `eas channel:edit` |
| `FromCache` | the `cacheExchange` of `createGraphqlClient.ts`: the second reading of a rollout with no runtime is the query that found it, unless it came from a list, and may be answered without the server |

An update group is known by its content, a device by its runtime and by the hash
that the percentage is compared with. The update server (`Gets`), the storing of
a group (`Put`) and `eas update` (`Publish`) are the environment.

## Runs

Each run asks one question. Every action of the modules fires in some run, and
every property of a run is violated by a mutation of a mapped definition; one
with several named parts by a mutation for each.

| run | shows | instance, and why it is enough |
|---|---|---|
| `workflow` | `RejectsWithFirstError`: `executeAsync` rejects exactly when something failed, with the earliest error. `HooksFollowAnchor`: hooks run around an anchor that runs, only then, and by default always then; the metrics say what their side and their anchor did. `DecidedOnce`: each step is decided, once, and a call's gate holds for all of its steps | an anchor with two before-entries (one failing, one after it) and two after-entries, one of them a call `H` with a nested call `K` and declared outputs; a call `S` in the main list; every mix of conditions and ends. Each level of failure has one place before and one after it where it may be read; a third entry would repeat the second |
| `worker` | `OneLauncherServed`; `LastHeardIsStatus`; `OneResultTold`: one result, and not before the logs are closed | two sockets (the launcher and the one that replaces it, or tries to), two DISPATCHes, a STATE_QUERY, one cancellation. A socket is used once, so a third one would repeat the second after the first is gone. Sockets and DISPATCHes are symmetric |
| `worker_live` | `WorkerGoesAway`: a dead socket is freed, a worker told to close exits, a finished one is closed or reported | two sockets, a DISPATCH, one of another build, a CLOSE, each of which may never come; no symmetry, as these are liveness properties |
| `worker_abort` | the finding on aborts | as `worker`, without symmetry |
| `remote_log` | `NothingLostOrRepeated`; the refinement `PublishesLog`; `StreamProgresses`: `cleanUp` ends, the final object is complete, what is on file gets uploaded | three lines and three ticks: a batch under way, one line behind it in the buffer and one that comes during the clean-up; one tick uploads while two wait for it, which then go on together |
| `http_log` | `Accounted`; `ReceivedInOrder`; `StreamProgresses`: `cleanUp` ends with nothing pending, an entry gets sent without another one | four entries (a batch of two in flight, two more), two calls of `cleanUp`, two retries, expiry. The order of requests is the same for longer batches |
| `build_phases` | `LogWellFormed`: whatever the on-cancel hook interrupts, the log is a series of phases that are each started and ended. `PhasesHandOver`: until the hook begins, a phase ends with its own result and the next one has its variables | a builder of three phases, of which one may be marked, so that a variable may be stored in one, kept by the next and read in the third, and the hook; one variable name, as names do not interact; two values, to tell a stale one |
| `native_build` | `EnvComplete`, `ReportsFirstError`; `CleanUpRuns`: credentials, metrics, after-hooks, the outcome that the last hook is told | both platforms, jobs with and without hooks, two entries on each side, one or two phases in each stretch, each of which may fail. Phases of a stretch are alike to these properties |
| `events` | `EventsOnce`, `CompleteWhenStopped`; `CollectionGoesOn`: records are collected until `stopAsync`, which ends | two files, the second to fail beside the first; two records, one emptying, one failing call, two passes with readers at work. A third pass meets what the second one did |
| `session` | `NothingLeftRunning`; `ArtifactsDrained`, with the survival of the worker; `IdleOnlyWhenQuiet`; `SessionEnds` | all four functions, two files (one under upload, one behind it), an idle limit of two polls, so that activity may fall before, between and after them |
| `build_command` | `VersionsDistinct`, `ExitTellsOutcome`, `WaitEnds` | a command that waits for both platforms, with and without submissions; one beside another that starts a build of the same app, or of the other platform; a request sent twice at most; projects with no version, the first one, one set before, and Android's limit two builds away |
| `rollout` | `TrueReadingsKept`: no rollout is lost or revived, nor a device outside it touched, by a command with a true reading. `EndServesChosen` | two operators, two branches, two runtimes, two percentages and a wrong one, two updates published meanwhile. Operators, branches and runtimes are symmetric |

Bounds: `MaxLines`, `Ticks` (lines and ticks of the interval), `MaxEntries`,
`Retries`, `Cleaners`, `MaxWrites` (calls of `set-env`), `Letters` and `Conns`
(what launchers send, and over how many sockets), `Records`, `MaxTruncations`,
`MaxFailures`, `Slots` (of events: what the tool writes, how often it empties a
file, failing calls, passes with readers at work), `MaxArtifacts`, `IdleLimit`,
`Operators`, `Percents`, `MaxUpdates` (updates published beside the commands),
`MaxVersionCode`, `MaxAttempts`. `Retries`, `IdleLimit`, `MaxVersionCode` and
`MaxAttempts` stand for constants or inputs of the code; the others bound the
environment, never the program.

Deadlock is checked where the model says that the program is at its end
(`Workflow`, `BuildPhases`, `NativeBuild`). The others turn it off. `Worker`,
`RemoteLogger` and `HttpLog`: with everything sent, their environment has nothing
to do. `EventCollection` and `DeviceSession` end with `stopAsync` and with the
session, `BuildCommand` with its commands. `Rollout`: a channel pointed to a
mapping that is no rollout, with nothing more to publish, admits no command.

## Findings

One place where the code does something else than its comment says has a run of
its own; `PROJECT.json` quotes it: *an abort overwrites the result of a finished
build* (`worker_abort`). `finishAbort` checks that the build has not finished,
then awaits the upload of Xcode logs, then sets ABORTED without a second look.

The properties promise nothing in the following cases. Each of them is in a
model, and a condition of the property, named here, leaves it out.

- *A call's gate that throws is asked again* (`Workflow`, `GateThrew`).
  `BuildStepCompositeFunctionScope.ts:80` memoizes an answer but not a throw, so
  the next step of the call asks once more, when the recorded failure may
  already have changed the answer. Line 72 says the `if:` gates the call as a
  whole.
- *An abort is reported while the logs are still being closed* (`Worker`,
  `ToldAfterLogs`). `RemoteLoggerStream.cleanUp` returns at once to its second
  caller (`service.ts:201`). An abort before DISPATCH is reported, and the build
  started all the same (`service.ts:108`).
- *An older upload replaces a newer one, the final log even* (`RemoteLogger`,
  `overlapped`). `flush` tests for an upload under way once
  (`RemoteLoggerStream.ts:126`), and two ticks that wait for the same upload both
  go on; so do a tick and another that still writes to the file. The clean-up waits
  for one of them only. As a retry outlasts several intervals, one failed attempt
  is enough. `InFinalLog`, `GetsUploaded` and the order in which `PublishedLog`
  publishes are promised of uploads that do not overlap.
- *The on-cancel hook takes the builder's phase with it* (`BuildPhases`, `Alone`).
  There is one field for the open phase (`context.ts:351`); the hook's phase takes
  it over and unsets it, and the builder's phase then ends without collecting its
  variables, which `context.ts:168` says "will be available in the next build
  phase".
- *Readers of one file overlap* (`EventCollection`, `overlapped`). When a reader
  fails, the pass is over while the others are at work, and the next pass reads
  the same bytes again (`deviceRunSessionEvents.ts:195`): records are written
  twice, with new IDs. *A truncation goes unnoticed* (`behind`) if the file has
  outgrown the last offset by the next look (line 398).
- *What starts before the `try` of a session is not stopped* when a later part of
  it fails, except by Appium's own catch; agent-device's poller is never stopped
  (`startAgentDeviceRemoteSession.ts:137`); if the
  directory of Appium's events is not removed, the rest of the `finally` is skipped,
  its server included (`DeviceSession`, `NothingLeftRunning`).
- *The wait for slow uploads may reject before anybody awaits it*, once the step
  has timed out, for the signal then reaches the poller before the `finally` does
  (`WorkerSurvives`). A failed upload of Argent is not tried again; one of
  agent-device is, but without a last listing at the end.
- *A session that was just used is stopped for lack of activity*
  (`IdleOnlyWhenQuiet`, `unseen`). The wait polls every five seconds and reads only
  `getLastEventObservedAt` (`remoteDeviceRunSession.ts:195`). The collector looks once
  a second (`deviceRunSessionEvents.ts:254`), and for Appium's events first asks the
  server about each session, for ten seconds at most (`appiumEvents.ts:89`). An event
  that came since its last pass does not count, and none does while its passes fail:
  a collector that fails throughout is taken for a quiet session.
- *Two commands that read the same version build it twice* (`BuildCommand`,
  `raced`): the server takes every write. A version write that the client repeats
  may land after another command's.
- *A failed query ends the wait for submissions*, as `submit/utils/wait.ts:33`
  returns a promise from a `try` without awaiting it; and the mutations of
  submissions, unlike those of builds, may be repeated.
- *Writes overtake each other* (`Rollout`, `seen[o] = mapping`): a rollout that was
  ended meanwhile is revived by an edit made from an older reading.

## Fairness

Safety runs have none. The liveness properties assume what the event loop and
timers give, and nothing of launchers, scripts or servers beyond that:

- `Worker`: a queue that is not empty is drained, the ping interval fires, a
  closing socket gets closed (`ws` gives up on the handshake after a timeout), and
  a task goes on once the build itself has ended. A build that hangs may hang
  for ever, and a launcher need not send anything.
- `RemoteLogger`: file operations and uploads end, well or badly, and the interval
  ticks. Nothing makes a line come or `cleanUp` be called.
- `HttpLog`: a request ends (it has a timeout) and what is chained to it runs.
  `EntriesSent` alone assumes more, as a premise in the property itself: that the
  server does not refuse for ever (`SF_vars(RequestSucceeds)`). `CleanUpEnds` holds
  without it.
- `EventCollection`: timers expire and calls return (`Find`, `Settle`, `Wake`,
  `Close`, the steps of a reader). Nobody has to write, or to call `stopAsync`.
- `DeviceSession`: every await of the function and of the poller ends. Nobody has
  to use the session or to stop it, and no limit has to be given. As a query that
  fails is as good as any, `SessionEnds` has the premise that they do not fail for
  ever (`SF_vars(QueryAnswered)`).
- `BuildCommand`: a command goes on, and builds and submissions come to an end.
  `WaitEnds` leaves out behaviours in which queries fail for ever.

## Proofs

The `...Proofs` modules hold the theorems, each for every value of the constants.
`CliProofs` is about `Rollout` and `BuildCommand`, `DeviceRunProofs` about
`EventCollection` and `DeviceSession`, the others about the module they are named
for. The assumptions are the `ASSUME` in each module, which TLC evaluates in every
run: types of the constants, that the model values for "none" are not among the
rest, and two that say where names may occur. `PlaceAssumption` of `Workflow`: a
step or an entry has one place in the job, as parsing constructs an object for
each. `PlaceAssumption` of `NativeBuild`: a phase belongs to one stretch of the
builder, and has not the name of one of its other parts.

| theorem | for every | argument |
|---|---|---|
| `WorkflowProofs!TypeCorrect`, `RejectsCorrectly` | job: any occurrences, hooks, entries, steps and calls | `IInv == Typed /\ ErrorHeld`. `Typed` bounds the two loops, so that `Anchor[occ]` and `Entry` are defined. `RejectsWithFirstError` is not inductive: a failure inside a side is recorded in the side first, and reaches the job when the side ends. `ErrorHeld` says where the first error is held at each place of the loop, and that the flags agree with it |
| `WorkflowProofs!HooksFollow`, `DecidesOnce` | the same | `HooksFollowAnchor` is about steps of occurrences that the loop left long ago. `Placed` says which steps are ahead of the loops and hence undecided; `Locals`, that the flags of the side that is on agree with the results of its steps; `PlainRun` and `Bracketed`, what has run so far; `Measured`, that each metric is that of a side that is over. For a call's gate, `CInv`: the call of a step that ran answers true for good, and an `always()` step of it that was passed over has run or its gate threw |
| `WorkflowProofs!LoopsEnd` | the same | the loops of the executor end. `PhaseRank` orders the places of an occurrence; `GoesOn` says that a step leads to a later occurrence, a later place of it, a later entry or a later step. `InBounds` keeps occurrence and entry within the job's lists (`IInv` the step) |
| `WorkerProofs!TypeCorrect`, `ServesOneLauncher` | number of sockets and letters, of any kinds | the late handler of a close event clears the worker's socket, whichever it is. `Held` says that as long as a socket is open or its handler still queued, the worker holds that one; `CloseOnce`, that there is one such handler, of a closed socket; `OutcomeKnown` types what a task reports |
| `WorkerProofs!TellsOneResult`, `KnowsTheState` | the same | `BuildAlone` follows the one build that was dispatched: no result is set, queued or told before the logs are closed, and all that are queued are its outcome. `Knows` says of the connected launcher what its queue will still tell it: the status is the last thing it heard, or is on its way behind it |
| `RemoteLoggerProofs!TypeCorrect`, `LosesNothing` | number of lines and of overlapping flushes, any failures | when a write ends, as many lines are cut off the buffer as were in the batch. `BatchInFront` says that these are still the same lines, although others were appended meanwhile, and one batch at a time is written |
| `RemoteLoggerProofs!PublishesTheLog` | number of lines and of overlapping flushes, any failures | every step of the stream is one of `PublishedLog` or leaves its variables alone. `BatchInFront` makes a stored batch the next lines taken. For the object, unless uploads have overlapped, `Exclusive`: until the file is closed one flush is at work and the others wait for its upload; `LastOnes`: uploads beside each other after that are of the whole file, which changes no more; `Grows`: what is to be put is at least what is there |
| `RemoteLoggerProofs!FinalLogIsComplete` | the same | `FinalInv` follows `cleanUp`: what it found accepted is in its own batch, then on file, then in the object. Its upload is of the whole file, and so is any other still under way by then, unless some overlapped before the file was closed, so that none of them can cut the object short again |
| `HttpLogProofs!TypeCorrect`, `NothingMissing`, `InOrder` | number of entries, retries and calls of `cleanUp` | `Queue` puts the batch before the buffer, both ascending; `AllThere` accounts for every entry; `Causes` says why entries are given up or dropped. For the order, `Fresh`: an entry that waits was received already (its request timed out) or comes after all that were |
| `BuildPhasesProofs!TypeCorrect`, `LogIsWellFormed`, `PhasesHandOverCleanly` | number of runners, plans, names | `Open`: the last marker is a START exactly when the open phase is one that is marked. Then a start closes what is open, and an end finds its start. `SomeoneEnds`: while a phase is open, a runner is at work that will end it, so that none is open when all are through. For the hand-over, `OwnInv`: as long as one runner only has begun, the open phase and its marks are its own, and the newest value it stored of a name is in its file, read from it, or in `env` |
| `NativeBuildProofs!TypeCorrect`, `EnvAlwaysComplete`, `ReportsRightError`, `CleanUpAlwaysRuns` | phases of each stretch, hook entries, platforms | `EnvFlow` adds to `EnvComplete` that the hook context holds all of the build context's variables while hooks run, so that writing it back loses none. `ErrorFlow` says at each place whether there was an error yet, which of `sideErr` and `phaseErr` holds the first one, and that `err` is the one to report from the finally blocks on. `MetricFlow`, `HookFlow` and `OutcomeFlow` say at each place which uploads are still out, whether the after-hooks are due or done, and what the on-complete hook was told |
| `NativeBuildProofs!BuildEnds` | the same | `PlaceRank` orders the places of the builder, finally blocks and package.json hooks included; a step of `BuildGoesOn` raises it, or goes on in a list of phases or entries that is not at its end |
| `CliProofs!TypeCorrect`, `ReadingsKept`, `EndsServeChosen` | number of operators, branches, runtimes, any percentages entered | `OpInv` says at each place of a command how its next mapping was made from the one it has read (`Made`, `Chosen`); lemmas say what `CreateMapping` and `EditMapping` do to a device. A write with a true reading is then a function of the mapping it replaces |
| `CliProofs!CommandTypeCorrect`, `VersionsAreDistinct` | number of commands, their options, the projects, limits and repetitions | `VersionsDistinct` is about builds, which come two requests after their version was read. `Owns` says from when on a command has its version to itself; `OwnersDiffer`, that on a platform where no two commands raced, owned versions are on the server and differ |
| `CliProofs!ExitIsTrue` | the same | `Truthful` follows a command: all it was to start is started (`AllStarted`), and the end that a query told of is still true when the round is judged, requests later (`SeenTrue`) |
| `CliProofs!OnlyQueriesRepeat` | the same | `Standing` is where a command is. `CommandForward` compares part, platform, step and attempt in this order; while it waits, the platforms not answered yet become fewer until a round is judged. It needs `CommandInv`, as a query that told "asked" would not be an answer |
| `DeviceRunProofs!TypeCorrect`, `EventsWrittenOnce`, `CompletesWhenStopped` | number of files, passes, records, emptyings, failures | `IdsUsed`: every ID written is below the next number. `CellsInOrder`: a file's cells ascend. `ReadInOrder` and `Shrunk`: unless readers overlapped, what is before the offset is what was written, in the file or in the one before it was emptied. For the end, `CollectInv`: a file is consecutive, what was promised when `stopAsync` was called is still in it, and the reader of its own pass (`LastPass`) has read as far or will |
| `DeviceRunProofs!SessionTypeCorrect`, `LeavesNothingRunning` | number of artifacts, idle limit, the four functions | `Course`: what a session holds at a place is what its `finally` stops, and what every function starts first is held there, so that the `finally` has something to do. `AppiumFirst`: when one of Appium's directories is next, its server and its own directory are all that is left |
| `DeviceRunProofs!DrainsArtifacts`, `IdlesOnlyQuiet` | the same | `Handover`: Argent's poller comes to its last listing only once what is due was noted, or after the time limit. `Observed`: while no event is unseen, the age of the last observation is at most the number of quiet polls; an event makes one unseen and `Collect` starts its age anew, wherever they come |
| `DeviceRunProofs!OnlyWaitRepeats` | the same | `CourseRank` orders the parts of a function; within one, `todo` gets shorter or `held` smaller. That the `finally` finds something to stop (`Course`) is what keeps it from standing still |

Each invariant was model-checked on the instances of the runs; so were the four
action formulas of termination, which no run repeats.

Every invariant, every action property and the refinement that a run checks is a
theorem. Beside them four theorems say what of termination is safety: `LoopsEnd`,
`BuildEnds`, `OnlyWaitRepeats` and `OnlyQueriesRepeat` show that steps go forward
only, through lists that end, except for the rounds in which a device session and a
command poll the server. They say nothing of a step that is never taken. Only
model-checked are the liveness properties `WorkerGoesAway`,
`StreamProgresses` (of both streams), `CollectionGoesOn`, `SessionEnds` and
`WaitEnds`, as the prover has neither fairness nor ENABLED; of `StreamProgresses` of
`RemoteLogger`, the part that is safety is proved (`InFinalLog`). There are no
recursive operators; nothing is claimed of recursive computations, for which the
prover's induction theorems cannot be used.

No theorem has a premise beside these assumptions. Each exclusion is a condition in
the property itself, over a state that the model reaches: the list under
[findings](#findings) names them.

## What is not modelled

| part | why |
|---|---|
| outputs and variables of a step, its directories (`steps/src/BuildStep.ts`) | planned (`StepExecution`); `Workflow` has a step as one action with three ends, `DeviceSession` its time limit |
| configuration, templates and the expansion of composite functions (`steps`) | pure functions from a configuration to the list of steps that `Workflow` takes as constants |
| simulators and emulators, step functions, platform tooling (Gradle, Xcode, fastlane) | sequences of external commands; their states are those of the tools |
| caches, artifact uploads, process environment, metrics, feature flags, analytics | sequential transfers and counters, whose failures are logged and ignored |
| merging of job information and secrets into `env` (`updateJobInformation`, `updateEnv`) | left out of `BuildPhases`, which follows stored variables only |
| CLI: prompts, credentials, project upload and fingerprints before a build request; `eas submit` by itself | sequential; a step of `BuildCommand` that may throw |
| CLI: updates | requests in sequence; republishing is in `Rollout` as far as the end of a rollout uses it |
| CLI: credentials, project configuration, other commands, API client | interactive or thin commands over states that the server or Apple keeps |
| `eas-json`, `eas-build-job` | schemas and the merging of profiles, pure functions |
| local builds, small libraries, release tooling | the same builders in one process; wrappers; scripts |

## Plan

The order is that of importance: what all builds go through, then what is shared
by several users, then the rest.

Done, each with its instances and proofs:

1. `Workflow`: the step executor.
2. `Worker`: the service and its launchers.
3. `PublishedLog`, `RemoteLogger`: the log file, and that it implements the log.
4. `HttpLog`: log entries by POST.
5. `BuildPhases`: build phases and stored variables.
6. `NativeBuild`: builders, hooks and finally blocks.
7. `Rollout`: a channel whose mapping several operators read, change and write
   back.
8. `EventCollection`: the events of device sessions.
9. `DeviceSession`: sessions and their artifacts.
10. `BuildCommand`: `eas build`.

To do:

11. `StepExecution`: a step under its time limit whose function goes on after it
    (`steps/src/BuildStep.ts:245-331`), with its outputs and variables; to show that
    it has the three ends that `Workflow` assumes.
12. A composition of `Worker` with `RemoteLogger` for the end of a build: the result
    is reported when the final log is there.
13. Publishing and republishing of updates (`eas-cli/src/update`), with groups that
    are published for one platform only.

Proofs to come: the refinements of 11 and 12.
