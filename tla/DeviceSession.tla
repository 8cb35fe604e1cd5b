---------------------------- MODULE DeviceSession ----------------------------
(***************************************************************************)
(* A remote device session: one step of a job that starts a producer (the   *)
(* agent-device daemon, the Argent tool-server, Appium, or none), tunnels,   *)
(* a preview, the collection of events and the upload of artifacts, waits    *)
(* for the end of the session, and gives everything back                     *)
(* (build-tools/src/steps/functions/start...RemoteSession.ts, with           *)
(* steps/utils/remoteDeviceRunSession.ts).                                   *)
(*                                                                          *)
(* The step has a time limit, at which BuildStep rejects while the function  *)
(* goes on (steps/src/BuildStep.ts:256-283); the signal it gets is aborted    *)
(* then and only then.  The poller of artifacts is a second task.            *)
(***************************************************************************)
EXTENDS Integers, Sequences

CONSTANTS
  Kinds,        \* which of the four functions are looked at
  MaxArtifacts, \* how many files a producer may come to offer
  IdleLimit     \* max_idle_time_minutes, in polls of the session's status

\* In the order in which they are offered.
Artifacts == 1..MaxArtifacts

AllKinds  == {"agentDevice", "argent", "appium", "serveSim"}
Resources == {"home", "producer", "tunnel", "preview", "events", "poll"}

ASSUME SessionAssumption ==
  /\ Kinds \subseteq AllKinds
  /\ MaxArtifacts \in Nat
  /\ IdleLimit \in Nat \ {0}

VARIABLES
  kind,                 \* the function
  step,                 \* of BuildStep: what became of it
  pc, todo,             \* where the function is, and what it has still to start
  held,                 \* what it has started and not stopped
  how,                  \* why it stopped waiting, or where it failed
  server,               \* the session's status
  idleTimeout,          \* of the wait: whether max_idle_time_minutes is given,
  maxDuration,          \*   and max_duration_seconds
  overdue,              \* durationAbortController is aborted
  age,                  \* looks at the clock since lastActivityAt, this one too
  unseen,               \* events the collector has not observed, 2 for several
  collector,            \* of the events: "off", "ok", or "disabled"
  poll,                 \* where the poller of artifacts is
  attached,             \* it was told to stop, and the finally awaits its promise
  batch,                \* agent-device: what the poller is still to upload
  art,                  \* of each artifact
  crashed,              \* an unhandled rejection ended the worker
  quiet, due, unlisted  \* history: looks since the last event; what was offered
                        \*   when the finally began; that the last listing failed

wait     == <<idleTimeout, maxDuration, overdue, age, unseen, quiet>>
uploader == <<poll, attached, batch>>
sessionVars ==
  <<kind, step, pc, todo, held, how, server, wait, collector, uploader, art,
    crashed, due, unlisted>>

-----------------------------------------------------------------------------
(* The four functions.                                                     *)

\* What each starts before its try, ...
Unguarded ==
  [agentDevice |-> <<"producer", "ready", "tunnel">>,
   argent      |-> <<"producer", "ready", "poll", "events">>,
   appium      |-> <<"home", "install", "producer", "ready", "events">>,
   serveSim    |-> <<"preview">>]

\* ... in it, before it waits (serve-sim's preview is for iOS only), ...
Guarded(preview) ==
  [agentDevice |-> preview \o <<"config", "poll", "events">>,
   argent      |-> <<"tunnel">> \o preview \o <<"config">>,
   appium      |-> <<"tunnel">> \o preview \o <<"config">>,
   serveSim    |-> <<"config">>]

\* Fault: the tools tunnel is kept open for the artifacts.
FinallyKeepingTunnel ==
  [agentDevice |-> <<"preview", "tunnel", "events", "producer">>,
   argent      |-> <<"preview", "events", "poll", "producer">>,
   appium      |-> <<"preview", "tunnel", "events", "producer", "home">>,
   serveSim    |-> <<"preview">>]

\* ... and what its finally stops.
Finally ==
  [agentDevice |-> <<"preview", "tunnel", "events", "producer">>,
   argent      |-> <<"preview", "tunnel", "events", "poll", "producer">>,
   appium      |-> <<"preview", "tunnel", "events", "producer", "home">>,
   serveSim    |-> <<"preview">>]

\* A poller is only called, and a collection that cannot be set up is disabled;
\* Appium's has a directory of its own to make first.
MayFail(r) == r \notin {"poll"} \cup (IF kind = "appium" THEN {} ELSE {"events"})

Startup == pc \in {"unguarded", "guarded"}
Waiting == pc \in {"query", "sleep", "ensure"}
Failures == {"unguarded", "startup", "errored", "cleanUp"}

-----------------------------------------------------------------------------

\* The shape of every variable.
SessionTypeOK ==
  /\ kind \in Kinds
  /\ {idleTimeout, maxDuration, overdue, attached, unlisted} \subseteq BOOLEAN
  /\ step \in {"running", "success", "failed", "timedOut"}
  /\ pc \in {"unguarded", "guarded", "query", "sleep", "ensure", "finally", "over"}
  /\ todo \in Seq(Resources \cup {"ready", "config", "install"})
  /\ held \subseteq Resources
  /\ how \in {"none", "stopped", "idle", "aborted"} \cup Failures
  /\ server \in {"live", "stopped", "errored"}
  /\ age \in 0..(IdleLimit + 1) /\ quiet \in 0..(IdleLimit + 1) /\ unseen \in 0..2
  /\ collector \in {"off", "ok", "disabled"}
  /\ poll \in {"off", "list", "upload", "sleep", "drain", "settle", "resolved", "rejected"}
  /\ art \in [Artifacts -> {"absent", "offered", "uploading", "uploaded", "failed"}]
  /\ batch \subseteq Artifacts /\ due \subseteq Artifacts
  /\ poll = "upload" <=> batch # {}
  /\ crashed \in BOOLEAN

SessionInit ==
  /\ kind \in Kinds /\ idleTimeout = FALSE /\ maxDuration = FALSE
  /\ step = "running" /\ pc = "unguarded" /\ todo = Unguarded[kind]
  /\ held = {} /\ how = "none" /\ server = "live" /\ overdue = FALSE
  /\ age = 0 /\ unseen = 0 /\ collector = "off"
  /\ poll = "off" /\ attached = FALSE /\ batch = {}
  /\ art = [a \in Artifacts |-> "absent"]
  /\ crashed = FALSE /\ quiet = 0 /\ due = {} /\ unlisted = FALSE

-----------------------------------------------------------------------------
(* The end of the function, and of the step with it unless it timed out.    *)

Over(h) ==
  /\ pc' = "over" /\ how' = h
  /\ step' = IF step # "running" THEN step
             ELSE IF h \in Failures THEN "failed" ELSE "success"

\* What of h there is to stop, and what is stopped first.
ToStop(h) == {k \in DOMAIN Finally[kind] : Finally[kind][k] \in h}
First(h)  == Finally[kind][CHOOSE k \in ToStop(h) : \A j \in ToStop(h) : k <= j]

\* The variables of the wait are gone with it.
EnterFinally(h) ==
  /\ pc' = "finally" /\ how' = h /\ todo' = <<>>
  /\ due' = {a \in Artifacts : kind = "argent" /\ art[a] # "absent"}
  /\ idleTimeout' = FALSE /\ maxDuration' = FALSE /\ overdue' = FALSE
  /\ age' = 0 /\ unseen' = 0 /\ quiet' = 0
  /\ UNCHANGED step

\* Once the events are stopped the poller is told to stop and awaited.
GoOnWithFinally ==
  /\ attached' = (attached \/ (ToStop(held') # {} /\ First(held') = "poll"))
  /\ IF ToStop(held') = {} THEN Over(how) ELSE UNCHANGED <<pc, how, step>>

-----------------------------------------------------------------------------
(* waitForDeviceRunSessionStoppedAsync.                                     *)

Aborted == step = "timedOut" \/ overdue

\* serve-sim has no idle limit, and a session of Appium none of its duration.  The
\* first look at the clock comes at once.
BeginWait ==
  IF Aborted THEN EnterFinally("aborted")
  ELSE /\ pc' = "query" /\ todo' = <<>>
       /\ idleTimeout' \in BOOLEAN /\ (kind = "serveSim" => ~idleTimeout')
       /\ maxDuration' \in BOOLEAN /\ (kind = "appium" => ~maxDuration')
       /\ age' = 1 /\ quiet' = 1
       /\ UNCHANGED <<overdue, unseen, how, due, step>>

\* Fault: a disabled collection reports that there was no event.
IdleUnobserved(a) == idleTimeout /\ a > IdleLimit

\* The limit is over: that many polls since the first look.  A disabled collection
\* reports activity at every look.
IdledOut(a) == idleTimeout /\ collector # "disabled" /\ a > IdleLimit

Older(n) == IF n > IdleLimit \/ ~idleTimeout THEN n ELSE n + 1

\* Fault: the time limit of the step is not looked at.
LoopTopUnaborted ==
  IF overdue THEN EnterFinally("aborted")
  ELSE /\ age' = Older(age) /\ quiet' = Older(quiet) /\ todo' = <<>>
       /\ IF IdledOut(age') THEN pc' = "ensure" /\ how' = "idle"
          ELSE pc' = "query" /\ UNCHANGED how
       /\ UNCHANGED <<unseen, due, step, idleTimeout, maxDuration, overdue>>

\* The top of the loop looks at what the collector has observed by now.
LoopTop ==
  IF Aborted THEN EnterFinally("aborted")
  ELSE /\ age' = Older(age) /\ quiet' = Older(quiet) /\ todo' = <<>>
       /\ IF IdledOut(age') THEN pc' = "ensure" /\ how' = "idle"
          ELSE pc' = "query" /\ UNCHANGED how
       /\ UNCHANGED <<unseen, due, step, idleTimeout, maxDuration, overdue>>

QueryAnswered ==
  /\ pc = "query" /\ UNCHANGED held
  /\ CASE server = "live"    -> pc' = "sleep" /\ UNCHANGED <<how, todo, due, step, wait>>
       [] server = "stopped" -> EnterFinally("stopped")
       [] server = "errored" -> EnterFinally("errored")
  /\ UNCHANGED <<kind, server, collector, uploader, art, crashed, unlisted>>

QueryFails ==
  /\ pc = "query" /\ pc' = "sleep"
  /\ UNCHANGED <<kind, step, todo, held, how, server, wait, collector, uploader, art,
                 crashed, due, unlisted>>

\* A poll's interval is over, or cut short by the signal.
SleepEnds ==
  /\ pc = "sleep" /\ LoopTop
  /\ UNCHANGED <<kind, held, server, collector, uploader, art, crashed, unlisted>>

\* Fault: the time of the observation is not kept.
CollectUntimed ==
  /\ Waiting /\ collector = "ok"
  /\ unseen' \in 0..(unseen - 1)
  /\ UNCHANGED <<kind, step, pc, todo, held, how, server, idleTimeout, maxDuration,
                 overdue, age, quiet, collector, uploader, art, crashed, due, unlisted>>

\* A pass of the collector, a poller of its own, observes an event; those that came
\* while it was reading it may not.  A pass may be slow or fail, so an event may be
\* unseen for as long as it likes.
Collect ==
  /\ Waiting /\ collector = "ok"
  /\ unseen' \in 0..(unseen - 1) /\ age' = 0
  /\ UNCHANGED <<kind, step, pc, todo, held, how, server, idleTimeout, maxDuration,
                 overdue, quiet, collector, uploader, art, crashed, due, unlisted>>

\* Best effort: the mutation may fail, applied or not.
EnsureStopped ==
  /\ pc = "ensure" /\ UNCHANGED held
  /\ server' \in {server, "stopped"}
  /\ EnterFinally("idle")
  /\ UNCHANGED <<kind, collector, uploader, art, crashed, unlisted>>

\* The timer of max_duration_seconds, set for as long as the wait lasts.
Overdue ==
  /\ Waiting /\ maxDuration /\ ~overdue
  /\ overdue' = TRUE
  /\ UNCHANGED <<kind, step, pc, todo, held, how, server, idleTimeout, maxDuration,
                 age, unseen, quiet, collector, uploader, art, crashed, due, unlisted>>

-----------------------------------------------------------------------------
(* Starting and stopping.                                                  *)

\* The next thing is up; the last one before the try leads into it, and the
\* last one in it to the wait.
StartupGoesOn ==
  /\ Startup
  /\ held' = held \cup ({Head(todo)} \cap Resources)
  /\ poll' = IF Head(todo) # "poll" THEN poll
             ELSE IF kind = "argent" /\ step = "timedOut" THEN "drain" ELSE "list"
  /\ IF Head(todo) = "events" THEN collector' \in {"ok", "disabled"}
     ELSE UNCHANGED collector
  /\ CASE Tail(todo) # <<>> ->
            todo' = Tail(todo) /\ UNCHANGED <<pc, how, step, due, wait>>
       [] Tail(todo) = <<>> /\ pc = "unguarded" ->
            /\ pc' = "guarded" /\ \E preview \in {<<>>, <<"preview">>} : todo' = Guarded(preview)[kind]
            /\ UNCHANGED <<how, step, due, wait>>
       [] Tail(todo) = <<>> /\ pc = "guarded" -> BeginWait
  /\ UNCHANGED <<kind, server, attached, batch, art, crashed, unlisted>>

\* Fault: the catch leaves the server running.
HeldWithServer ==
  IF kind = "appium" /\ Head(todo) = "ready" THEN {held \ {"home"}, held} ELSE {held}

\* Appium's own catch, when it does not get ready; its directory may not go.
HeldAfterFailure ==
  IF kind = "appium" /\ Head(todo) = "ready"
    THEN {held \ {"producer", "home"}, held \ {"producer"}} ELSE {held}

\* Before the try nothing is stopped; in it the finally stops what was started.
\* mkdtemp has made Appium's directory when its installation fails.
StartupFails ==
  /\ Startup /\ MayFail(Head(todo))
  /\ CASE pc = "unguarded" -> held' \in HeldAfterFailure /\ Over("unguarded")
                                /\ UNCHANGED <<todo, due, wait>>
       [] pc = "guarded"   -> UNCHANGED held /\ EnterFinally("startup")
  /\ UNCHANGED <<kind, server, collector, uploader, art, crashed, unlisted>>

\* No stop function throws, but Appium's directories may not go, that of its events
\* and its own: then the rest of the finally is skipped.
Stop ==
  /\ pc = "finally" /\ First(held) # "poll"
  /\ \/ held' = held \ {First(held)} /\ GoOnWithFinally
     \/ /\ kind = "appium" /\ First(held) \in {"events", "home"}
        /\ held' = held \ {"events"} /\ Over("cleanUp")
        /\ UNCHANGED attached
  /\ UNCHANGED <<kind, todo, server, wait, collector, poll, batch, art, crashed, due,
                 unlisted>>

\* Its rejection is caught.
AwaitPoll ==
  /\ pc = "finally" /\ First(held) = "poll" /\ poll \in {"resolved", "rejected"}
  /\ held' = held \ {"poll"}
  /\ GoOnWithFinally
  /\ UNCHANGED <<kind, todo, server, wait, collector, poll, batch, art, crashed, due,
                 unlisted>>

-----------------------------------------------------------------------------
(* pollArgentArtifactsForUploadAsync: uploads run beside the loop.           *)

function == <<kind, step, pc, todo, held, how, server, wait, collector, due>>

\* Fault: the poller is told to stop as soon as the session is over.
ToldEarly == pc = "finally" \/ step = "timedOut"

\* Its own signal, or the step's.
Told == attached \/ step = "timedOut"

Queued    == [a \in Artifacts |-> IF art[a] = "offered" THEN "uploading" ELSE art[a]]
Pending(t) == \E a \in Artifacts : t[a] = "uploading"

\* A listing fails, is aborted, or finds what is there.
ListArgent ==
  /\ kind = "argent" /\ poll = "list"
  /\ \/ UNCHANGED art
     \/ "producer" \in held /\ ~Told /\ art' = Queued
  /\ poll' = "sleep"
  /\ UNCHANGED <<function, attached, batch, crashed, unlisted>>

PollerWakes ==
  /\ poll = "sleep"
  /\ poll' = IF kind = "argent" /\ Told THEN "drain" ELSE "list"
  /\ UNCHANGED <<function, attached, batch, art, crashed, unlisted>>

\* Fault: what is still offered at the end is left there.
DrainWithoutListing ==
  /\ poll = "drain"
  /\ UNCHANGED <<art, unlisted>>
  /\ poll' = IF Pending(art) THEN "settle" ELSE "resolved"
  /\ UNCHANGED <<function, attached, batch, crashed>>

\* The last listing, then the uploads are waited for.
DrainArgent ==
  /\ poll = "drain"
  /\ \/ UNCHANGED art /\ unlisted' = TRUE
     \/ "producer" \in held /\ art' = Queued /\ UNCHANGED unlisted
  /\ poll' = IF Pending(art') THEN "settle" ELSE "resolved"
  /\ UNCHANGED <<function, attached, batch, crashed>>

UploadEnds(a) ==
  /\ art[a] = "uploading"
  /\ \E end \in {"uploaded", "failed"} : art' = [art EXCEPT ![a] = end]
  /\ poll' = IF poll = "settle" /\ ~Pending(art') THEN "resolved" ELSE poll
  /\ UNCHANGED <<function, attached, batch, crashed, unlisted>>

\* A rejection that nobody awaits ends the process.
UploadsTimeOut ==
  /\ poll = "settle" /\ poll' = "rejected"
  /\ crashed' = ~attached
  /\ UNCHANGED <<function, attached, batch, art, unlisted>>

-----------------------------------------------------------------------------
(* pollAgentDeviceArtifactsForUploadAsync: one upload after the other, for   *)
(* ever, and again at the next listing if it failed.                        *)

ListAgentDevice ==
  /\ kind = "agentDevice" /\ poll = "list"
  /\ \/ poll' = "sleep" /\ UNCHANGED batch
     \/ /\ "producer" \in held
        /\ batch' = {a \in Artifacts : art[a] = "offered"}
        /\ poll' = IF batch' = {} THEN "sleep" ELSE "upload"
     \/ /\ "producer" \in held /\ \A a \in Artifacts : art[a] = "absent"
        /\ poll' = "resolved" /\ UNCHANGED batch   \* no such endpoint
  /\ UNCHANGED <<function, attached, art, crashed, unlisted>>

\* Fault: a failed upload ends the pass and leaves the rest of its list behind.
UploadNextOrStop(a) ==
  /\ poll = "upload" /\ a \in batch /\ \A b \in batch : a <= b
  /\ \E end \in {"offered", "uploaded"} : art' = [art EXCEPT ![a] = end]
  /\ batch' = batch \ {a}
  /\ poll' = IF batch' = {} \/ art'[a] = "offered" THEN "sleep" ELSE "upload"
  /\ UNCHANGED <<function, attached, crashed, unlisted>>

UploadNext(a) ==
  /\ poll = "upload" /\ a \in batch /\ \A b \in batch : a <= b
  /\ \E end \in {"offered", "uploaded"} : art' = [art EXCEPT ![a] = end]
  /\ batch' = batch \ {a}
  /\ poll' = IF batch' = {} THEN "sleep" ELSE "upload"
  /\ UNCHANGED <<function, attached, crashed, unlisted>>

-----------------------------------------------------------------------------
(* The rest of the system.                                                 *)

\* The step's timer: BuildStep rejects, and aborts the function's signal.
TimeOut ==
  /\ step = "running" /\ step' = "timedOut"
  /\ UNCHANGED <<kind, pc, todo, held, how, server, wait, collector, uploader, art,
                 crashed, due, unlisted>>

\* What becomes of the session on the server after the wait is not looked at.
ServerEnds ==
  /\ Startup \/ Waiting
  /\ server = "live" /\ server' \in {"stopped", "errored"}
  /\ UNCHANGED <<kind, step, pc, todo, held, how, wait, collector, uploader, art,
                 crashed, due, unlisted>>

\* Only two of the functions ask for artifacts.
Offer(a) ==
  /\ kind \in {"agentDevice", "argent"} /\ "producer" \in held
  /\ art[a] = "absent" /\ \A b \in 1..(a - 1) : art[b] # "absent"
  /\ art' = [art EXCEPT ![a] = "offered"]
  /\ UNCHANGED <<function, uploader, crashed, unlisted>>

\* Somebody uses the device; looked at for an idle limit only.
Act ==
  /\ Waiting /\ idleTimeout
  /\ unseen' = (IF unseen = 0 THEN 1 ELSE 2) /\ quiet' = 0
  /\ UNCHANGED <<kind, step, pc, todo, held, how, server, idleTimeout, maxDuration,
                 overdue, age, collector, uploader, art, crashed, due, unlisted>>

-----------------------------------------------------------------------------

Session == StartupGoesOn \/ StartupFails \/ QueryAnswered \/ QueryFails \/ SleepEnds
             \/ EnsureStopped \/ Stop \/ AwaitPoll

Polling == ListArgent \/ PollerWakes \/ DrainArgent \/ UploadsTimeOut
             \/ ListAgentDevice \/ \E a \in Artifacts : UploadEnds(a) \/ UploadNext(a)

Environment == TimeOut \/ ServerEnds \/ Overdue \/ Act \/ Collect
                 \/ \E a \in Artifacts : Offer(a)

SessionNext == ~crashed /\ (Session \/ Polling \/ Environment)

SessionSpec == SessionInit /\ [][SessionNext]_sessionVars

\* Every await of the function and of the poller comes to an end.  Nobody has to
\* use or stop the session, no limit has to be given, and no event to be observed.
Fairness ==
  /\ WF_sessionVars(~crashed /\ Session)
  /\ WF_sessionVars(~crashed /\ Polling)

FairSession == SessionSpec /\ Fairness

-----------------------------------------------------------------------------
(* Properties.                                                             *)

\* When a session that came as far as its try is over, nothing it started is
\* left running, wherever it failed or was aborted: what did start is stopped,
\* in whichever order.  The poller of agent-device is never stopped, and a
\* session of Appium whose directories do not go may keep them, and its server
\* if it is that of the events.  Nor does one that does not get ready keep the
\* server.
NothingLeftRunning ==
  pc = "over" =>
    /\ how \notin {"unguarded", "cleanUp"} =>
         held \subseteq IF kind = "agentDevice" THEN {"poll"} ELSE {}
    /\ how = "cleanUp" => held \subseteq {"producer", "home"}
    /\ how = "unguarded" /\ kind = "appium" /\ Head(todo) = "ready" => held \subseteq {"home"}

\* The rejection of Argent's poller, which times out waiting for slow uploads,
\* finds the finally waiting for it and does not end the worker; after the time
\* limit of the step it may come before that.
WorkerSurvives == crashed => step = "timedOut"

\* Every file that Argent offered when the session ended has been uploaded, or
\* failed to, when the tool-server is stopped, unless it could not be listed any
\* more, the uploads took too long, or the step had timed out.
QueueDrained ==
  kind = "argent" /\ pc = "over" /\ how # "unguarded" /\ step # "timedOut"
    /\ poll = "resolved" /\ ~unlisted
  => \A a \in due : art[a] \in {"uploaded", "failed"}

\* Draining the artifacts neither loses one nor the worker.
ArtifactsDrained == QueueDrained /\ WorkerSurvives

\* remoteDeviceRunSession.ts stops for lack of activity only a session that had
\* none for the time given, or an event that its collector has not observed: however
\* the user, the passes of the collector and the looks at the clock interleave, one
\* that it has observed counts.  One that could not set up its collector is never
\* stopped.
IdleOnlyWhenQuiet ==
  [][how' = "idle" /\ how # "idle" =>
       collector # "disabled" /\ (quiet' > IdleLimit \/ unseen' > 0)]_sessionVars

\* A session whose step timed out, that is overdue, or that the server ended is
\* over some time later, however many queries fail, if not all of them do; and
\* one with an idle limit that nobody uses any more ends by itself.
SessionEnds ==
  SF_sessionVars(~crashed /\ QueryAnswered) =>
    /\ (step = "timedOut" \/ overdue \/ server # "live") ~> (pc = "over" \/ crashed)
    /\ [](Waiting /\ idleTimeout /\ collector # "disabled"
            => <>(pc = "over" \/ crashed \/ (Waiting /\ quiet = 0)))

=============================================================================
