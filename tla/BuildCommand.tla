----------------------------- MODULE BuildCommand -----------------------------
(***************************************************************************)
(* `eas build` with remote app versions (cli/src/build/runBuildAndSubmit.ts):*)
(* for one platform after the other a version is read and written, a build   *)
(* is requested and, with --auto-submit, a submission; then the command       *)
(* waits for the builds, and for the submissions unless all builds failed,    *)
(* and its exit code tells how they went.  Several commands run at once on    *)
(* one project.  Every request may fail, or be served and its response lost;  *)
(* the GraphQL client repeats it unless it says noRetry.                     *)
(*                                                                          *)
(* Names differ from those of Rollout, which is extended beside this module. *)
(***************************************************************************)
EXTENDS Integers, Sequences, FiniteSets

CONSTANTS
  Invocations,     \* the commands that run, in terminals or CI jobs
  Options,         \* the commands that may run beside each other, with the
                   \*   flags and profiles they are given
  Projects,        \* what the project and the server may say of the versions
  MaxVersionCode,  \* the largest version Android takes
  MaxAttempts      \* how often the client sends a request

Platforms == {"android", "ios"}
Unset     == 0     \* no version on the server, or none read from the project

OptionRecords ==
  [platforms : {<<"android">>, <<"ios">>, <<"android", "ios">>},
   autoIncrement : BOOLEAN, autoSubmit : BOOLEAN, wait : BOOLEAN]

ASSUME CommandAssumption ==
  /\ Options \subseteq UNION {[C -> OptionRecords] : C \in SUBSET Invocations}
  /\ Projects \subseteq [local : [Platforms -> [version : Nat, initial : BOOLEAN]],
                         latest : [Platforms -> Nat]]
  /\ MaxVersionCode \in Nat \ {0} /\ MaxAttempts \in Nat \ {0}

VARIABLES
  flags, local,       \* inputs: of each command that runs, of each platform
  place, index, outcome,  \* of each command; next: the platform it is at
  tries,              \*   the requests it sent in vain
  version,            \*   the version of each platform's build
  told,               \*   what the queries of a round told, so far
  latest,             \* server: of each platform, the version written last
  requests,           \*   of each job, how many builds were requested,
  build, submission,  \*   and what became of them
  known,              \* history: the version a command last read or wrote,
  raced               \*  and the platforms whose version was written over another
                      \*   than the one the writer knew

inputs    == <<flags, local>>
command   == <<place, index, outcome, tries, version, told>>
history   == <<known, raced>>
service   == <<latest, requests, build, submission>>
buildVars == <<inputs, command, service, history>>

Jobs        == Invocations \X Platforms
Ended       == {"finished", "errored", "canceled"}
Order(c)    == flags[c].platforms
Of(c)       == {Order(c)[i] : i \in DOMAIN Order(c)}
P(c)        == Order(c)[index[c]]
Job(c)      == <<c, P(c)>>

\* Above the limit is only what the project or the server said to begin with.
Limited(v) ==
  \/ v <= MaxVersionCode
  \/ \E q \in Projects : v \in {q.local["android"].version, q.latest["android"]}

\* The shape of every variable; no command gets an Android version past the limit.
BuildTypeOK ==
  /\ flags \in Options
  /\ place \in [Invocations -> {"read", "write", "send", "submit", "builds",
                               "submissions", "over"}]
  /\ index \in [Invocations -> 1..2] /\ \A c \in DOMAIN flags : index[c] \in DOMAIN Order(c)
  /\ outcome \in [Invocations -> {"none", "ok", "exit1", "threw", "killed"}]
  /\ known \in [Invocations -> Nat] /\ tries \in [Invocations -> 0..MaxAttempts - 1]
  /\ version \in [Jobs -> Nat] /\ latest \in [Platforms -> Nat]
  /\ \A c \in Invocations : Limited(version[<<c, "android">>])
  /\ told \in [Jobs -> {"asked", "active"} \cup Ended]
  /\ requests \in [Jobs -> Nat]
  /\ build \in [Jobs -> {"none", "active"} \cup Ended]
  /\ submission \in [Jobs -> {"none", "active"} \cup Ended]
  /\ raced \subseteq Platforms

BuildInit ==
  /\ flags \in Options
  /\ \E project \in Projects : local = project.local /\ latest = project.latest
  /\ place = [c \in Invocations |-> IF c \in DOMAIN flags THEN "read" ELSE "over"]
  /\ index = [c \in Invocations |-> 1] /\ outcome = [c \in Invocations |-> "none"]
  /\ known = [c \in Invocations |-> Unset] /\ tries = [c \in Invocations |-> 0]
  /\ version = [j \in Jobs |-> Unset] /\ told = [j \in Jobs |-> "asked"]
  /\ requests = [j \in Jobs |-> 0] /\ build = [j \in Jobs |-> "none"]
  /\ submission = [j \in Jobs |-> "none"] /\ raced = {}

-----------------------------------------------------------------------------
(* How a command goes on and ends.                                         *)

GoTo(c, where) == place' = [place EXCEPT ![c] = where]

End(c, how) ==
  /\ GoTo(c, "over") /\ outcome' = [outcome EXCEPT ![c] = how]

\* A new round of queries.
Round(c) == told' = [j \in Jobs |-> IF j[1] = c THEN "asked" ELSE told[j]]

Wait(c) ==
  IF flags[c].wait THEN GoTo(c, "builds") /\ UNCHANGED outcome ELSE End(c, "ok")

\* The next platform's build, then the submissions, then the wait.
AfterBuildStarted(c) ==
  IF index[c] < Len(Order(c)) THEN
    /\ GoTo(c, "read") /\ index' = [index EXCEPT ![c] = @ + 1] /\ UNCHANGED outcome
  ELSE
    /\ index' = [index EXCEPT ![c] = 1]
    /\ IF flags[c].autoSubmit THEN GoTo(c, "submit") /\ UNCHANGED outcome ELSE Wait(c)

AfterSubmissionStarted(c) ==
  IF index[c] < Len(Order(c)) THEN
    index' = [index EXCEPT ![c] = @ + 1] /\ UNCHANGED <<place, outcome>>
  ELSE UNCHANGED index /\ Wait(c)

\* Whatever the command calls until it waits may throw, at any platform: what
\* was requested before stays so.
Throw(c) ==
  /\ place[c] \in {"read", "write", "send", "submit"} /\ End(c, "threw")
  /\ UNCHANGED <<inputs, index, tries, version, told, service, history>>

\* "You can press Ctrl+C to exit."
Interrupt(c) ==
  /\ place[c] \in {"builds", "submissions"} /\ End(c, "killed")
  /\ UNCHANGED <<inputs, index, tries, version, told, service, history>>

-----------------------------------------------------------------------------
(* The version: resolveRemoteVersionCodeAsync, resolveRemoteBuildNumberAsync. *)

\* The server's version, or the project's.
Current(p) == IF latest[p] # Unset THEN latest[p] ELSE local[p].version

Keeps(c, p) == ~flags[c].autoIncrement /\ latest[p] # Unset

\* Fault: a project whose version was never set is always taken as the first.
InitializesAlways(c, p) ==
  \/ ~flags[c].autoIncrement /\ latest[p] = Unset
  \/ local[p].initial

\* The first version of an app is not incremented.
Initializes(c, p) ==
  \/ ~flags[c].autoIncrement /\ latest[p] = Unset
  \/ latest[p] = Unset /\ local[p].initial

\* Fault: the limit itself is incremented.
AtLimitAbove(p, v) == p = "android" /\ v > MaxVersionCode

\* getNextVersionCode throws; a build number of iOS has no limit.
AtLimit(p, v) == p = "android" /\ v >= MaxVersionCode

ReadVersion(c) ==
  LET p == P(c) IN
  /\ place[c] = "read"
  /\ known' = [known EXCEPT ![c] = latest[p]]
  /\ IF Current(p) = Unset \/ (~Keeps(c, p) /\ ~Initializes(c, p) /\ AtLimit(p, Current(p)))
     THEN End(c, "threw") /\ UNCHANGED version
     ELSE /\ version' = [version EXCEPT ![<<c, p>>] =
               IF Keeps(c, p) \/ Initializes(c, p) THEN Current(p) ELSE Current(p) + 1]
          /\ GoTo(c, IF Keeps(c, p) THEN "send" ELSE "write")
          /\ UNCHANGED outcome
  /\ UNCHANGED <<inputs, index, tries, told, service, raced>>

\* createAppVersion: the version written last is the app's version.
Written(c) ==
  LET p == P(c) IN
  /\ latest' = [latest EXCEPT ![p] = version[<<c, p>>]]
  /\ raced' = IF latest[p] = known[c] THEN raced ELSE raced \cup {p}
  /\ known' = [known EXCEPT ![c] = version[<<c, p>>]]

WriteVersion(c) ==
  /\ place[c] = "write" /\ Written(c)
  /\ GoTo(c, "send") /\ tries' = [tries EXCEPT ![c] = 0]
  /\ UNCHANGED <<inputs, index, outcome, version, told, requests, build, submission>>

\* The request, or the response to it, is lost.
WriteLost(c) ==
  /\ place[c] = "write"
  /\ Written(c) \/ UNCHANGED <<latest, history>>
  /\ IF tries[c] + 1 < MaxAttempts
     THEN tries' = [tries EXCEPT ![c] = @ + 1] /\ UNCHANGED <<place, outcome>>
     ELSE End(c, "threw") /\ UNCHANGED tries
  /\ UNCHANGED <<inputs, index, version, told, requests, build, submission>>

-----------------------------------------------------------------------------
(* The requests.                                                           *)

Requested(c) ==
  /\ requests' = [requests EXCEPT ![Job(c)] = @ + 1]
  /\ build' = [build EXCEPT ![Job(c)] = "active"]

SendBuild(c) ==
  /\ place[c] = "send" /\ Requested(c) /\ AfterBuildStarted(c)
  /\ UNCHANGED <<inputs, tries, version, told, latest, submission, history>>

\* Fault: the client repeats the request.
SendLostAndRepeated(c) ==
  /\ place[c] = "send" /\ Requested(c) /\ requests[Job(c)] < MaxAttempts
  /\ UNCHANGED <<inputs, command, latest, submission, history>>

\* noRetry: a build that the command does not know of.
SendLost(c) ==
  /\ place[c] = "send" /\ Requested(c) /\ End(c, "threw")
  /\ UNCHANGED <<inputs, index, tries, version, told, latest, submission,
                 history>>

Submitted(c) == submission' = [submission EXCEPT ![Job(c)] = "active"]

Submit(c) ==
  /\ place[c] = "submit" /\ Submitted(c) /\ AfterSubmissionStarted(c)
  /\ UNCHANGED <<inputs, tries, version, told, latest, requests, build,
                 history>>

\* Its response is lost for good, or the query for the build after it fails.
SubmitLost(c) ==
  /\ place[c] = "submit" /\ Submitted(c) /\ End(c, "threw")
  /\ UNCHANGED <<inputs, index, tries, version, told, latest, requests, build, history>>

-----------------------------------------------------------------------------
(* waitForBuildEndAsync and waitForSubmissionsEndAsync: rounds of queries     *)
(* that are sent together and answered one by one.                          *)

Waiting(c)       == place[c] \in {"builds", "submissions"}
Unanswered(c, p) == p \in Of(c) /\ told[<<c, p>>] = "asked"
Answered(c)      == \A p \in Of(c) : told[<<c, p>>] # "asked"
All(c, set)      == \A p \in Of(c) : told[<<c, p>>] \in set

Answer(c, p) ==
  /\ Waiting(c) /\ Unanswered(c, p)
  /\ told' = [told EXCEPT ![<<c, p>>] =
                IF place[c] = "builds" THEN build[<<c, p>>] ELSE submission[<<c, p>>]]
  /\ UNCHANGED <<inputs, place, index, outcome, tries, version, service, history>>

\* A build whose query fails is null, and counts as if it were not at its end.
\* The promise of a
\* submission is returned from its try without being awaited, and rejects them all.
QueryFails(c, p) ==
  /\ Waiting(c) /\ Unanswered(c, p)
  /\ \/ place[c] = "builds" /\ told' = [told EXCEPT ![<<c, p>>] = "active"]
          /\ UNCHANGED <<place, outcome>>
     \/ place[c] = "submissions" /\ End(c, "threw") /\ UNCHANGED told
  /\ UNCHANGED <<inputs, index, tries, version, service, history>>

\* Fault: the first build that has settled ends the wait.
SomeSettled(c) == \E p \in Of(c) : told[<<c, p>>] \in Ended

\* Fault: a build that was canceled is waited for.
AllButCanceled(c) == All(c, {"finished", "errored"})

\* A canceled build may still be at work (PENDING_CANCEL).
BuildsSettled(c) == All(c, Ended)

\* Fault: the command fails only if all builds did.
ExitIfAll(c, set) == IF All(c, set) THEN "exit1" ELSE "ok"

ExitIfSome(c, set) == IF \E p \in Of(c) : told[<<c, p>>] \in set THEN "exit1" ELSE "ok"

\* A single build that failed without an error of its own throws.
JudgeBuilds(c) ==
  /\ place[c] = "builds" /\ Answered(c)
  /\ \/ ~BuildsSettled(c) /\ Round(c) /\ UNCHANGED <<place, outcome>>
     \/ /\ Len(Order(c)) = 1 /\ All(c, {"errored"})
        /\ End(c, "threw") /\ UNCHANGED told
     \/ /\ BuildsSettled(c) /\ (All(c, {"errored", "canceled"}) \/ ~flags[c].autoSubmit)
        /\ End(c, ExitIfSome(c, {"errored"})) /\ UNCHANGED told
     \/ /\ BuildsSettled(c) /\ ~All(c, {"errored", "canceled"}) /\ flags[c].autoSubmit
        /\ GoTo(c, "submissions") /\ Round(c) /\ UNCHANGED outcome
  /\ UNCHANGED <<inputs, index, tries, version, service, history>>

JudgeSubmissions(c) ==
  /\ place[c] = "submissions" /\ Answered(c)
  /\ IF All(c, Ended)
     THEN End(c, ExitIfSome(c, Ended \ {"finished"})) /\ UNCHANGED told
     ELSE Round(c) /\ UNCHANGED <<place, outcome>>
  /\ UNCHANGED <<inputs, index, tries, version, service, history>>

-----------------------------------------------------------------------------
(* The server, for as long as the command looks.                            *)

Watched(j) == place[j[1]] # "over" /\ flags[j[1]].wait

BuildEnds(j) ==
  /\ Watched(j) /\ build[j] = "active"
  /\ \E s \in Ended : build' = [build EXCEPT ![j] = s]
  /\ UNCHANGED <<inputs, command, latest, requests, submission, history>>

\* What is submitted is a finished build.
SubmissionEnds(j) ==
  /\ Watched(j) /\ submission[j] = "active" /\ build[j] # "active"
  /\ \E s \in Ended : /\ s = "finished" => build[j] = "finished"
                      /\ submission' = [submission EXCEPT ![j] = s]
  /\ UNCHANGED <<inputs, command, latest, requests, build, history>>

-----------------------------------------------------------------------------

Command(c) ==
  \/ ReadVersion(c) \/ WriteVersion(c) \/ WriteLost(c) \/ SendBuild(c) \/ SendLost(c)
  \/ Submit(c) \/ SubmitLost(c) \/ JudgeBuilds(c) \/ JudgeSubmissions(c)
  \/ \E p \in Platforms : Answer(c, p) \/ QueryFails(c, p)

ServerEnds(j) == BuildEnds(j) \/ SubmissionEnds(j)

BuildNext ==
  \/ \E c \in Invocations : Command(c) \/ Throw(c) \/ Interrupt(c)
  \/ \E j \in Jobs : ServerEnds(j)

BuildSpec == BuildInit /\ [][BuildNext]_buildVars

\* Every await ends, and every build and submission.
Fairness ==
  /\ \A c \in Invocations : WF_buildVars(Command(c))
  /\ \A j \in Jobs : WF_buildVars(ServerEnds(j))

FairSpec == BuildSpec /\ Fairness

-----------------------------------------------------------------------------
(* Properties.                                                             *)

\* No platform is built twice for one command, and no two builds with
\* autoIncrement have the same version, whatever is lost or repeated, as long as
\* no command wrote a version over one it had not read ("it increments the
\* version on server", build/android/version.ts:181).
VersionsDistinct ==
  /\ \A j \in Jobs : requests[j] <= 1
  /\ \A c, d \in DOMAIN flags : \A p \in Platforms \ raced :
       /\ c # d /\ flags[c].autoIncrement /\ flags[d].autoIncrement
       /\ requests[<<c, p>>] > 0 /\ requests[<<d, p>>] > 0
       => version[<<c, p>>] # version[<<d, p>>]

\* A command that succeeds has started what it was asked for and, when it waits,
\* no build has failed or is still to end, and everything was submitted, unless
\* all builds were canceled; one that exits with 1 has seen a failure.
ExitTellsOutcome ==
  \A c \in DOMAIN flags :
    LET builds == {build[<<c, p>>] : p \in Of(c)}
        submissions == {submission[<<c, p>>] : p \in Of(c)} IN
    /\ outcome[c] = "ok" =>
         /\ "none" \notin builds /\ (flags[c].autoSubmit => "none" \notin submissions)
         /\ flags[c].wait =>
              /\ builds \cap {"active", "errored"} = {}
              /\ flags[c].autoSubmit =>
                   submissions = {"finished"} \/ builds = {"canceled"}
    /\ outcome[c] = "exit1" =>
         "errored" \in builds \/ submissions \cap {"errored", "canceled"} # {}

\* A command that waits comes to its end, although a round in which a query fails
\* does not count, if no more queries fail from some time on.
WaitEnds ==
  \/ []<><<\E c \in Invocations, p \in Platforms : QueryFails(c, p)>>_buildVars
  \/ \A c \in Invocations : place[c] = "builds" ~> place[c] = "over"

=============================================================================
