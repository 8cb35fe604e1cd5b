----------------------------- MODULE NativeBuild -----------------------------
(***************************************************************************)
(* The control flow of a native build (packages/build-tools): the phases of *)
(* the Android and iOS builders, the job's hooks around the install phase   *)
(* (runHookableBuildPhaseAsync), the clean-up of iOS credentials, and the   *)
(* package.json hooks around the whole (runBuilderWithHooksAsync).          *)
(*                                                                          *)
(* A phase is one step here that succeeds or fails and may store a variable *)
(* (BuildPhases models what happens inside), and so is a hook entry, whose  *)
(* conditions Workflow models.  Errors are named by the place they come     *)
(* from.                                                                    *)
(***************************************************************************)
EXTENDS Naturals, Sequences, SequencesExt

CONSTANTS
  PhasesOf,   \* PhasesOf[stage]: the phases of a stretch of the builder
  Entries,    \* Entries[side]: the hook entries around the install phase
  NoError

Stages   == {"setup", "rest", "guarded", "tail"}
Sides    == {"before", "after"}
Hooks    == {"onSuccess", "onError", "onComplete"}
Phases   == (UNION {Range(PhasesOf[g]) : g \in Stages}) \cup {"install", "cleanUp"} \cup Hooks
AllEntries == Range(Entries["before"]) \cup Range(Entries["after"])
Sources  == Phases \cup AllEntries
Errors   == Sources \cup {"parse", "skipNativeBuild"}

ASSUME BuildAssumption ==
  /\ PhasesOf \in [Stages -> Seq(STRING)]
  /\ Entries \in [Sides -> Seq(STRING)]
  /\ AllEntries \cap Phases = {}
  /\ NoError \notin Errors

\* A phase stands for the place of the builder that runs it.
ASSUME PlaceAssumption ==
  /\ \A g, h \in Stages : g # h => Range(PhasesOf[g]) \cap Range(PhasesOf[h]) = {}
  /\ \A g \in Stages : Range(PhasesOf[g]) \cap ({"install", "cleanUp"} \cup Hooks) = {}

VARIABLES
  ios,        \* the iOS builder runs, which cleans up credentials
  declared,   \* the job declares hooks
  pc, pos,    \* the stage or step of the builder, the next phase or entry in it
  err,        \* the error in flight
  env,        \* ctx.env: the places whose variables it holds
  parsed,     \* jobHooksRef.current is set
  side, hookEnv, sideErr,  \* the hook sequence that runs, its context's env, its firstError
  phaseErr,   \* phaseError of runHookableBuildPhaseAsync
  pending,    \* the step metrics being uploaded
  success,    \* buildSuccess
  status,     \* EAS_BUILD_STATUS given to the on-complete hook
  uploaded,   \* what the last phase uploaded
  stored,     \* history: the places that have stored a variable
  raised,     \* history: every error raised, in order
  ran         \* history: the phases and entries run, in order

hooks == <<side, hookEnv, sideErr, phaseErr, parsed, pending>>
ends  == <<success, status, uploaded>>
job   == <<ios, declared>>
vars  == <<job, pc, pos, err, env, hooks, ends, stored, raised, ran>>

-----------------------------------------------------------------------------
\* A phase may store variables, which reach ctx.env when it ends, either way.
Run(p) ==
  /\ ran' = Append(ran, p)
  /\ \E new \in {{}, {p}} : env' = env \cup new /\ stored' = stored \cup new

\* Fault: the credentials are cleaned up behind the last guarded phase only.
UnwindPastCleanUp == "drain"

\* An error leaves the builder by way of its finally blocks.
Unwind == IF pc = "guarded" /\ ios THEN "cleanUp" ELSE "drain"

Raise(e) == err' = e /\ raised' = Append(raised, e)

NextStage ==
  CASE pc = "setup"   -> "parse"
    [] pc = "rest"    -> "guarded"
    [] pc = "guarded" -> IF ios THEN "cleanUp" ELSE "tail"
    [] OTHER          -> "drain"

Init ==
  /\ ios \in BOOLEAN /\ declared \in BOOLEAN
  /\ pc = "setup" /\ pos = 1
  /\ err = NoError
  /\ env = {} /\ stored = {}
  /\ parsed = FALSE /\ pending = {}
  /\ side = "before" /\ hookEnv = {} /\ sideErr = NoError /\ phaseErr = NoError
  /\ success = TRUE /\ status = "none" /\ uploaded = {}
  /\ raised = <<>> /\ ran = <<>>

\* The next phase of a stage.
RunPhase ==
  /\ pc \in Stages /\ pos <= Len(PhasesOf[pc])
  /\ LET p == PhasesOf[pc][pos] IN
     \/ Run(p) /\ pos' = pos + 1 /\ UNCHANGED <<pc, err, raised>>
     \/ Run(p) /\ Raise(p) /\ pc' = Unwind /\ pos' = 1
  /\ UNCHANGED <<job, hooks, ends>>

\* skipNativeBuild stops the Android builder before the native build, the last
\* of the guarded phases, with an error that no phase raises.
SkipNativeBuild ==
  /\ pc = "guarded" /\ ~ios /\ pos = Len(PhasesOf[pc])
  /\ Raise("skipNativeBuild")
  /\ pc' = "drain" /\ pos' = 1
  /\ UNCHANGED <<job, env, hooks, ends, stored, ran>>

\* Fault: the place in the stage is kept.
EndStageNoReset ==
  /\ pc \in Stages /\ pos > Len(PhasesOf[pc])
  /\ pc' = NextStage
  /\ UNCHANGED <<job, pos, err, env, hooks, ends, stored, raised, ran>>

EndStage ==
  /\ pc \in Stages /\ pos > Len(PhasesOf[pc])
  /\ pc' = NextStage /\ pos' = 1
  /\ UNCHANGED <<job, err, env, hooks, ends, stored, raised, ran>>

-----------------------------------------------------------------------------
(* The hooks around the install phase.                                     *)

\* parseJobHooksAsync; it is not inside a phase.
ParseHooks ==
  /\ pc = "parse"
  /\ \/ parsed' = declared /\ pc' = "before" /\ UNCHANGED <<err, raised>>
     \/ declared /\ Raise("parse") /\ pc' = "drain" /\ UNCHANGED parsed
  /\ UNCHANGED <<job, pos, env, side, hookEnv, sideErr, phaseErr, pending, ends, stored, ran>>

\* What follows the before-hooks, and the after-hooks, when they are fine.
AfterSide(s) ==
  /\ pc' = IF s = "before" THEN "install" ELSE IF phaseErr # NoError THEN "drain" ELSE "rest"
  /\ err' = IF s = "after" THEN phaseErr ELSE err

NoEntries(s) == ~parsed \/ Entries[s] = <<>>

SkipSide(s) ==
  /\ pc = s /\ NoEntries(s)
  /\ AfterSide(s)
  /\ pos' = 1
  /\ UNCHANGED <<job, env, hooks, ends, stored, raised, ran>>

\* runHookEntriesAsync refreshes the hook context from the build context.
BeginSide(s) ==
  /\ pc = s /\ ~NoEntries(s)
  /\ pc' = "entries" /\ pos' = 1
  /\ side' = s /\ hookEnv' = env /\ sideErr' = NoError
  /\ UNCHANGED <<job, err, env, parsed, phaseErr, pending, ends, stored, raised, ran>>

\* An entry runs, or is skipped by its conditions; either way it may fail, as a
\* condition that cannot be evaluated does.  Entries after a failed one may run.
RunEntry ==
  /\ pc = "entries" /\ pos <= Len(Entries[side])
  /\ pos' = pos + 1
  /\ LET e == Entries[side][pos] IN
     /\ \/ UNCHANGED <<hookEnv, pending, stored, ran>>
        \/ /\ ran' = Append(ran, e)
           /\ pending' = pending \cup {e}
           /\ \E new \in {{}, {e}} : hookEnv' = hookEnv \cup new /\ stored' = stored \cup new
     /\ \/ UNCHANGED <<sideErr, raised>>
        \/ /\ sideErr' = IF sideErr = NoError THEN e ELSE sideErr
           /\ raised' = Append(raised, e)
  /\ UNCHANGED <<job, pc, err, env, parsed, side, phaseErr, ends>>

\* Fault: a failure is thrown before the env is written back.
WriteBackOnSuccess == IF sideErr = NoError THEN env \cup hookEnv ELSE env

WriteBack == env \cup hookEnv

\* Fault: an after-hook's error replaces the phase's.
WinnerLast == IF sideErr # NoError THEN sideErr ELSE phaseErr

\* What runHookableBuildPhaseAsync throws after its after-hooks.
Winner == IF phaseErr # NoError THEN phaseErr ELSE sideErr

EndSide ==
  /\ pc = "entries" /\ pos > Len(Entries[side])
  /\ env' = WriteBack
  /\ pos' = 1
  /\ IF side = "before"
     THEN IF sideErr # NoError THEN err' = sideErr /\ pc' = "drain"
                               ELSE AfterSide(side)
     ELSE err' = Winner /\ pc' = IF Winner # NoError THEN "drain" ELSE "rest"
  /\ UNCHANGED <<job, hooks, ends, stored, raised, ran>>

\* Fault: a failed phase is thrown at once, past the after-hooks.
InstallNoAfter ==
  /\ pc = "install"
  /\ Run("install")
  /\ \/ pc' = "after" /\ UNCHANGED <<err, raised>>
     \/ Raise("install") /\ pc' = "drain"
  /\ UNCHANGED <<job, pos, hooks, ends>>

Install ==
  /\ pc = "install"
  /\ Run("install")
  /\ pc' = "after"
  /\ \/ UNCHANGED <<phaseErr, raised>>
     \/ phaseErr' = "install" /\ raised' = Append(raised, "install")
  /\ UNCHANGED <<job, pos, err, side, hookEnv, sideErr, parsed, pending, ends>>

-----------------------------------------------------------------------------
(* The finally blocks and the package.json hooks.                          *)

CleanUpCredentials ==
  /\ pc = "cleanUp"
  /\ Run("cleanUp")
  /\ \/ pc' = (IF err = NoError THEN "tail" ELSE "drain") /\ UNCHANGED <<err, raised>>
     \/ Raise("cleanUp") /\ pc' = "drain"
  /\ pos' = 1
  /\ UNCHANGED <<job, hooks, ends>>

\* The finally of buildAsync awaits the uploads when the hooks were parsed.
DrainMetrics ==
  /\ pc = "drain"
  /\ pending' = IF parsed THEN {} ELSE pending
  /\ pc' = IF err = NoError THEN "onSuccess" ELSE "onError"
  /\ UNCHANGED <<job, pos, err, env, side, hookEnv, sideErr, phaseErr, parsed, ends, stored,
                 raised, ran>>

OnSuccess ==
  /\ pc = "onSuccess"
  /\ Run("onSuccess")
  /\ \/ pc' = "onComplete" /\ UNCHANGED <<err, raised>>
     \/ Raise("onSuccess") /\ pc' = "onError"
  /\ UNCHANGED <<job, pos, hooks, ends>>

\* Fault: buildSuccess stays true.
OnErrorForgets ==
  /\ pc = "onError"
  /\ Run("onError")
  /\ \/ UNCHANGED <<err, raised>>
     \/ Raise("onError")
  /\ pc' = "onComplete"
  /\ UNCHANGED <<job, pos, hooks, ends>>

\* An error of the on-error hook replaces the one it was run for.
OnError ==
  /\ pc = "onError"
  /\ Run("onError")
  /\ success' = FALSE
  /\ \/ UNCHANGED <<err, raised>>
     \/ Raise("onError")
  /\ pc' = "onComplete"
  /\ UNCHANGED <<job, pos, hooks, status, uploaded>>

Status == IF success THEN "finished" ELSE "errored"

OnComplete ==
  /\ pc = "onComplete"
  /\ Run("onComplete")
  /\ status' = Status
  /\ \/ pc' = "upload" /\ UNCHANGED <<err, raised>>
     \/ Raise("onComplete") /\ pc' = "over"
  /\ UNCHANGED <<job, pos, hooks, success, uploaded>>

\* Errors of the uploads are logged, never thrown.
Upload ==
  /\ pc = "upload"
  /\ uploaded' = {"artifacts"} \cup (IF success THEN {"sourceMap"} ELSE {})
                               \cup (IF ios THEN {"xcodeLogs"} ELSE {})
  /\ pc' = "over"
  /\ UNCHANGED <<job, pos, err, env, hooks, success, status, stored, raised, ran>>

-----------------------------------------------------------------------------
Next ==
  \/ RunPhase \/ SkipNativeBuild \/ EndStage
  \/ ParseHooks \/ (\E s \in Sides : SkipSide(s) \/ BeginSide(s))
  \/ RunEntry \/ EndSide \/ Install
  \/ CleanUpCredentials \/ DrainMetrics
  \/ OnSuccess \/ OnError \/ OnComplete \/ Upload
  \/ pc = "over" /\ UNCHANGED vars

Spec == Init /\ [][Next]_vars

-----------------------------------------------------------------------------
(* Properties.                                                             *)

\* Types of the variables.
TypeOK ==
  /\ ios \in BOOLEAN /\ declared \in BOOLEAN /\ parsed \in BOOLEAN /\ success \in BOOLEAN
  /\ pc \in Stages \cup Sides \cup Hooks
            \cup {"parse", "entries", "install", "cleanUp", "drain", "upload", "over"}
  /\ pos \in Nat \ {0}
  /\ pc \in Stages => pos <= Len(PhasesOf[pc]) + 1
  /\ pc = "entries" => pos <= Len(Entries[side]) + 1
  /\ err \in Errors \cup {NoError}
  /\ side \in Sides
  /\ sideErr \in AllEntries \cup {NoError} /\ phaseErr \in {"install", NoError}
  /\ env \subseteq Sources /\ hookEnv \subseteq Sources /\ stored \subseteq Sources
  /\ pending \subseteq AllEntries
  /\ status \in {"none", "finished", "errored"}
  /\ uploaded \subseteq {"artifacts", "sourceMap", "xcodeLogs"}
  /\ raised \in Seq(Errors) /\ ran \in Seq(Sources)

\* Whatever runs next, a phase, a hook entry or a package.json hook, sees every
\* variable stored before, also after a failure ("env set by the entries that
\* did run must reach the build context even when a later entry failed").
EnvComplete == stored = IF pc = "entries" THEN hookEnv ELSE env

\* The finalizers of the build, whose own errors replace the error they were
\* run for.
Finalizers == {"cleanUp", "onSuccess", "onError", "onComplete"}

\* The error to report: the one that came first, unless a finalizer failed;
\* then the last one that did.
Reported ==
  IF raised = <<>> THEN NoError
  ELSE IF Last(raised) \in Finalizers THEN Last(raised) ELSE raised[1]

\* The build reports the first error, among before-hooks, phase and after-hooks
\* too ("The phase error always wins over an after-hook error"), unless a
\* finalizer failed.
ReportsFirstError == pc = "over" => err = Reported

\* The builder's finally blocks are through before the package.json hooks run
\* and the build is reported, whichever phase or hook failed: an iOS builder
\* that began to prepare credentials has cleaned them up before anything else
\* happens, and the metric uploads of the hooks are over ("so the builder's
\* finally can drain queued metric uploads even if setup fails partway through").
CredentialsCleanedUp ==
  (ios /\ pc \notin {"guarded", "cleanUp"} /\ Range(PhasesOf["guarded"]) \cap Range(ran) # {})
    => "cleanUp" \in Range(ran)
MetricsDrained == pc \in Hooks \cup {"upload", "over"} => pending = {}
FinallyBlocksRun == CredentialsCleanedUp /\ MetricsDrained

\* The after-hooks are run exactly when the phase was, failed or not: a failing
\* before-hook skips both ("after-on-failure guaranteed").
AfterHooksFollowPhase ==
  pc = "over" => ((side = "after") <=> ("install" \in Range(ran) /\ ~NoEntries("after")))

\* The on-complete hook is told the outcome that the build reports, unless the
\* hook itself fails; the artifacts are uploaded unless it does, and source maps
\* only for a build without error.
OutcomeTold ==
  pc = "over" =>
    /\ status # "none"
    /\ (status = "finished") <=> (Range(raised) \subseteq {"onComplete"})
    /\ (uploaded = {}) <=> ("onComplete" \in Range(raised))
    /\ "sourceMap" \in uploaded => err = NoError

\* What has to run after a failure runs, no more than that, and is told of it.
CleanUpRuns == FinallyBlocksRun /\ AfterHooksFollowPhase /\ OutcomeTold
=============================================================================
