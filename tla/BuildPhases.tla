----------------------------- MODULE BuildPhases -----------------------------
(***************************************************************************)
(* BuildContext.runBuildPhase of packages/build-tools: the one open build    *)
(* phase of a native build, its START_PHASE and END_PHASE markers, and the   *)
(* variables its scripts store with set-env, which are collected from a      *)
(* directory when the phase ends.                                            *)
(*                                                                          *)
(* A runner is a caller of runBuildPhase: the builder, which runs its phases *)
(* one after another, and finishAbort of the worker, which runs the on-cancel*)
(* hook as a phase while the builder is still at work.  Every await of the   *)
(* code is a point where the other runner may take steps.                    *)
(***************************************************************************)
EXTENDS Naturals, Sequences

CONSTANTS
  Runners,    \* the callers of runBuildPhase
  Phases,     \* the names of build phases
  Unmarked,   \* the phases whose START_PHASE the launcher has logged
  Plan,       \* Plan[r]: the phases r may run, in order
  Marking,    \* the phases that call markBuildPhaseSkipped and the like
  Names,      \* the names of variables that scripts store
  MaxWrites,  \* bound on the number of set-env calls
  NoPhase

Results == {"SUCCESS", "SKIPPED", "WARNING", "FAIL", "UNKNOWN"}
Marker  == [kind : {"START", "END"}, phase : Phases, result : Results \cup {"none"}]

ASSUME PhasesAssumption ==
  /\ Plan \in [Runners -> Seq(Phases)]
  /\ Unmarked \subseteq Phases
  /\ Marking \subseteq Phases
  /\ MaxWrites \in Nat
  /\ NoPhase \notin Phases

VARIABLES
  buildPhase, skipped, warned,  \* the fields of BuildContext
  env,      \* _env: the value of each name (0: none); values are numbered
  dir,      \* buildEnvsDirectory: the value in each file (0: no file)
  pc, at,   \* where a runner is in runBuildPhase, and in its plan
  result,   \* the result a runner reports
  failed,   \* a runner is in the catch of runBuildPhase
  todo, got,    \* collectAndUpdateEnvVariablesAsync: files to do, values read
  marks,    \* the markers logged
  writes,   \* the number of values stored so far
  stored,   \* history: the last value each runner stored under each name
  did       \* history: what the body of a runner's current phase did

context == <<buildPhase, skipped, warned, marks>>
files   == <<env, dir>>
collect == <<todo, got>>
history == <<writes, stored, did>>
vars    == <<context, files, pc, at, result, failed, collect, history>>

Start(p)  == [kind |-> "START", phase |-> p, result |-> "none"]
End(p, x) == [kind |-> "END", phase |-> p, result |-> x]
None      == [n \in Names |-> 0]

-----------------------------------------------------------------------------
(* The markers.                                                            *)

MarkStart(p) == IF p \in Unmarked THEN <<>> ELSE <<Start(p)>>

\* Fault: a phase that another one cuts off gets no END_PHASE.
SetBuildPhaseSilent(p) ==
  /\ buildPhase' = p
  /\ marks' = IF buildPhase = p THEN marks ELSE marks \o MarkStart(p)

SetBuildPhase(p) ==
  /\ buildPhase' = p
  /\ marks' = IF buildPhase = p THEN marks
              ELSE IF buildPhase = NoPhase THEN marks \o MarkStart(p)
              ELSE Append(marks, End(buildPhase, "UNKNOWN")) \o MarkStart(p)

\* Fault: the marks of a phase outlive it.
EndPhaseKeepingMarks(x) ==
  /\ marks' = Append(marks, End(buildPhase, x))
  /\ buildPhase' = NoPhase
  /\ UNCHANGED <<skipped, warned>>

EndPhase(x) ==
  /\ marks' = Append(marks, End(buildPhase, x))
  /\ buildPhase' = NoPhase
  /\ skipped' = FALSE
  /\ warned' = FALSE

\* endCurrentBuildPhaseAsync returns at once when no phase is open.
Close(r) == pc' = [pc EXCEPT ![r] = IF buildPhase = NoPhase THEN "idle" ELSE "list"]

\* An error on the way to the END_PHASE: in the try it leads to the catch, in
\* the catch it leaves runBuildPhase.
Thrown(r) == pc' = [pc EXCEPT ![r] = IF failed[r] THEN "idle" ELSE "handling"]

-----------------------------------------------------------------------------
(* runBuildPhase.                                                          *)

Init ==
  /\ buildPhase = NoPhase /\ skipped = FALSE /\ warned = FALSE
  /\ env = None /\ dir = None
  /\ pc = [r \in Runners |-> "idle"]
  /\ at = [r \in Runners |-> 0]
  /\ result = [r \in Runners |-> "SUCCESS"]
  /\ failed = [r \in Runners |-> FALSE]
  /\ todo = [r \in Runners |-> {}]
  /\ got = [r \in Runners |-> None]
  /\ marks = <<>>
  /\ writes = 0
  /\ stored = [r \in Runners |-> None]
  /\ did = [r \in Runners |-> {}]

\* Which of its phases a builder runs depends on the job, and an error takes
\* it to a later one.
Enter(r) ==
  /\ pc[r] = "idle"
  /\ \E k \in (at[r] + 1)..Len(Plan[r]) :
       /\ at' = [at EXCEPT ![r] = k]
       /\ SetBuildPhase(Plan[r][k])
  /\ pc' = [pc EXCEPT ![r] = "body"]
  /\ failed' = [failed EXCEPT ![r] = FALSE]
  /\ result' = [result EXCEPT ![r] = "SUCCESS"]
  /\ got' = [got EXCEPT ![r] = None]
  /\ did' = [did EXCEPT ![r] = {}]
  /\ UNCHANGED <<skipped, warned, files, todo, writes, stored>>

Leave(r) ==
  /\ pc[r] = "idle"
  /\ pc' = [pc EXCEPT ![r] = "over"]
  /\ UNCHANGED <<context, files, at, result, failed, collect, history>>

MarkSkipped(r) ==
  /\ pc[r] = "body" /\ Plan[r][at[r]] \in Marking
  /\ skipped' = TRUE
  /\ did' = [did EXCEPT ![r] = @ \cup {"skip"}]
  /\ UNCHANGED <<buildPhase, warned, marks, files, pc, at, result, failed, collect,
                 writes, stored>>

MarkHasWarnings(r) ==
  /\ pc[r] = "body" /\ Plan[r][at[r]] \in Marking
  /\ warned' = TRUE
  /\ did' = [did EXCEPT ![r] = @ \cup {"warn"}]
  /\ UNCHANGED <<buildPhase, skipped, marks, files, pc, at, result, failed, collect,
                 writes, stored>>

\* set-env, called by a script of the phase, overwrites the file of the name.
SetEnv(r, n) ==
  /\ pc[r] = "body"
  /\ writes < MaxWrites
  /\ writes' = writes + 1
  /\ dir' = [dir EXCEPT ![n] = writes']
  /\ stored' = [stored EXCEPT ![r][n] = writes']
  /\ UNCHANGED <<context, env, pc, at, result, failed, collect, did>>

Resolve == IF skipped THEN "SKIPPED" ELSE IF warned THEN "WARNING" ELSE "SUCCESS"

BodyReturns(r) ==
  /\ pc[r] = "body"
  /\ result' = [result EXCEPT ![r] = Resolve]
  /\ Close(r)
  /\ UNCHANGED <<context, files, at, failed, collect, history>>

BodyThrows(r) ==
  /\ pc[r] = "body"
  /\ pc' = [pc EXCEPT ![r] = "handling"]
  /\ did' = [did EXCEPT ![r] = @ \cup {"throw"}]
  /\ UNCHANGED <<context, files, at, result, failed, collect, writes, stored>>

\* Fault: the catch rethrows without ending the phase.
HandleErrorSilent(r) ==
  /\ pc[r] = "handling"
  /\ pc' = [pc EXCEPT ![r] = "idle"]
  /\ UNCHANGED <<context, files, at, result, failed, collect, history>>

\* The catch: the error is resolved from the phase's logs, then the phase ends.
HandleError(r) ==
  /\ pc[r] = "handling"
  /\ failed' = [failed EXCEPT ![r] = TRUE]
  /\ result' = [result EXCEPT ![r] = "FAIL"]
  /\ Close(r)
  /\ UNCHANGED <<context, files, at, collect, history>>

-----------------------------------------------------------------------------
(* collectAndUpdateEnvVariablesAsync: list the directory, read all files,   *)
(* remove them all, and only then merge what was read into _env.            *)

List(r) ==
  /\ pc[r] = "list"
  /\ todo' = [todo EXCEPT ![r] = {n \in Names : dir[n] # 0}]
  /\ got' = [got EXCEPT ![r] = None]
  /\ pc' = [pc EXCEPT ![r] = "read"]
  /\ UNCHANGED <<context, files, at, result, failed, history>>

ReadFile(r, n) ==
  /\ pc[r] = "read" /\ n \in todo[r] /\ dir[n] # 0
  /\ todo' = [todo EXCEPT ![r] = @ \ {n}]
  /\ got' = [got EXCEPT ![r][n] = dir[n]]
  /\ UNCHANGED <<context, files, pc, at, result, failed, history>>

\* Another collection has removed the file: readFile rejects with ENOENT.
FileGone(r, n) ==
  /\ pc[r] = "read" /\ n \in todo[r] /\ dir[n] = 0
  /\ Thrown(r)
  /\ UNCHANGED <<context, files, at, result, failed, collect, history>>

StartRemoving(r) ==
  /\ pc[r] = "read" /\ todo[r] = {}
  /\ todo' = [todo EXCEPT ![r] = {n \in Names : got[r][n] # 0}]
  /\ pc' = [pc EXCEPT ![r] = "remove"]
  /\ UNCHANGED <<context, files, at, result, failed, got, history>>

\* fs.remove does not mind a file that is gone already.
RemoveFile(r, n) ==
  /\ pc[r] = "remove" /\ n \in todo[r]
  /\ todo' = [todo EXCEPT ![r] = @ \ {n}]
  /\ dir' = [dir EXCEPT ![n] = 0]
  /\ UNCHANGED <<context, env, pc, at, result, failed, got, history>>

\* Fault: the values of the phase replace those of the phases before.
MergeReplacing(r) == env' = got[r]

Merge(r) == env' = [n \in Names |-> IF got[r][n] # 0 THEN got[r][n] ELSE env[n]]

\* Fault: an end that comes too late is logged all the same.
FinishAnyway(r) ==
  /\ pc[r] = "remove" /\ todo[r] = {}
  /\ Merge(r)
  /\ EndPhase(result[r])
  /\ pc' = [pc EXCEPT ![r] = "idle"]
  /\ UNCHANGED <<dir, at, result, failed, collect, history>>

\* The rest of endCurrentBuildPhaseAsync.  When another runner has closed the
\* phase meanwhile, the phase_duration metric reads a property of undefined.
Finish(r) ==
  /\ pc[r] = "remove" /\ todo[r] = {}
  /\ Merge(r)
  /\ IF buildPhase = NoPhase
     THEN /\ Thrown(r)
          /\ UNCHANGED context
     ELSE /\ EndPhase(result[r])
          /\ pc' = [pc EXCEPT ![r] = "idle"]
  /\ UNCHANGED <<dir, at, result, failed, collect, history>>

-----------------------------------------------------------------------------
Body(r) == \/ MarkSkipped(r) \/ MarkHasWarnings(r) \/ BodyReturns(r) \/ BodyThrows(r)
           \/ \E n \in Names : SetEnv(r, n)

CollectEnv(r) == \/ List(r) \/ StartRemoving(r) \/ Finish(r)
                 \/ \E n \in Names : ReadFile(r, n) \/ FileGone(r, n) \/ RemoveFile(r, n)

Terminated == \A r \in Runners : pc[r] = "over"

Next ==
  \/ \E r \in Runners : \/ Enter(r) \/ Leave(r) \/ Body(r)
                        \/ HandleError(r) \/ CollectEnv(r)
  \/ Terminated /\ UNCHANGED vars

Spec == Init /\ [][Next]_vars

-----------------------------------------------------------------------------
(* Properties.                                                             *)

\* Types of the variables.
TypeOK ==
  /\ buildPhase \in Phases \cup {NoPhase}
  /\ skipped \in BOOLEAN /\ warned \in BOOLEAN
  /\ env \in [Names -> 0..MaxWrites] /\ dir \in [Names -> 0..MaxWrites]
  /\ pc \in [Runners -> {"idle", "body", "handling", "list", "read", "remove", "over"}]
  /\ at \in [Runners -> Nat]
  /\ \A r \in Runners : at[r] <= Len(Plan[r])
  /\ result \in [Runners -> Results]
  /\ failed \in [Runners -> BOOLEAN]
  /\ todo \in [Runners -> SUBSET Names]
  /\ got \in [Runners -> [Names -> 0..MaxWrites]]
  /\ marks \in Seq(Marker)
  /\ writes \in 0..MaxWrites
  /\ stored \in [Runners -> [Names -> 0..MaxWrites]]
  /\ did \in [Runners -> SUBSET {"skip", "warn", "throw"}]

\* m may be the marker after l.
Opens(m)      == m.kind = "START" \/ m.phase \in Unmarked
Follows(l, m) == IF l.kind = "START" THEN m.kind = "END" /\ m.phase = l.phase ELSE Opens(m)

MarkersBracket ==
  /\ marks # <<>> => Opens(marks[1])
  /\ \A i \in 1..(Len(marks) - 1) : Follows(marks[i], marks[i + 1])

\* Among the markers of runBuildPhase every phase is started, and ended before
\* the next one starts, even when the on-cancel hook cuts into the builder's
\* phases: readers of the log group its lines by these markers.  And when all
\* runners are through, no phase is left open, whatever errors the collection of
\* the variables ran into.
LogClosed     == Terminated => buildPhase = NoPhase
LogWellFormed == MarkersBracket /\ LogClosed

\* What the end of a phase should say, given what its own body did.
Deserved(r) ==
  IF "throw" \in did[r] THEN "FAIL"
  ELSE IF "skip" \in did[r] THEN "SKIPPED"
  ELSE IF "warn" \in did[r] THEN "WARNING"
  ELSE "SUCCESS"

\* No other runner has started a phase yet.
Alone(r) == \A q \in Runners \ {r} : at[q] = 0

\* The END_PHASE of a phase tells its own story: no mark of an earlier phase
\* is left over, and an error is told whatever was marked before it.  The marks
\* of a build context are those of the phase that is open, so this says
\* nothing of two phases at once.
OwnResult(r) ==
  pc[r] = "remove" /\ pc'[r] = "idle" /\ marks' # marks =>
    marks'[Len(marks')] = End(Plan[r][at[r]], Deserved(r))

\* What the start of a phase by r may rely on: env holds every variable stored
\* in the phases of r before it, or a later value of the variable.
Reached(r) == \A n \in Names : stored[r][n] <= env[n]

\* The variables that a builder's phases store are there in its next phase, as
\* long as the on-cancel hook has not begun.
EnvReaches(r) == at'[r] # at[r] => Reached(r)

\* A phase keeps nothing of the one before it but the variables it stored.
PhasesHandOver ==
  [][\A r \in Runners : Alone(r) => OwnResult(r) /\ EnvReaches(r)]_vars
=============================================================================
