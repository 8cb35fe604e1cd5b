------------------------------ MODULE Workflow ------------------------------
(***************************************************************************)
(* The job executor of packages/steps: BuildWorkflow.executeAsync, which    *)
(* runs the steps of a job in order, and executeHookStepsAsync, which runs  *)
(* the hook entries around an anchored step.                                *)
(*                                                                          *)
(* The job is given by constants: the anchor of each occurrence, its hook   *)
(* entries, and the composite-function scopes a step lies in.  What a step  *)
(* does is abstracted to how it ends, and an `if:` to a class of            *)
(* conditions; which condition a step, an entry or a composite call carries *)
(* is chosen in Init, so that one run covers every mix of them.             *)
(***************************************************************************)
EXTENDS Naturals, Sequences, Functions

CONSTANTS
  Steps,         \* every BuildStep of the job, hook steps included
  N,             \* number of occurrences (length of buildSteps)
  Anchor,        \* Anchor[i] is buildSteps[i]
  Entries,       \* the hook entries
  EntrySteps,    \* EntrySteps[e]: the steps of entry e, in order
  Hooks,         \* Hooks[i][timing]: the entries around occurrence i
  Scopes,        \* the composite-function calls
  ScopeChain,    \* ScopeChain[s]: the calls around step s, outermost first
  OutputNodes,   \* the CompositeBuildSteps among Steps
  Children,      \* Children[o]: the authored steps below output node o
  StepIfs,       \* StepIfs[s]: the conditions step s may carry
  EntryIfs,      \* EntryIfs[e]: the conditions entry e may carry
  ScopeIfs,      \* ScopeIfs[sc]: the conditions the call sc may carry
  NoError

Timings  == {"before", "after"}
Outcomes == {"true", "false", "throw"}
Conds    == {"none", "always", "never", "success", "failure", "expr"}
Errors   == ({"gate", "run"} \X Steps) \cup ({"entry"} \X Entries)

ASSUME PlanAssumption ==
  /\ N \in Nat
  /\ Anchor \in [1..N -> Steps]
  /\ EntrySteps \in [Entries -> Seq(Steps)]
  /\ Hooks \in [1..N -> [Timings -> Seq(Entries)]]
  /\ ScopeChain \in [Steps -> Seq(Scopes)]
  /\ OutputNodes \subseteq Steps
  /\ Children \in [OutputNodes -> SUBSET Steps]
  /\ StepIfs \in [Steps -> SUBSET Conds]
  /\ EntryIfs \in [Entries -> SUBSET Conds]
  /\ ScopeIfs \in [Scopes -> SUBSET Conds]
  /\ NoError \notin Errors

\* Parsing makes an object for every place in the job: the hooks of an occurrence
\* are constructed for it alone, and a call's steps and outputs node for the call.
ASSUME PlaceAssumption ==
  /\ \A i, j \in 1..N : Anchor[i] = Anchor[j] => i = j
  /\ \A i \in 1..N, e \in Entries : Anchor[i] \notin Range(EntrySteps[e])
  /\ \A e \in Entries : \E i \in 1..N, t \in Timings : e \in Range(Hooks[i][t])
  /\ \A i, j \in 1..N, t, u \in Timings :
       \A k \in DOMAIN Hooks[i][t], m \in DOMAIN Hooks[j][u] :
         Hooks[i][t][k] = Hooks[j][u][m] => i = j /\ t = u /\ k = m
  /\ \A d, e \in Entries :
       \A p \in DOMAIN EntrySteps[d], q \in DOMAIN EntrySteps[e] :
         EntrySteps[d][p] = EntrySteps[e][q] => d = e /\ p = q
  /\ \A o \in OutputNodes : /\ ScopeChain[o] # <<>>
                            /\ \A s \in Steps \ {o} :
                                 ScopeChain[s] = ScopeChain[o] => s \in Children[o]

VARIABLES
  stepIf, entryIf, scopeIf,   \* the conditions, fixed once chosen
  active,       \* cachedIsActive of each composite call
  phase, occ,   \* where executeAsync is: the part of the occurrence, its index
  ent, pos,     \* where executeHookStepsAsync is: entry and step (0: its gate)
  status,       \* BuildStep.status
  result,       \* the stepResult an executed step reported, or "none"
  ctxFailed,    \* BuildStepGlobalContext._hasAnyPreviousStepFailed
  hasFailed, firstError,                      \* locals of executeAsync
  sideFailed, sideError, entryFailed, ranAny, \* locals of executeHookStepsAsync
  anchorFailed,
  hookMetrics,  \* the WorkflowHookMetric events reported
  failures      \* history: every error thrown, in order

plan   == <<stepIf, entryIf, scopeIf>>
flow   == <<phase, occ, ent, pos>>
local  == <<sideFailed, sideError, entryFailed, ranAny>>
job    == <<hasFailed, firstError>>
vars   == <<plan, active, flow, status, result, ctxFailed, job, local,
            anchorFailed, hookMetrics, failures>>

-----------------------------------------------------------------------------
(* Conditions.                                                             *)

\* What an explicit `if:` can evaluate to in the global context.
Explicit(c) ==
  CASE c = "always"  -> {"true"}
    [] c = "never"   -> {"false"}
    [] c = "success" -> {IF ctxFailed THEN "false" ELSE "true"}
    [] c = "failure" -> {IF ctxFailed THEN "true" ELSE "false"}
    [] OTHER         -> Outcomes

\* A step's or a call's condition: evaluating it also resolves the step's
\* inputs or the call's env templates, which may throw; without an `if:`
\* nothing is evaluated and the default of the place decides.
Eval(c, runByDefault) ==
  IF c = "none" THEN {IF runByDefault THEN "true" ELSE "false"}
                ELSE Explicit(c) \cup {"throw"}

\* The chain of calls around s is walked from the outermost one; ev says what
\* each call's condition would evaluate to now, a memoized answer wins.
CallValue(sc, ev) == IF active[sc] = "unset" THEN ev[sc] ELSE active[sc]

\* Fault: only the innermost call is asked, not the calls around it.
ReachedInnermost(s, ev) ==
  {ScopeChain[s][k] : k \in {k \in DOMAIN ScopeChain[s] : k = Len(ScopeChain[s])}}

Reached(s, ev) ==
  LET chain == ScopeChain[s]
  IN {chain[k] : k \in {k \in DOMAIN chain :
                          \A j \in 1..(k-1) : CallValue(chain[j], ev) = "true"}}

IsActive(s, ev) ==
  IF \A sc \in Reached(s, ev) : CallValue(sc, ev) = "true" THEN "true"
  ELSE IF \E sc \in Reached(s, ev) : CallValue(sc, ev) = "throw" THEN "throw"
  ELSE "false"

\* Fault: isActive evaluates the call's `if:` anew for every step.
MemoizedNever(s, ev) == active

\* A throw is not memoized: ??= assigns only a value that was returned.
Memoized(s, ev) ==
  [sc \in Scopes |->
     IF sc \in Reached(s, ev) /\ CallValue(sc, ev) # "throw"
     THEN CallValue(sc, ev) ELSE active[sc]]

WasExecuted(s) == result[s] # "none"

OwnGate(s, runByDefault) ==
  IF s \in OutputNodes
  THEN {IF runByDefault \/ \E c \in Children[s] : WasExecuted(c)
        THEN "true" ELSE "false", "throw"}
  ELSE Eval(stepIf[s], runByDefault)

\* BuildStep.shouldExecuteStep: r is returned ("true", "false") or thrown.
ShouldExecute(s, runByDefault, r) ==
  \E ev \in [Scopes -> Outcomes] :
    /\ \A sc \in Scopes : ev[sc] \in Eval(scopeIf[sc], runByDefault)
    /\ active' = Memoized(s, ev)
    /\ IF IsActive(s, ev) = "true" THEN r \in OwnGate(s, runByDefault)
                                   ELSE r = IsActive(s, ev)

-----------------------------------------------------------------------------
(* Recording failures.                                                     *)

\* Fault: the latest error overwrites the first one.
RecordJobFailureLast(e) ==
  /\ hasFailed' = TRUE /\ firstError' = e /\ ctxFailed' = TRUE

\* recordFailure of executeAsync, for an error already in the history.
RecordJobFailure(e) ==
  /\ hasFailed'  = TRUE
  /\ firstError' = IF hasFailed THEN firstError ELSE e
  /\ ctxFailed'  = TRUE

\* recordFailure of executeHookStepsAsync.
RecordSideFailure(e) ==
  /\ sideFailed' = TRUE
  /\ sideError'  = IF sideFailed THEN sideError ELSE e
  /\ ctxFailed'  = TRUE

Thrown(e) == failures' = Append(failures, e)

Skip(S) == status' = [s \in Steps |-> IF s \in S THEN "skipped" ELSE status[s]]

StepsOf(entries) == UNION {Range(EntrySteps[e]) : e \in Range(entries)}

\* Fault: the hooks after a skipped anchor are forgotten.
OccurrenceWithoutAfter == {Anchor[occ]} \cup StepsOf(Hooks[occ].before)

\* The steps skipped with an anchor whose gate does not answer true.
WholeOccurrence ==
  {Anchor[occ]} \cup StepsOf(Hooks[occ].before) \cup StepsOf(Hooks[occ].after)

\* The steps skipped when the before-side has failed.
AnchorAndAfter == {Anchor[occ]} \cup StepsOf(Hooks[occ].after)

\* BuildStep.executeAsync seen from the workflow: it returns, or throws with
\* status "fail", or throws with status "success" because collecting the
\* outputs of a step that succeeded failed.
Ends == {"ok", "fail", "collect"}

Execute(s, end) ==
  /\ status' = [status EXCEPT ![s] = IF end = "fail" THEN "fail" ELSE "success"]
  /\ result' = [result EXCEPT ![s] = IF end = "ok" THEN "success" ELSE "failed"]

-----------------------------------------------------------------------------
Init ==
  /\ stepIf  \in {f \in [Steps -> Conds]   : \A s \in Steps   : f[s] \in StepIfs[s]}
  /\ entryIf \in {f \in [Entries -> Conds] : \A e \in Entries : f[e] \in EntryIfs[e]}
  /\ scopeIf \in {f \in [Scopes -> Conds]  : \A c \in Scopes  : f[c] \in ScopeIfs[c]}
  /\ active = [sc \in Scopes |-> "unset"]
  /\ phase = "gate" /\ occ = 1 /\ ent = 1 /\ pos = 0
  /\ status = [s \in Steps |-> "new"]
  /\ result = [s \in Steps |-> "none"]
  /\ ctxFailed = FALSE /\ hasFailed = FALSE /\ firstError = NoError
  /\ sideFailed = FALSE /\ sideError = NoError
  /\ entryFailed = FALSE /\ ranAny = FALSE /\ anchorFailed = FALSE
  /\ hookMetrics = {}
  /\ failures = <<>>

StartSide(timing) ==
  /\ phase' = timing
  /\ ent' = 1 /\ pos' = 0
  /\ sideFailed' = FALSE /\ sideError' = NoError
  /\ entryFailed' = FALSE /\ ranAny' = FALSE
  /\ UNCHANGED occ

NextOccurrence ==
  /\ phase' = "gate" /\ occ' = occ + 1
  /\ UNCHANGED <<ent, pos>>

-----------------------------------------------------------------------------
(* The occurrence loop of executeAsync.                                    *)

AtGate == phase = "gate" /\ occ <= N

\* The anchor's gate answers true: its before-hooks start.
EnterOccurrence ==
  /\ AtGate
  /\ ShouldExecute(Anchor[occ], ~ctxFailed, "true")
  /\ StartSide("before")
  /\ UNCHANGED <<plan, status, result, ctxFailed, job, anchorFailed,
                 hookMetrics, failures>>

\* The gate answers false or throws: the anchor and all its hooks are skipped.
SkipOccurrence ==
  /\ AtGate
  /\ \E r \in {"false", "throw"} :
       /\ ShouldExecute(Anchor[occ], ~ctxFailed, r)
       /\ IF r = "throw"
          THEN /\ RecordJobFailure(<<"gate", Anchor[occ]>>)
               /\ Thrown(<<"gate", Anchor[occ]>>)
          ELSE UNCHANGED <<job, ctxFailed, failures>>
  /\ Skip(WholeOccurrence)
  /\ NextOccurrence
  /\ UNCHANGED <<plan, result, local, anchorFailed, hookMetrics>>

RunAnchor(end) ==
  /\ phase = "anchor"
  /\ Execute(Anchor[occ], end)
  /\ anchorFailed' = (end # "ok")
  /\ IF end = "ok"
     THEN UNCHANGED <<job, ctxFailed, failures>>
     ELSE /\ RecordJobFailure(<<"run", Anchor[occ]>>)
          /\ Thrown(<<"run", Anchor[occ]>>)
  /\ StartSide("after")
  /\ UNCHANGED <<plan, active, hookMetrics>>

Finish ==
  /\ phase = "gate" /\ occ = N + 1
  /\ phase' = "done"
  /\ UNCHANGED <<plan, active, occ, ent, pos, status, result, ctxFailed, job,
                 local, anchorFailed, hookMetrics, failures>>

-----------------------------------------------------------------------------
(* The entry and step loops of executeHookStepsAsync.                      *)

InSide     == phase \in Timings
SideAt(i)  == Hooks[i][phase]
MoreEntries == InSide /\ ent <= Len(SideAt(occ))
Entry      == SideAt(occ)[ent]
HookStep   == EntrySteps[Entry][pos]

\* Fault: the step loop runs one index too far.
GoToPastEnd(p) ==
  /\ IF p <= Len(EntrySteps[Entry]) + 1
     THEN ent' = ent /\ pos' = p
     ELSE ent' = ent + 1 /\ pos' = 0
  /\ UNCHANGED <<phase, occ>>

\* Go to step p of the entry, or to the next entry when there is none.
GoTo(p) ==
  /\ IF p <= Len(EntrySteps[Entry])
     THEN ent' = ent /\ pos' = p
     ELSE ent' = ent + 1 /\ pos' = 0
  /\ UNCHANGED <<phase, occ>>

AtEntryGate == MoreEntries /\ pos = 0
AtHookStep  == MoreEntries /\ pos # 0

EntryGate == IF entryIf[Entry] = "none" THEN {"true"} ELSE Explicit(entryIf[Entry])

EnterEntry ==
  /\ AtEntryGate
  /\ "true" \in EntryGate
  /\ entryFailed' = FALSE
  /\ GoTo(1)
  /\ UNCHANGED <<plan, active, status, result, ctxFailed, job, sideFailed,
                 sideError, ranAny, anchorFailed, hookMetrics, failures>>

SkipEntry ==
  /\ AtEntryGate
  /\ \E r \in EntryGate \ {"true"} :
       IF r = "throw"
       THEN RecordSideFailure(<<"entry", Entry>>) /\ Thrown(<<"entry", Entry>>)
       ELSE UNCHANGED <<sideFailed, sideError, ctxFailed, failures>>
  /\ Skip(Range(EntrySteps[Entry]))
  /\ ent' = ent + 1
  /\ UNCHANGED <<plan, active, phase, occ, pos, result, job, entryFailed,
                 ranAny, anchorFailed, hookMetrics>>

\* Fault: every entry respects the failures of the whole side.
ScopedFailureSideWide == sideFailed

\* The failure that a step without `if:` respects on this side.
ScopedFailure ==
  IF phase = "after" \/ entryIf[Entry] # "none" THEN entryFailed ELSE sideFailed

SkipHookStep ==
  /\ AtHookStep
  /\ \E r \in {"false", "throw"} :
       /\ ShouldExecute(HookStep, ~ScopedFailure, r)
       /\ IF r = "throw"
          THEN /\ RecordSideFailure(<<"gate", HookStep>>)
               /\ Thrown(<<"gate", HookStep>>)
               /\ entryFailed' = TRUE
          ELSE UNCHANGED <<sideFailed, sideError, entryFailed, ctxFailed, failures>>
  /\ Skip({HookStep})
  /\ GoTo(pos + 1)
  /\ UNCHANGED <<plan, result, job, ranAny, anchorFailed, hookMetrics>>

RunHookStep(end) ==
  /\ AtHookStep
  /\ ShouldExecute(HookStep, ~ScopedFailure, "true")
  /\ Execute(HookStep, end)
  /\ ranAny' = (ranAny \/ HookStep \notin OutputNodes)
  /\ IF end = "ok"
     THEN UNCHANGED <<sideFailed, sideError, entryFailed, ctxFailed, failures>>
     ELSE /\ RecordSideFailure(<<"run", HookStep>>)
          /\ Thrown(<<"run", HookStep>>)
          /\ entryFailed' = TRUE
  /\ GoTo(pos + 1)
  /\ UNCHANGED <<plan, job, anchorFailed, hookMetrics>>

SideDone(timing) == phase = timing /\ ent > Len(SideAt(occ))

\* Fault: after-metrics are tagged with the global outcome so far.
AnchorResultGlobal ==
  IF phase = "before" THEN "none" ELSE IF ctxFailed THEN "failed" ELSE "success"

AnchorResult ==
  IF phase = "before" THEN "none" ELSE IF anchorFailed THEN "failed" ELSE "success"

\* One metric for a side in which an authored step was executed.
ReportSide ==
  hookMetrics' =
    IF ranAny
    THEN hookMetrics \cup
           {[occ |-> occ, timing |-> phase,
             result |-> IF sideFailed THEN "failed" ELSE "success",
             anchorResult |-> AnchorResult]}
    ELSE hookMetrics

\* Fault: only the last before-entry is asked.
AnchorBlockedByLastEntry == entryFailed

AnchorBlocked == sideFailed

\* A failed before-side skips the anchor and its after-hooks.
EndBefore ==
  /\ SideDone("before")
  /\ ReportSide
  /\ IF AnchorBlocked
     THEN /\ RecordJobFailure(sideError)
          /\ Skip(AnchorAndAfter)
          /\ NextOccurrence
     ELSE /\ phase' = "anchor"
          /\ UNCHANGED <<job, ctxFailed, status, occ, ent, pos>>
  /\ UNCHANGED <<plan, active, result, local, anchorFailed, failures>>

EndAfter ==
  /\ SideDone("after")
  /\ ReportSide
  /\ IF sideFailed THEN RecordJobFailure(sideError)
                   ELSE UNCHANGED <<job, ctxFailed>>
  /\ NextOccurrence
  /\ UNCHANGED <<plan, active, status, result, local, anchorFailed, failures>>

Terminated == phase = "done" /\ UNCHANGED vars

Next ==
  \/ EnterOccurrence \/ SkipOccurrence \/ Finish
  \/ \E end \in Ends : RunAnchor(end) \/ RunHookStep(end)
  \/ EnterEntry \/ SkipEntry \/ SkipHookStep
  \/ EndBefore \/ EndAfter
  \/ Terminated

Spec == Init /\ [][Next]_vars

-----------------------------------------------------------------------------
(* Properties.                                                             *)

SideResult == {"success", "failed"}

HookMetric == [occ : 1..N, timing : Timings, result : SideResult,
               anchorResult : SideResult \cup {"none"}]

TypeOK ==
  /\ stepIf \in [Steps -> Conds]
  /\ entryIf \in [Entries -> Conds]
  /\ scopeIf \in [Scopes -> Conds]
  /\ active \in [Scopes -> {"unset", "true", "false"}]
  /\ phase \in {"gate", "anchor", "done"} \cup Timings
  /\ occ \in 1..(N + 1) /\ ent \in Nat \ {0} /\ pos \in Nat
  /\ phase \in Timings \cup {"anchor"} => occ \in 1..N
  /\ pos # 0 => MoreEntries /\ pos \in DOMAIN EntrySteps[Entry]
  /\ status \in [Steps -> {"new", "success", "fail", "skipped"}]
  /\ result \in [Steps -> SideResult \cup {"none"}]
  /\ ctxFailed \in BOOLEAN /\ hasFailed \in BOOLEAN /\ sideFailed \in BOOLEAN
  /\ entryFailed \in BOOLEAN /\ ranAny \in BOOLEAN /\ anchorFailed \in BOOLEAN
  /\ firstError \in Errors \cup {NoError}
  /\ sideError \in Errors \cup {NoError}
  /\ hookMetrics \subseteq HookMetric
  /\ failures \in Seq(Errors)

\* executeAsync rejects exactly when something failed anywhere in the job, in
\* a gate, a step, a hook or an entry condition, and it rejects with the
\* earliest of those errors: a hook's failure is not lost between the two
\* functions, and no later error outranks an earlier one.
RejectsWithFirstError ==
  phase = "done" =>
    IF failures = <<>> THEN ~hasFailed
                       ELSE hasFailed /\ firstError = failures[1]

Plain(s) == stepIf[s] = "none" /\ ScopeChain[s] = <<>>

\* Hooks run around an anchor that runs: no after-hook is executed unless the
\* anchor was, and no anchor is executed past a before-hook that failed.
HooksBracket(i) ==
  /\ \A s \in StepsOf(Hooks[i].after)  : WasExecuted(s) => WasExecuted(Anchor[i])
  /\ \A s \in StepsOf(Hooks[i].before) :
       result[s] = "failed" => ~WasExecuted(Anchor[i])

\* Next to an anchor that was executed, every before-hook without `if:` was
\* executed whatever had failed before the anchor, and every after-entry without
\* `if:` at least started, whatever the anchor and the other after-entries did.
PlainHooksRun(i) ==
  WasExecuted(Anchor[i]) =>
    /\ \A e \in Range(Hooks[i].before) : entryIf[e] = "none" =>
         \A s \in Range(EntrySteps[e]) : Plain(s) => WasExecuted(s)
    /\ \A e \in Range(Hooks[i].after) :
         entryIf[e] = "none" /\ EntrySteps[e] # <<>> /\ Plain(EntrySteps[e][1])
           => WasExecuted(EntrySteps[e][1])

\* The hook metrics tell what happened: once per side that executed an authored
\* step, failed whenever a step of the side failed, and tagged with how the
\* anchor of the same occurrence ended.
MetricsMatchOutcome ==
  /\ \A m \in hookMetrics :
       /\ \E s \in StepsOf(Hooks[m.occ][m.timing]) \ OutputNodes : WasExecuted(s)
       /\ (\E s \in StepsOf(Hooks[m.occ][m.timing]) : result[s] = "failed")
            => m.result = "failed"
       /\ m.anchorResult = IF m.timing = "after" THEN result[Anchor[m.occ]] ELSE "none"
  /\ phase = "done" =>
       \A i \in 1..N, t \in Timings :
         (\E s \in StepsOf(Hooks[i][t]) \ OutputNodes : WasExecuted(s))
           => \E m \in hookMetrics : m.occ = i /\ m.timing = t

\* Hooks follow their anchor, in both directions: they run only around an
\* anchor that runs, by default they run whenever it does, and the metrics tell
\* the truth of both.
HooksFollowAnchor ==
  /\ \A i \in 1..N : HooksBracket(i) /\ (phase = "done" => PlainHooksRun(i))
  /\ MetricsMatchOutcome

\* Nothing inside a call runs once its `if:` has answered false, at any depth:
\* neither its steps, nor those of the calls nested in it, nor its outputs.
DeniedCallRunsNothing ==
  \A s \in Steps : \A k \in DOMAIN ScopeChain[s] :
    active[ScopeChain[s][k]] = "false" => ~WasExecuted(s)

\* s and t belong to the same composite call, and s comes first.
SameCall(s, t) ==
  /\ ScopeChain[s] # <<>> /\ ScopeChain[s] = ScopeChain[t]
  /\ \/ \E i, j \in 1..N : i < j /\ Anchor[i] = s /\ Anchor[j] = t
                           /\ Hooks[j].before = <<>>
     \/ \E e \in Entries : \E k, m \in DOMAIN EntrySteps[e] :
          k < m /\ EntrySteps[e][k] = s /\ EntrySteps[e][m] = t

GateThrew(s) == \E k \in DOMAIN failures : failures[k] = <<"gate", s>>

\* Once a call's `if:` let one of its steps run, a failure in the middle of the
\* call does not flip it: a later always() step of the call still runs.
PassedCallStaysPassed ==
  \A s, t \in Steps :
    SameCall(s, t) /\ WasExecuted(s) /\ stepIf[t] = "always"
      => WasExecuted(t) \/ GateThrew(t)

\* The `if:` of a call is answered once for all of its steps.  (Not when it
\* throws: then the next step of the call asks again.)
CallGateHolds == DeniedCallRunsNothing /\ (phase = "done" => PassedCallStaysPassed)

\* Once a step was executed or skipped it is never decided again, although two
\* loops of executeAsync skip the hooks of an anchor wholesale; when the job ends
\* every step is shown as one or the other; and no step runs, or is left out,
\* against the answer given once for the call it belongs to.
Undecided(s) == status[s] = "new"
JobSteps(i)  == {Anchor[i]} \cup StepsOf(Hooks[i].before) \cup StepsOf(Hooks[i].after)
AllDecided   == \A i \in 1..N : \A s \in JobSteps(i) : ~Undecided(s)
DecidedOnce ==
  [][/\ \A s \in Steps : ~Undecided(s) =>
          status'[s] = status[s] /\ result'[s] = result[s]
     /\ phase' = "done" => AllDecided'
     /\ CallGateHolds']_vars

=============================================================================
