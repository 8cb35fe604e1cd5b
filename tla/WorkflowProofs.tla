--------------------------- MODULE WorkflowProofs ---------------------------
(***************************************************************************)
(* Proofs about Workflow, for every job: any number of occurrences, hooks,   *)
(* entries, steps and composite calls.                                      *)
(*   IInv   typing, and who holds the first error          (RejectsCorrectly) *)
(*   HInv   the place of every step, and what has run      (HooksFollow)      *)
(*   CInv   the answers of the composite calls             (DecidesOnce)      *)
(***************************************************************************)
EXTENDS Workflow, WellFoundedInduction, TLAPS

-----------------------------------------------------------------------------
(* Typing, in parts, so that each action only has to look at what it changes. *)

\* Where executeAsync stands is a place of the job.
FlowOK ==
  /\ phase \in {"gate", "anchor", "done"} \cup Timings
  /\ occ \in 1..(N + 1) /\ ent \in Nat \ {0} /\ pos \in Nat
  /\ phase \in Timings \cup {"anchor"} => occ \in 1..N
  /\ pos # 0 => MoreEntries /\ pos \in DOMAIN EntrySteps[Entry]

PlanOK ==
  /\ stepIf \in [Steps -> Conds]
  /\ entryIf \in [Entries -> Conds]
  /\ scopeIf \in [Scopes -> Conds]

StepsOK ==
  /\ status \in [Steps -> {"new", "success", "fail", "skipped"}]
  /\ result \in [Steps -> SideResult \cup {"none"}]

FlagsOK ==
  /\ ctxFailed \in BOOLEAN /\ hasFailed \in BOOLEAN /\ sideFailed \in BOOLEAN
  /\ entryFailed \in BOOLEAN /\ ranAny \in BOOLEAN /\ anchorFailed \in BOOLEAN

ErrorsOK ==
  /\ firstError \in Errors \cup {NoError}
  /\ sideError \in Errors \cup {NoError}
  /\ failures \in Seq(Errors)

ActiveOK  == active \in [Scopes -> {"unset", "true", "false"}]
MetricsOK == hookMetrics \subseteq HookMetric

Typed == /\ PlanOK /\ ActiveOK /\ FlowOK /\ StepsOK
         /\ FlagsOK /\ ErrorsOK /\ MetricsOK

-----------------------------------------------------------------------------
(* What the helpers preserve.                                               *)

\* In a hook side, the current entry and step exist.
LEMMA EntryType ==
  ASSUME FlowOK, MoreEntries
  PROVE  /\ occ \in 1..N /\ Entry \in Entries
         /\ EntrySteps[Entry] \in Seq(Steps)
         /\ pos # 0 => HookStep \in Steps
<1>1. occ \in 1..N /\ phase \in Timings
  BY DEF FlowOK, MoreEntries, InSide
<1>2. SideAt(occ) \in Seq(Entries)
  BY <1>1, PlanAssumption DEF SideAt
<1>3. ent \in 1..Len(SideAt(occ))
  BY <1>2 DEF FlowOK, MoreEntries
<1>4. Entry \in Entries
  BY <1>2, <1>3 DEF Entry
<1>5. EntrySteps[Entry] \in Seq(Steps)
  BY <1>4, PlanAssumption
<1>6. pos # 0 => HookStep \in Steps
  BY <1>5 DEF FlowOK, HookStep
<1> QED BY <1>1, <1>4, <1>5, <1>6

\* Outside the loops of a side no step is current.
LEMMA IdleFlow ==
  ASSUME FlowOK, ~InSide \/ (occ \in 1..N /\ SideDone(phase))
  PROVE  pos = 0
<1>1. CASE ~InSide
  BY <1>1 DEF FlowOK, MoreEntries
<1>2. CASE InSide /\ occ \in 1..N /\ SideDone(phase)
  <2>1. SideAt(occ) \in Seq(Entries)
    BY <1>2, PlanAssumption DEF SideAt, InSide
  <2> QED BY <1>2, <2>1 DEF FlowOK, MoreEntries, SideDone
<1> QED BY <1>1, <1>2

\* The loop of a side stays inside the side.
LEMMA GoToFlow ==
  ASSUME FlowOK, MoreEntries, NEW p \in Nat \ {0}, GoTo(p)
  PROVE  FlowOK'
<1>1. /\ occ \in 1..N /\ EntrySteps[Entry] \in Seq(Steps)
  BY EntryType
<1>2. CASE p <= Len(EntrySteps[Entry])
  <2>1. ent' = ent /\ pos' = p /\ phase' = phase /\ occ' = occ
    BY <1>2 DEF GoTo
  <2>2. MoreEntries' /\ Entry' = Entry
    BY <2>1 DEF MoreEntries, InSide, SideAt, Entry
  <2> QED BY <1>1, <1>2, <2>1, <2>2 DEF FlowOK
<1>3. CASE ~(p <= Len(EntrySteps[Entry]))
  BY <1>3 DEF GoTo, FlowOK
<1> QED BY <1>2, <1>3

\* Asking a gate only fills the memo of composite calls with answers.
LEMMA GateType ==
  ASSUME ActiveOK, NEW s \in Steps, NEW d \in BOOLEAN, NEW r \in Outcomes,
         ShouldExecute(s, d, r)
  PROVE  ActiveOK'
<1>1. PICK ev \in [Scopes -> Outcomes] : active' = Memoized(s, ev)
  BY DEF ShouldExecute
<1>2. ASSUME NEW sc \in Scopes, CallValue(sc, ev) # "throw"
      PROVE  CallValue(sc, ev) \in {"unset", "true", "false"}
  BY <1>2 DEF CallValue, ActiveOK, Outcomes
<1> QED BY <1>1, <1>2 DEF Memoized, ActiveOK

LEMMA SkipType ==
  ASSUME StepsOK, NEW S, Skip(S), UNCHANGED result
  PROVE  StepsOK'
BY DEF StepsOK, Skip

LEMMA ExecuteType ==
  ASSUME StepsOK, NEW s \in Steps, NEW end \in Ends, Execute(s, end)
  PROVE  StepsOK'
BY DEF StepsOK, Execute, SideResult

LEMMA ThrownType ==
  ASSUME NEW e \in Errors, failures \in Seq(Errors), Thrown(e)
  PROVE  /\ failures' \in Seq(Errors) /\ failures' # <<>>
         /\ failures'[1] = IF failures = <<>> THEN e ELSE failures[1]
BY DEF Thrown

LEMMA ReportType ==
  ASSUME FlowOK, MetricsOK, phase \in Timings, ReportSide
  PROVE  MetricsOK'
<1>1. occ \in 1..N
  BY DEF FlowOK
<1> QED
  BY <1>1 DEF MetricsOK, ReportSide, AnchorResult, HookMetric, SideResult

-----------------------------------------------------------------------------
(* The inductive invariant behind RejectsWithFirstError: an error is held    *)
(* either by executeAsync or, until the side ends, by executeHookStepsAsync, *)
(* and whoever holds one without the other holding one has the earliest.     *)

ErrorHeld ==
  /\ hasFailed => failures # <<>> /\ firstError = failures[1]
  /\ InSide /\ sideFailed => failures # <<>>
  /\ InSide /\ sideFailed /\ ~hasFailed => sideError = failures[1]
  /\ failures # <<>> => hasFailed \/ (InSide /\ sideFailed)

IInv == Typed /\ ErrorHeld

LEMMA InitIInv == Init => IInv
<1> SUFFICES ASSUME Init PROVE IInv
  OBVIOUS
<1>1. PlanOK /\ ActiveOK /\ StepsOK
  BY DEF Init, PlanOK, ActiveOK, StepsOK, SideResult
<1>4. FlagsOK /\ MetricsOK
  BY DEF Init, FlagsOK, MetricsOK
<1>5. ErrorsOK
  BY DEF Init, ErrorsOK
<1>3. FlowOK
  BY PlanAssumption DEF Init, FlowOK, Timings
<1>2. ErrorHeld
  BY DEF Init, ErrorHeld
<1> QED BY <1>1, <1>2, <1>3, <1>4, <1>5 DEF IInv, Typed

LEMMA NextIInv == IInv /\ [Next]_vars => IInv'
<1> SUFFICES ASSUME IInv, [Next]_vars PROVE IInv'
  OBVIOUS
<1>0. /\ PlanOK /\ ActiveOK /\ FlowOK /\ StepsOK /\ FlagsOK /\ ErrorsOK
      /\ MetricsOK /\ ErrorHeld
  BY DEF IInv, Typed
<1> USE DEF plan, flow, local, job, vars
<1>1. CASE EnterOccurrence
  <2>1. occ \in 1..N /\ Anchor[occ] \in Steps
    BY <1>0, <1>1, PlanAssumption DEF EnterOccurrence, AtGate, FlowOK
  <2>2. ActiveOK'
    BY <1>0, <1>1, <2>1, GateType DEF EnterOccurrence, FlagsOK, Outcomes
  <2>3. PlanOK' /\ StepsOK' /\ FlagsOK' /\ ErrorsOK' /\ MetricsOK'
    BY <1>0, <1>1
       DEF EnterOccurrence, StartSide, PlanOK, StepsOK, FlagsOK, ErrorsOK, MetricsOK
  <2>5. FlowOK'
    BY <1>0, <1>1, <2>1 DEF EnterOccurrence, StartSide, FlowOK, Timings
  <2>4. ErrorHeld'
    BY <1>0, <1>1 DEF EnterOccurrence, AtGate, StartSide, ErrorHeld, InSide, Timings
  <2> QED BY <2>2, <2>3, <2>4, <2>5 DEF IInv, Typed
<1>2. CASE SkipOccurrence
  <2>1. occ \in 1..N /\ Anchor[occ] \in Steps
    BY <1>0, <1>2, PlanAssumption DEF SkipOccurrence, AtGate, FlowOK
  <2>2. ActiveOK'
    BY <1>0, <1>2, <2>1, GateType DEF SkipOccurrence, FlagsOK, Outcomes
  <2>3. StepsOK'
    BY <1>0, <1>2, SkipType DEF SkipOccurrence
  <2>4. PlanOK' /\ FlowOK' /\ MetricsOK'
    <3>1. pos = 0
      BY <1>0, <1>2, IdleFlow DEF SkipOccurrence, AtGate, InSide, Timings
    <3>2. FlowOK'
      BY <1>0, <1>2, <2>1, <3>1, PlanAssumption
         DEF SkipOccurrence, NextOccurrence, FlowOK, Timings
    <3> QED BY <1>0, <1>2, <3>2 DEF SkipOccurrence, PlanOK, MetricsOK
  <2>5. CASE UNCHANGED <<job, ctxFailed, failures>>
    <3>1. FlagsOK' /\ ErrorsOK'
      BY <1>0, <1>2, <2>5 DEF SkipOccurrence, FlagsOK, ErrorsOK
    <3>2. ErrorHeld'
      BY <1>0, <1>2, <2>5
         DEF SkipOccurrence, AtGate, NextOccurrence, ErrorHeld, InSide, Timings
    <3> QED BY <2>2, <2>3, <2>4, <3>1, <3>2 DEF IInv, Typed
  <2>6. CASE /\ RecordJobFailure(<<"gate", Anchor[occ]>>)
             /\ Thrown(<<"gate", Anchor[occ]>>)
    <3>1. <<"gate", Anchor[occ]>> \in Errors
      BY <2>1 DEF Errors
    <3>2. FlagsOK' /\ ErrorsOK'
      BY <1>0, <1>2, <2>6, <3>1, ThrownType
         DEF SkipOccurrence, RecordJobFailure, FlagsOK, ErrorsOK
    <3>3. ErrorHeld'
      BY <1>0, <1>2, <2>6, <3>1, ThrownType
         DEF SkipOccurrence, AtGate, NextOccurrence, RecordJobFailure, ErrorHeld,
             ErrorsOK, InSide, Timings
    <3> QED BY <2>2, <2>3, <2>4, <3>2, <3>3 DEF IInv, Typed
  <2> QED BY <1>2, <2>5, <2>6 DEF SkipOccurrence
<1>3. ASSUME NEW end \in Ends, RunAnchor(end) PROVE IInv'
  <2>1. occ \in 1..N /\ Anchor[occ] \in Steps
    BY <1>0, <1>3, PlanAssumption DEF RunAnchor, FlowOK
  <2>2. StepsOK'
    BY <1>0, <1>3, <2>1, ExecuteType DEF RunAnchor
  <2>3. PlanOK' /\ ActiveOK' /\ FlowOK' /\ MetricsOK'
    BY <1>0, <1>3, <2>1
       DEF RunAnchor, StartSide, PlanOK, ActiveOK, FlowOK, MetricsOK, Timings
  <2>4. CASE UNCHANGED <<job, ctxFailed, failures>>
    <3>1. FlagsOK' /\ ErrorsOK'
      BY <1>0, <1>3, <2>4 DEF RunAnchor, StartSide, FlagsOK, ErrorsOK
    <3>2. ErrorHeld'
      BY <1>0, <1>3, <2>4 DEF RunAnchor, StartSide, ErrorHeld, InSide, Timings
    <3> QED BY <2>2, <2>3, <3>1, <3>2 DEF IInv, Typed
  <2>5. CASE /\ RecordJobFailure(<<"run", Anchor[occ]>>)
             /\ Thrown(<<"run", Anchor[occ]>>)
    <3>1. <<"run", Anchor[occ]>> \in Errors
      BY <2>1 DEF Errors
    <3>2. FlagsOK' /\ ErrorsOK'
      BY <1>0, <1>3, <2>5, <3>1, ThrownType
         DEF RunAnchor, StartSide, RecordJobFailure, FlagsOK, ErrorsOK
    <3>3. ErrorHeld'
      BY <1>0, <1>3, <2>5, <3>1, ThrownType
         DEF RunAnchor, StartSide, RecordJobFailure, ErrorHeld, ErrorsOK, InSide, Timings
    <3> QED BY <2>2, <2>3, <3>2, <3>3 DEF IInv, Typed
  <2> QED BY <1>3, <2>4, <2>5 DEF RunAnchor
<1>4. CASE Finish
  <2>1. FlowOK'
    BY <1>0, <1>4 DEF Finish, FlowOK, Timings, MoreEntries, InSide
  <2>2. PlanOK' /\ ActiveOK' /\ StepsOK' /\ FlagsOK' /\ ErrorsOK' /\ MetricsOK'
    BY <1>0, <1>4 DEF Finish, PlanOK, ActiveOK, StepsOK, FlagsOK, ErrorsOK, MetricsOK
  <2>3. ErrorHeld'
    BY <1>0, <1>4 DEF Finish, ErrorHeld, InSide, Timings
  <2> QED BY <2>1, <2>2, <2>3 DEF IInv, Typed
<1>5. CASE EnterEntry
  <2>1. FlowOK'
    BY <1>0, <1>5, GoToFlow DEF EnterEntry, AtEntryGate
  <2>2. PlanOK' /\ ActiveOK' /\ StepsOK' /\ FlagsOK' /\ ErrorsOK' /\ MetricsOK'
    BY <1>0, <1>5
       DEF EnterEntry, PlanOK, ActiveOK, StepsOK, FlagsOK, ErrorsOK, MetricsOK
  <2>3. ErrorHeld'
    BY <1>0, <1>5 DEF EnterEntry, GoTo, ErrorHeld, InSide
  <2> QED BY <2>1, <2>2, <2>3 DEF IInv, Typed
<1>6. CASE SkipEntry
  <2>1. Entry \in Entries /\ InSide
    BY <1>0, <1>6, EntryType DEF SkipEntry, AtEntryGate, MoreEntries
  <2>2. StepsOK'
    BY <1>0, <1>6, SkipType DEF SkipEntry
  <2>3. PlanOK' /\ ActiveOK' /\ FlowOK' /\ MetricsOK'
    BY <1>0, <1>6
       DEF SkipEntry, AtEntryGate, PlanOK, ActiveOK, FlowOK, MetricsOK
  <2>4. CASE UNCHANGED <<sideFailed, sideError, ctxFailed, failures>>
    <3>1. FlagsOK' /\ ErrorsOK'
      BY <1>0, <1>6, <2>4 DEF SkipEntry, FlagsOK, ErrorsOK
    <3>2. ErrorHeld'
      BY <1>0, <1>6, <2>4 DEF SkipEntry, ErrorHeld, InSide
    <3> QED BY <2>2, <2>3, <3>1, <3>2 DEF IInv, Typed
  <2>5. CASE RecordSideFailure(<<"entry", Entry>>) /\ Thrown(<<"entry", Entry>>)
    <3>1. <<"entry", Entry>> \in Errors
      BY <2>1 DEF Errors
    <3>2. FlagsOK' /\ ErrorsOK'
      BY <1>0, <1>6, <2>5, <3>1, ThrownType
         DEF SkipEntry, RecordSideFailure, FlagsOK, ErrorsOK
    <3>3. ErrorHeld'
      BY <1>0, <1>6, <2>1, <2>5, <3>1, ThrownType
         DEF SkipEntry, RecordSideFailure, ErrorHeld, ErrorsOK, InSide
    <3> QED BY <2>2, <2>3, <3>2, <3>3 DEF IInv, Typed
  <2> QED BY <1>6, <2>4, <2>5 DEF SkipEntry
<1>7. CASE SkipHookStep
  <2>1. HookStep \in Steps /\ Entry \in Entries /\ InSide
    BY <1>0, <1>7, EntryType DEF SkipHookStep, AtHookStep, MoreEntries
  <2>2. ScopedFailure \in BOOLEAN
    BY <1>0 DEF ScopedFailure, FlagsOK
  <2>3. ActiveOK'
    BY <1>0, <1>7, <2>1, <2>2, GateType DEF SkipHookStep, Outcomes
  <2>4. StepsOK'
    BY <1>0, <1>7, SkipType DEF SkipHookStep
  <2>5. PlanOK' /\ MetricsOK'
    BY <1>0, <1>7 DEF SkipHookStep, PlanOK, MetricsOK
  <2>6. FlowOK'
    <3>1. pos + 1 \in Nat \ {0}
      BY <1>0 DEF FlowOK
    <3> QED BY <1>0, <1>7, <3>1, GoToFlow DEF SkipHookStep, AtHookStep
  <2>7. CASE UNCHANGED <<sideFailed, sideError, entryFailed, ctxFailed, failures>>
    <3>1. FlagsOK' /\ ErrorsOK'
      BY <1>0, <1>7, <2>7 DEF SkipHookStep, FlagsOK, ErrorsOK
    <3>2. ErrorHeld'
      BY <1>0, <1>7, <2>7 DEF SkipHookStep, GoTo, ErrorHeld, InSide
    <3> QED BY <2>3, <2>4, <2>5, <2>6, <3>1, <3>2 DEF IInv, Typed
  <2>8. CASE /\ RecordSideFailure(<<"gate", HookStep>>)
             /\ Thrown(<<"gate", HookStep>>)
             /\ entryFailed' = TRUE
    <3>1. <<"gate", HookStep>> \in Errors
      BY <2>1 DEF Errors
    <3>2. FlagsOK' /\ ErrorsOK'
      BY <1>0, <1>7, <2>8, <3>1, ThrownType
         DEF SkipHookStep, RecordSideFailure, FlagsOK, ErrorsOK
    <3>3. ErrorHeld'
      BY <1>0, <1>7, <2>1, <2>8, <3>1, ThrownType
         DEF SkipHookStep, GoTo, RecordSideFailure, ErrorHeld, ErrorsOK, InSide
    <3> QED BY <2>3, <2>4, <2>5, <2>6, <3>2, <3>3 DEF IInv, Typed
  <2> QED BY <1>7, <2>7, <2>8 DEF SkipHookStep
<1>8. ASSUME NEW end \in Ends, RunHookStep(end) PROVE IInv'
  <2>1. HookStep \in Steps /\ Entry \in Entries /\ InSide
    BY <1>0, <1>8, EntryType DEF RunHookStep, AtHookStep, MoreEntries
  <2>2. ScopedFailure \in BOOLEAN
    BY <1>0 DEF ScopedFailure, FlagsOK
  <2>3. ActiveOK'
    BY <1>0, <1>8, <2>1, <2>2, GateType DEF RunHookStep, Outcomes
  <2>4. StepsOK'
    BY <1>0, <1>8, <2>1, ExecuteType DEF RunHookStep
  <2>5. PlanOK' /\ MetricsOK' /\ ranAny' \in BOOLEAN
    BY <1>0, <1>8 DEF RunHookStep, PlanOK, MetricsOK, FlagsOK
  <2>6. FlowOK'
    <3>1. pos + 1 \in Nat \ {0}
      BY <1>0 DEF FlowOK
    <3> QED BY <1>0, <1>8, <3>1, GoToFlow DEF RunHookStep, AtHookStep
  <2>7. CASE UNCHANGED <<sideFailed, sideError, entryFailed, ctxFailed, failures>>
    <3>1. FlagsOK' /\ ErrorsOK'
      BY <1>0, <1>8, <2>5, <2>7 DEF RunHookStep, FlagsOK, ErrorsOK
    <3>2. ErrorHeld'
      BY <1>0, <1>8, <2>7 DEF RunHookStep, GoTo, ErrorHeld, InSide
    <3> QED BY <2>3, <2>4, <2>5, <2>6, <3>1, <3>2 DEF IInv, Typed
  <2>8. CASE /\ RecordSideFailure(<<"run", HookStep>>)
             /\ Thrown(<<"run", HookStep>>)
             /\ entryFailed' = TRUE
    <3>1. <<"run", HookStep>> \in Errors
      BY <2>1 DEF Errors
    <3>2. FlagsOK' /\ ErrorsOK'
      BY <1>0, <1>8, <2>5, <2>8, <3>1, ThrownType
         DEF RunHookStep, RecordSideFailure, FlagsOK, ErrorsOK
    <3>3. ErrorHeld'
      BY <1>0, <1>8, <2>1, <2>8, <3>1, ThrownType
         DEF RunHookStep, GoTo, RecordSideFailure, ErrorHeld, ErrorsOK, InSide
    <3> QED BY <2>3, <2>4, <2>5, <2>6, <3>2, <3>3 DEF IInv, Typed
  <2> QED BY <1>8, <2>7, <2>8 DEF RunHookStep
<1>9. CASE EndBefore
  <2>1. occ \in 1..N /\ InSide
    BY <1>0, <1>9 DEF EndBefore, SideDone, FlowOK, InSide, Timings
  <2>2. MetricsOK' /\ PlanOK' /\ ActiveOK'
    BY <1>0, <1>9, <2>1, ReportType DEF EndBefore, InSide, PlanOK, ActiveOK
  <2>3. StepsOK'
    <3>1. CASE AnchorBlocked
      BY <1>0, <1>9, <3>1, SkipType DEF EndBefore
    <3>2. CASE ~AnchorBlocked
      BY <1>0, <1>9, <3>2 DEF EndBefore, StepsOK
    <3> QED BY <3>1, <3>2
  <2>4. FlowOK'
    <3>1. pos = 0
      BY <1>0, <1>9, <2>1, IdleFlow DEF EndBefore, SideDone
    <3>2. /\ \/ phase' = "gate" /\ occ' = occ + 1
             \/ phase' = "anchor" /\ occ' = occ
          /\ ent' = ent /\ pos' = pos
      <4>1. CASE AnchorBlocked
        BY <1>9, <4>1 DEF EndBefore, NextOccurrence
      <4>2. CASE ~AnchorBlocked
        BY <1>9, <4>2 DEF EndBefore
      <4> QED BY <4>1, <4>2
    <3>3. occ' \in 1..(N + 1) /\ (phase' = "anchor" => occ' \in 1..N)
      BY <2>1, <3>2, PlanAssumption
    <3>4. ent' \in Nat \ {0} /\ pos' = 0
      BY <1>0, <3>1, <3>2 DEF FlowOK
    <3> QED
      BY <3>2, <3>3, <3>4 DEF FlowOK, Timings
  <2>5. FlagsOK' /\ ErrorsOK'
    BY <1>0, <1>9 DEF EndBefore, RecordJobFailure, FlagsOK, ErrorsOK
  <2>6. ErrorHeld'
    BY <1>0, <1>9, <2>1
       DEF EndBefore, AnchorBlocked, NextOccurrence, RecordJobFailure, ErrorHeld,
           InSide, Timings
  <2> QED BY <2>2, <2>3, <2>4, <2>5, <2>6 DEF IInv, Typed
<1>10. CASE EndAfter
  <2>1. occ \in 1..N /\ InSide
    BY <1>0, <1>10 DEF EndAfter, SideDone, FlowOK, InSide, Timings
  <2>2. MetricsOK' /\ PlanOK' /\ ActiveOK' /\ StepsOK'
    BY <1>0, <1>10, <2>1, ReportType DEF EndAfter, InSide, PlanOK, ActiveOK, StepsOK
  <2>3. FlowOK'
    <3>1. pos = 0
      BY <1>0, <1>10, <2>1, IdleFlow DEF EndAfter, SideDone
    <3> QED
      BY <1>0, <1>10, <2>1, <3>1, PlanAssumption
         DEF EndAfter, NextOccurrence, FlowOK, Timings
  <2>4. FlagsOK' /\ ErrorsOK'
    BY <1>0, <1>10 DEF EndAfter, RecordJobFailure, FlagsOK, ErrorsOK
  <2>5. ErrorHeld'
    BY <1>0, <1>10, <2>1
       DEF EndAfter, NextOccurrence, RecordJobFailure, ErrorHeld, InSide, Timings
  <2> QED BY <2>2, <2>3, <2>4, <2>5 DEF IInv, Typed
<1>11. CASE UNCHANGED vars
  BY <1>0, <1>11
     DEF IInv, Typed, PlanOK, ActiveOK, FlowOK, StepsOK, FlagsOK, ErrorsOK,
         MetricsOK, ErrorHeld, MoreEntries, InSide, SideAt, Entry
<1> QED
  BY <1>1, <1>2, <1>3, <1>4, <1>5, <1>6, <1>7, <1>8, <1>9, <1>10, <1>11
     DEF Next, Terminated

-----------------------------------------------------------------------------
\* Typing of every job: the indices of the three loops stay within the job.
THEOREM TypeCorrect == Spec => []TypeOK
<1>1. IInv => TypeOK
  BY DEF IInv, Typed, PlanOK, ActiveOK, FlowOK, StepsOK, FlagsOK, ErrorsOK,
         MetricsOK, TypeOK
<1> QED BY <1>1, InitIInv, NextIInv, PTL DEF Spec

\* executeAsync rejects exactly when something failed, with the first error.
THEOREM RejectsCorrectly == Spec => []RejectsWithFirstError
<1>1. IInv => RejectsWithFirstError
  BY DEF IInv, ErrorHeld, RejectsWithFirstError, InSide, Timings
<1> QED BY <1>1, InitIInv, NextIInv, PTL DEF Spec

-----------------------------------------------------------------------------
(* Hooks and their anchor: every step has one place in the job, and is        *)
(* undecided just as long as the loops have not passed that place.            *)

HookAt(i, t, k, p) == EntrySteps[Hooks[i][t][k]][p]

IsPlace(i, t, k, p) ==
  /\ i \in 1..N /\ t \in Timings /\ k \in DOMAIN Hooks[i][t]
  /\ p \in DOMAIN EntrySteps[Hooks[i][t][k]]

\* Which places the loops have not passed.
AnchorAhead(i)  == i > occ \/ (i = occ /\ phase \in {"gate", "before", "anchor"})
SideAhead(i, t) ==
  i > occ \/ (i = occ /\ (phase = "gate" \/ (t = "after" /\ phase \in {"before", "anchor"})))
StepAhead(i, t, k, p) ==
  SideAhead(i, t) \/ (i = occ /\ phase = t /\ (k > ent \/ (k = ent /\ p >= pos)))
SideOver(i, t)  == i < occ \/ (i = occ /\ t = "before" /\ phase \in {"anchor", "after"})

AnchorsPlaced == \A i \in 1..N : Undecided(Anchor[i]) <=> AnchorAhead(i)
HooksPlaced ==
  \A i \in 1..N, t \in Timings : \A k \in DOMAIN Hooks[i][t] :
    \A p \in DOMAIN EntrySteps[Hooks[i][t][k]] :
      Undecided(HookAt(i, t, k, p)) <=> StepAhead(i, t, k, p)
UndecidedIdle == \A s \in Steps : Undecided(s) => ~WasExecuted(s)
DoneAtEnd     == phase = "done" => occ = N + 1

Placed == AnchorsPlaced /\ HooksPlaced /\ UndecidedIdle /\ DoneAtEnd

SideSteps(i, t) == StepsOf(Hooks[i][t])
Authored(i, t)  == \E s \in SideSteps(i, t) \ OutputNodes : WasExecuted(s)
AnyFailed(i, t) == \E s \in SideSteps(i, t) : result[s] = "failed"

\* What the locals of the side that is on say of its steps and of its anchor.
Locals ==
  /\ InSide => /\ ranAny <=> Authored(occ, phase)
               /\ AnyFailed(occ, phase) => sideFailed
  /\ phase = "before" /\ ent = 1 /\ pos = 0 => ~sideFailed
  /\ phase = "after" /\ pos = 1 => ~entryFailed
  /\ phase = "after" => /\ WasExecuted(Anchor[occ])
                        /\ anchorFailed <=> result[Anchor[occ]] = "failed"
  /\ phase = "anchor" => ~AnyFailed(occ, "before")

\* As far as the loops have come, the hooks without `if:` have run.
BeforeRan(i) ==
  \A k \in DOMAIN Hooks[i].before : entryIf[Hooks[i].before[k]] = "none" =>
    \A p \in DOMAIN EntrySteps[Hooks[i].before[k]] :
      Plain(HookAt(i, "before", k, p)) /\ ~StepAhead(i, "before", k, p)
        => WasExecuted(HookAt(i, "before", k, p))
AfterRan(i) ==
  \A k \in DOMAIN Hooks[i].after :
    /\ entryIf[Hooks[i].after[k]] = "none" /\ EntrySteps[Hooks[i].after[k]] # <<>>
    /\ Plain(HookAt(i, "after", k, 1)) /\ ~StepAhead(i, "after", k, 1)
    => WasExecuted(HookAt(i, "after", k, 1))
PlainRun ==
  /\ (phase = "before" /\ ~sideFailed) \/ phase = "anchor" => BeforeRan(occ)
  /\ \A i \in 1..N : WasExecuted(Anchor[i]) => BeforeRan(i) /\ AfterRan(i)

Bracketed == \A i \in 1..N : HooksBracket(i)

\* The metrics are those of the sides that are over.
MetricTrue(m) ==
  /\ SideOver(m.occ, m.timing)
  /\ Authored(m.occ, m.timing)
  /\ AnyFailed(m.occ, m.timing) => m.result = "failed"
  /\ m.anchorResult = IF m.timing = "after" THEN result[Anchor[m.occ]] ELSE "none"
Reported ==
  \A i \in 1..N, t \in Timings :
    SideOver(i, t) /\ Authored(i, t) => \E m \in hookMetrics : m.occ = i /\ m.timing = t
Measured == (\A m \in hookMetrics : MetricTrue(m)) /\ Reported

HInv == Placed /\ Locals /\ PlainRun /\ Bracketed /\ Measured

\* A call that let one of its steps run has answered true for good.
Called ==
  \A s \in Steps : WasExecuted(s) =>
    \A k \in DOMAIN ScopeChain[s] : active[ScopeChain[s][k]] = "true"
Passed ==
  \A s, t \in Steps :
    SameCall(s, t) /\ WasExecuted(s) /\ stepIf[t] = "always" /\ ~Undecided(t)
      => WasExecuted(t) \/ GateThrew(t)
\* An anchor whose hooks are on was let by its calls; a side without entries fails
\* nothing, so the anchors of a call are not skipped for a failed before-side.
Entered ==
  phase \in {"before", "anchor"} =>
    \A k \in DOMAIN ScopeChain[Anchor[occ]] : active[ScopeChain[Anchor[occ]][k]] = "true"
EmptySide == InSide /\ SideAt(occ) = <<>> => ~sideFailed
CInv == Called /\ Passed /\ Entered /\ EmptySide

-----------------------------------------------------------------------------
(* The places of the steps.                                                 *)

LEMMA HookPlace ==
  ASSUME NEW i \in 1..N, NEW t \in Timings, NEW k \in DOMAIN Hooks[i][t],
         NEW p \in DOMAIN EntrySteps[Hooks[i][t][k]]
  PROVE  /\ Hooks[i][t][k] \in Entries /\ HookAt(i, t, k, p) \in Steps
         /\ \A j \in 1..N : HookAt(i, t, k, p) # Anchor[j]
         /\ \A j \in 1..N, u \in Timings : \A m \in DOMAIN Hooks[j][u] :
              HookAt(i, t, k, p) \in Range(EntrySteps[Hooks[j][u][m]])
                <=> i = j /\ t = u /\ k = m
         /\ \A j \in 1..N, u \in Timings : \A m \in DOMAIN Hooks[j][u] :
              \A q \in DOMAIN EntrySteps[Hooks[j][u][m]] :
                HookAt(i, t, k, p) = HookAt(j, u, m, q)
                  => i = j /\ t = u /\ k = m /\ p = q
         /\ \A j \in 1..N, u \in Timings :
              HookAt(i, t, k, p) \in SideSteps(j, u) <=> i = j /\ t = u
<1>1. \A j \in 1..N, u \in Timings : \A m \in DOMAIN Hooks[j][u] : Hooks[j][u][m] \in Entries
  BY PlanAssumption
<1>2. \A e \in Entries : \A q \in DOMAIN EntrySteps[e] : EntrySteps[e][q] \in Steps
  BY PlanAssumption
<1>3. \A j \in 1..N : HookAt(i, t, k, p) # Anchor[j]
  BY <1>1, PlaceAssumption DEF HookAt, Range
<1>4. ASSUME NEW j \in 1..N, NEW u \in Timings, NEW m \in DOMAIN Hooks[j][u],
             NEW q \in DOMAIN EntrySteps[Hooks[j][u][m]],
             HookAt(i, t, k, p) = HookAt(j, u, m, q)
      PROVE  i = j /\ t = u /\ k = m /\ p = q
  <2>1. Hooks[i][t][k] = Hooks[j][u][m] /\ p = q
    BY <1>1, <1>4, PlaceAssumption DEF HookAt
  <2> QED  BY <2>1, PlaceAssumption
<1>5. ASSUME NEW j \in 1..N, NEW u \in Timings, NEW m \in DOMAIN Hooks[j][u]
      PROVE  HookAt(i, t, k, p) \in Range(EntrySteps[Hooks[j][u][m]])
               <=> i = j /\ t = u /\ k = m
  BY <1>4 DEF HookAt, Range
<1>6. ASSUME NEW j \in 1..N, NEW u \in Timings
      PROVE  HookAt(i, t, k, p) \in SideSteps(j, u) <=> i = j /\ t = u
  <2>1. HookAt(i, t, k, p) \in SideSteps(j, u)
          <=> \E m \in DOMAIN Hooks[j][u] :
                HookAt(i, t, k, p) \in Range(EntrySteps[Hooks[j][u][m]])
    BY SMTT(30) DEF SideSteps, StepsOf, Range
  <2> QED  BY <1>5, <2>1
<1>7. HookAt(i, t, k, p) \in Steps  BY <1>1, <1>2 DEF HookAt
<1> QED  BY <1>1, <1>3, <1>4, <1>5, <1>6, <1>7

LEMMA SidePlace ==
  ASSUME NEW i \in 1..N, NEW t \in Timings, NEW s \in SideSteps(i, t)
  PROVE  /\ s \in Steps
         /\ \E k \in DOMAIN Hooks[i][t] : \E p \in DOMAIN EntrySteps[Hooks[i][t][k]] :
              s = HookAt(i, t, k, p)
<1>1. PICK k \in DOMAIN Hooks[i][t] : s \in Range(EntrySteps[Hooks[i][t][k]])
  BY DEF SideSteps, StepsOf, Range
<1>2. PICK p \in DOMAIN EntrySteps[Hooks[i][t][k]] : s = HookAt(i, t, k, p)
  BY <1>1 DEF Range, HookAt
<1> QED  BY <1>2, HookPlace

LEMMA AnchorPlace ==
  ASSUME NEW i \in 1..N
  PROVE  /\ Anchor[i] \in Steps
         /\ \A j \in 1..N : Anchor[i] = Anchor[j] => i = j
         /\ \A j \in 1..N, t \in Timings : Anchor[i] \notin SideSteps(j, t)
         /\ \A e \in Entries : Anchor[i] \notin Range(EntrySteps[e])
<1>1. \A j \in 1..N, t \in Timings : Anchor[i] \notin SideSteps(j, t)
  BY SidePlace, HookPlace
<1> QED  BY <1>1, PlanAssumption, PlaceAssumption

-----------------------------------------------------------------------------
(* A step of the loops decides the steps in C, which are those it passes.    *)

Keeps(C) == \A s \in Steps \ C : status'[s] = status[s] /\ result'[s] = result[s]
PassesAnchors(C) == \A i \in 1..N : AnchorAhead(i)' <=> AnchorAhead(i) /\ Anchor[i] \notin C
PassesHooks(C) ==
  \A i \in 1..N, t \in Timings : \A k \in DOMAIN Hooks[i][t] :
    \A p \in DOMAIN EntrySteps[Hooks[i][t][k]] :
      StepAhead(i, t, k, p)' <=> StepAhead(i, t, k, p) /\ HookAt(i, t, k, p) \notin C
Decides(C) ==
  /\ C \subseteq Steps /\ Keeps(C)
  /\ \A s \in C : Undecided(s) /\ ~Undecided(s)'
  /\ PassesAnchors(C) /\ PassesHooks(C) /\ DoneAtEnd'

LEMMA DecidesPlaced ==
  ASSUME Placed, NEW C, Decides(C)
  PROVE  Placed'
<1>1. AnchorsPlaced'
  <2> SUFFICES ASSUME NEW i \in 1..N PROVE Undecided(Anchor[i])' <=> AnchorAhead(i)'
    BY DEF AnchorsPlaced
  <2>1. Anchor[i] \in Steps  BY AnchorPlace
  <2> QED  BY <2>1 DEF Placed, AnchorsPlaced, Decides, Keeps, PassesAnchors, Undecided
<1>2. HooksPlaced'
  <2> SUFFICES ASSUME NEW i \in 1..N, NEW t \in Timings, NEW k \in DOMAIN Hooks[i][t],
                      NEW p \in DOMAIN EntrySteps[Hooks[i][t][k]]
               PROVE  Undecided(HookAt(i, t, k, p))' <=> StepAhead(i, t, k, p)'
    BY DEF HooksPlaced, HookAt
  <2>1. HookAt(i, t, k, p) \in Steps  BY HookPlace
  <2>2. Undecided(HookAt(i, t, k, p)) <=> StepAhead(i, t, k, p)
    BY DEF Placed, HooksPlaced
  <2>3. StepAhead(i, t, k, p)' <=> StepAhead(i, t, k, p) /\ HookAt(i, t, k, p) \notin C
    BY DEF Decides, PassesHooks
  <2>4. Undecided(HookAt(i, t, k, p))' <=> status'[HookAt(i, t, k, p)] = "new"
    BY DEF Undecided, HookAt
  <2> QED  BY <2>1, <2>2, <2>3, <2>4 DEF Decides, Keeps, Undecided
<1>3. UndecidedIdle'
  BY DEF Placed, UndecidedIdle, Decides, Keeps, Undecided, WasExecuted
<1> QED  BY <1>1, <1>2, <1>3 DEF Placed, Decides

\* What is decided already stays as it is.
LEMMA DecidesFreezes ==
  ASSUME NEW C, Decides(C), NEW s \in Steps, ~Undecided(s)
  PROVE  status'[s] = status[s] /\ result'[s] = result[s]
BY DEF Decides, Keeps

\* A side that is over, or has not begun, keeps what its steps did.
LEMMA SideDecided ==
  ASSUME Placed, FlowOK, NEW i \in 1..N, NEW t \in Timings
  PROVE  /\ SideOver(i, t) => \A s \in SideSteps(i, t) : ~Undecided(s)
         /\ SideAhead(i, t) => \A s \in SideSteps(i, t) : Undecided(s) /\ ~WasExecuted(s)
         /\ SideOver(i, t) /\ t = "after" => ~Undecided(Anchor[i])
         /\ WasExecuted(Anchor[i]) => SideOver(i, "before")
<1>1. ASSUME NEW s \in SideSteps(i, t)
      PROVE  (SideOver(i, t) => ~Undecided(s)) /\ (SideAhead(i, t) => Undecided(s))
  <2>1. PICK k \in DOMAIN Hooks[i][t] : \E p \in DOMAIN EntrySteps[Hooks[i][t][k]] :
          s = HookAt(i, t, k, p)
    BY SidePlace
  <2>2. PICK p \in DOMAIN EntrySteps[Hooks[i][t][k]] : s = HookAt(i, t, k, p)  BY <2>1
  <2>3. Undecided(s) <=> StepAhead(i, t, k, p)  BY <2>2 DEF Placed, HooksPlaced
  <2> QED  BY <2>3 DEF SideOver, SideAhead, StepAhead, FlowOK, Timings
<1>2. Undecided(Anchor[i]) <=> AnchorAhead(i)  BY DEF Placed, AnchorsPlaced
<1>3. Anchor[i] \in Steps  BY AnchorPlace
<1>4. SideAhead(i, t) => \A s \in SideSteps(i, t) : ~WasExecuted(s)
  BY <1>1, SidePlace DEF Placed, UndecidedIdle
<1>5. SideOver(i, t) /\ t = "after" => ~AnchorAhead(i)
  BY PlanAssumption DEF SideOver, AnchorAhead, FlowOK
<1>6. WasExecuted(Anchor[i]) => ~AnchorAhead(i)
  BY <1>2, <1>3 DEF Placed, UndecidedIdle
<1>7. ~AnchorAhead(i) => SideOver(i, "before")
  BY PlanAssumption DEF Placed, DoneAtEnd, SideOver, AnchorAhead, FlowOK, Timings
<1> QED  BY <1>1, <1>2, <1>4, <1>5, <1>6, <1>7

LEMMA Indices ==
  ASSUME NEW i \in 1..N, NEW t \in Timings, NEW k \in DOMAIN Hooks[i][t],
         NEW p \in DOMAIN EntrySteps[Hooks[i][t][k]]
  PROVE  /\ k \in Nat \ {0} /\ k <= Len(Hooks[i][t]) /\ Len(Hooks[i][t]) \in Nat
         /\ p \in Nat \ {0} /\ p <= Len(EntrySteps[Hooks[i][t][k]])
         /\ Len(EntrySteps[Hooks[i][t][k]]) \in Nat
         /\ i \in Nat \ {0} /\ i <= N /\ N \in Nat
<1>1. Hooks[i][t] \in Seq(Entries)  BY PlanAssumption
<1>2. EntrySteps[Hooks[i][t][k]] \in Seq(Steps)  BY <1>1, PlanAssumption
<1> QED  BY <1>1, <1>2, PlanAssumption, SMTT(30)

\* Steps that decide nothing.
LEMMA EnteringDecides ==
  ASSUME FlowOK, Placed, EnterOccurrence \/ EnterEntry \/ Finish \/ EndAfter
  PROVE  Decides({})
<1>0. occ \in Nat \ {0} /\ ent \in Nat \ {0} /\ pos \in Nat /\ N \in Nat
  BY PlanAssumption DEF FlowOK
<1>1. CASE EnterOccurrence
  <2>1. /\ phase = "gate" /\ phase' = "before" /\ occ' = occ /\ ent' = 1 /\ pos' = 0
        /\ UNCHANGED <<status, result>>
    BY <1>1 DEF EnterOccurrence, AtGate, StartSide
  <2>2. PassesAnchors({})  BY <2>1 DEF PassesAnchors, AnchorAhead
  <2>3. PassesHooks({})
    BY <1>0, <2>1, Indices DEF PassesHooks, StepAhead, SideAhead, Timings
  <2> QED  BY <2>1, <2>2, <2>3 DEF Decides, Keeps, DoneAtEnd
<1>2. CASE EnterEntry
  <2>1. /\ phase' = phase /\ occ' = occ /\ occ \in 1..N /\ phase \in Timings
        /\ Entry = Hooks[occ][phase][ent] /\ Len(EntrySteps[Entry]) \in Nat
        /\ UNCHANGED <<status, result>> /\ pos = 0
        /\ IF 1 <= Len(EntrySteps[Entry]) THEN ent' = ent /\ pos' = 1
           ELSE ent' = ent + 1 /\ pos' = 0
    BY <1>2, EntryType
    DEF EnterEntry, AtEntryGate, MoreEntries, InSide, Entry, SideAt, GoTo
  <2>2. PassesAnchors({})  BY <2>1 DEF PassesAnchors, AnchorAhead
  <2>3. ASSUME NEW i \in 1..N, NEW t \in Timings, NEW k \in DOMAIN Hooks[i][t],
               NEW p \in DOMAIN EntrySteps[Hooks[i][t][k]]
        PROVE  StepAhead(i, t, k, p)' <=> StepAhead(i, t, k, p)
    <3>1. i = occ /\ t = phase /\ k = ent => Hooks[i][t][k] = Entry  BY <2>1
    <3>2. SideAhead(i, t)' <=> SideAhead(i, t)  BY <2>1 DEF SideAhead
    <3>3. CASE i = occ /\ t = phase
      <4>1. k = ent => 1 <= Len(EntrySteps[Entry])  BY <2>1, <3>1, <3>3, Indices
      <4>2. (k > ent' \/ (k = ent' /\ p >= pos')) <=> (k > ent \/ (k = ent /\ p >= pos))
        <5>1. k \in Nat \ {0} /\ p \in Nat \ {0}  BY Indices
        <5> QED  BY <1>0, <2>1, <4>1, <5>1
      <4> QED  BY <2>1, <3>2, <4>2 DEF StepAhead
    <3>4. CASE ~(i = occ /\ t = phase)  BY <2>1, <3>2, <3>4 DEF StepAhead
    <3> QED  BY <3>3, <3>4
  <2> QED  BY <2>1, <2>2, <2>3 DEF Decides, Keeps, DoneAtEnd, PassesHooks, Timings
<1>3. CASE Finish
  <2>1. /\ phase = "gate" /\ phase' = "done" /\ occ' = occ /\ occ = N + 1
        /\ ent' = ent /\ pos' = pos /\ UNCHANGED <<status, result>>
    BY <1>3 DEF Finish
  <2>2. PassesAnchors({})  BY <1>0, <2>1 DEF PassesAnchors, AnchorAhead
  <2>3. PassesHooks({})
    BY <1>0, <2>1, Indices DEF PassesHooks, StepAhead, SideAhead, Timings
  <2> QED  BY <2>1, <2>2, <2>3 DEF Decides, Keeps, DoneAtEnd
<1>4. CASE EndAfter
  <2>1. /\ phase = "after" /\ phase' = "gate" /\ occ' = occ + 1
        /\ ent' = ent /\ pos' = pos /\ UNCHANGED <<status, result>>
        /\ ent > Len(Hooks[occ]["after"])
    BY <1>4 DEF EndAfter, SideDone, NextOccurrence, SideAt
  <2>2. PassesAnchors({})  BY <1>0, <2>1 DEF PassesAnchors, AnchorAhead
  <2>3. PassesHooks({})
    BY <1>0, <2>1, Indices DEF PassesHooks, StepAhead, SideAhead, Timings
  <2> QED  BY <2>1, <2>2, <2>3 DEF Decides, Keeps, DoneAtEnd
<1> QED  BY <1>1, <1>2, <1>3, <1>4

\* All of the occurrence, at its gate.
LEMMA SkipOccurrenceDecides ==
  ASSUME FlowOK, Placed, SkipOccurrence
  PROVE  Decides(WholeOccurrence) /\ UNCHANGED result /\ occ \in 1..N
<1>0. occ \in Nat \ {0} /\ N \in Nat /\ occ \in 1..N
  BY PlanAssumption DEF FlowOK, SkipOccurrence, AtGate
<1>1. /\ phase = "gate" /\ phase' = "gate" /\ occ' = occ + 1 /\ UNCHANGED result
      /\ Skip(WholeOccurrence)
  BY DEF SkipOccurrence, AtGate, NextOccurrence
<1>2. WholeOccurrence = {Anchor[occ]} \cup SideSteps(occ, "before") \cup SideSteps(occ, "after")
  BY DEF WholeOccurrence, SideSteps
<1>3. ASSUME NEW s \in WholeOccurrence PROVE s \in Steps /\ Undecided(s) /\ ~Undecided(s)'
  <2>1. s \in Steps /\ Undecided(s)
    <3>1. CASE s = Anchor[occ]
      BY <1>0, <1>1, <3>1, AnchorPlace DEF Placed, AnchorsPlaced, AnchorAhead
    <3>2. CASE \E t \in Timings : s \in SideSteps(occ, t)
      BY <1>0, <1>1, <3>2, SidePlace, SideDecided DEF SideAhead
    <3> QED  BY <1>2, <3>1, <3>2 DEF Timings
  <2> QED  BY <1>1, <2>1 DEF Skip, Undecided
<1>4. Keeps(WholeOccurrence)  BY <1>1 DEF Keeps, Skip
<1>5. PassesAnchors(WholeOccurrence)
  <2> SUFFICES ASSUME NEW i \in 1..N
               PROVE  AnchorAhead(i)' <=> AnchorAhead(i) /\ Anchor[i] \notin WholeOccurrence
    BY DEF PassesAnchors
  <2>1. Anchor[i] \in WholeOccurrence <=> i = occ
    BY <1>0, <1>2, AnchorPlace DEF Timings
  <2> QED  BY <1>0, <1>1, <2>1 DEF AnchorAhead
<1>6. PassesHooks(WholeOccurrence)
  <2> SUFFICES ASSUME NEW i \in 1..N, NEW t \in Timings, NEW k \in DOMAIN Hooks[i][t],
                      NEW p \in DOMAIN EntrySteps[Hooks[i][t][k]]
               PROVE  StepAhead(i, t, k, p)'
                        <=> StepAhead(i, t, k, p) /\ HookAt(i, t, k, p) \notin WholeOccurrence
    BY DEF PassesHooks
  <2>1. HookAt(i, t, k, p) \in WholeOccurrence <=> i = occ
    BY <1>0, <1>2, HookPlace DEF Timings
  <2> QED  BY <1>0, <1>1, <2>1, Indices DEF StepAhead, SideAhead, Timings
<1>7. DoneAtEnd'  BY <1>1 DEF DoneAtEnd
<1> QED  BY <1>0, <1>1, <1>3, <1>4, <1>5, <1>6, <1>7 DEF Decides

\* The anchor.
LEMMA RunAnchorDecides ==
  ASSUME FlowOK, StepsOK, Placed, NEW end \in Ends, RunAnchor(end)
  PROVE  Decides({Anchor[occ]}) /\ occ \in 1..N
<1>0. occ \in Nat \ {0} /\ N \in Nat /\ occ \in 1..N
  BY PlanAssumption DEF FlowOK, RunAnchor
<1>1. /\ phase = "anchor" /\ phase' = "after" /\ occ' = occ /\ ent' = 1 /\ pos' = 0
      /\ Execute(Anchor[occ], end)
  BY DEF RunAnchor, StartSide
<1>2. Anchor[occ] \in Steps /\ Undecided(Anchor[occ])
  BY <1>0, <1>1, AnchorPlace DEF Placed, AnchorsPlaced, AnchorAhead
<1>3. ~Undecided(Anchor[occ])' /\ Keeps({Anchor[occ]})
  BY <1>0, <1>1, <1>2 DEF Undecided, Keeps, Execute, StepsOK
<1>4. PassesAnchors({Anchor[occ]})
  BY <1>0, <1>1, AnchorPlace DEF PassesAnchors, AnchorAhead
<1>5. PassesHooks({Anchor[occ]})
  <2> SUFFICES ASSUME NEW i \in 1..N, NEW t \in Timings, NEW k \in DOMAIN Hooks[i][t],
                      NEW p \in DOMAIN EntrySteps[Hooks[i][t][k]]
               PROVE  StepAhead(i, t, k, p)' <=> StepAhead(i, t, k, p)
    BY <1>0, HookPlace DEF PassesHooks
  <2>1. k \in Nat \ {0} /\ p \in Nat \ {0} /\ i \in Nat /\ t \in {"before", "after"}
    BY Indices DEF Timings
  <2>2. StepAhead(i, t, k, p)' <=> i > occ \/ (i = occ /\ t = "after")
    BY <1>0, <1>1, <2>1 DEF StepAhead, SideAhead
  <2>3. StepAhead(i, t, k, p) <=> i > occ \/ (i = occ /\ t = "after")
    BY <1>0, <1>1, <2>1 DEF StepAhead, SideAhead
  <2> QED  BY <2>2, <2>3
<1>6. DoneAtEnd'  BY <1>1 DEF DoneAtEnd
<1>7. Undecided(Anchor[occ])' <=> status'[Anchor[occ]] = "new"
  BY <1>1 DEF Undecided
<1>8. ASSUME NEW s \in {Anchor[occ]} PROVE Undecided(s) /\ ~Undecided(s)'
  <2>1. s = Anchor[occ]  OBVIOUS
  <2> QED  BY <1>1, <1>2, <1>3, <1>7, <2>1 DEF Undecided
<1> QED  BY <1>0, <1>2, <1>3, <1>4, <1>5, <1>6, <1>8 DEF Decides

\* A before-side that failed decides the anchor and its after-hooks.
LEMMA EndBeforeDecides ==
  ASSUME FlowOK, Placed, EndBefore
  PROVE  /\ occ \in 1..N /\ UNCHANGED result
         /\ AnchorBlocked  => Decides(AnchorAndAfter)
         /\ ~AnchorBlocked => Decides({}) /\ UNCHANGED status
<1>0. occ \in Nat \ {0} /\ N \in Nat /\ occ \in 1..N
  BY PlanAssumption DEF FlowOK, EndBefore, SideDone, Timings
<1>1. phase = "before" /\ ent > Len(Hooks[occ]["before"]) /\ UNCHANGED result
  BY DEF EndBefore, SideDone, SideAt
<1>2. ASSUME AnchorBlocked PROVE Decides(AnchorAndAfter)
  <2>1. phase' = "gate" /\ occ' = occ + 1 /\ Skip(AnchorAndAfter)
    BY <1>2 DEF EndBefore, NextOccurrence
  <2>2. AnchorAndAfter = {Anchor[occ]} \cup SideSteps(occ, "after")
    BY DEF AnchorAndAfter, SideSteps
  <2>3. ASSUME NEW s \in AnchorAndAfter PROVE s \in Steps /\ Undecided(s) /\ ~Undecided(s)'
    <3>1. s \in Steps /\ Undecided(s)
      <4>1. CASE s = Anchor[occ]
        BY <1>0, <1>1, <4>1, AnchorPlace DEF Placed, AnchorsPlaced, AnchorAhead
      <4>2. CASE s \in SideSteps(occ, "after")
        BY <1>0, <1>1, <4>2, SidePlace, SideDecided DEF SideAhead, Timings
      <4> QED  BY <2>2, <4>1, <4>2
    <3> QED  BY <2>1, <3>1 DEF Skip, Undecided
  <2>4. Keeps(AnchorAndAfter)  BY <1>1, <2>1 DEF Keeps, Skip
  <2>5. PassesAnchors(AnchorAndAfter)
    <3> SUFFICES ASSUME NEW i \in 1..N
                 PROVE  AnchorAhead(i)' <=> AnchorAhead(i) /\ Anchor[i] \notin AnchorAndAfter
      BY DEF PassesAnchors
    <3>1. Anchor[i] \in AnchorAndAfter <=> i = occ
      BY <1>0, <2>2, AnchorPlace DEF Timings
    <3> QED  BY <1>0, <1>1, <2>1, <3>1 DEF AnchorAhead
  <2>6. PassesHooks(AnchorAndAfter)
    <3> SUFFICES ASSUME NEW i \in 1..N, NEW t \in Timings, NEW k \in DOMAIN Hooks[i][t],
                        NEW p \in DOMAIN EntrySteps[Hooks[i][t][k]]
                 PROVE  StepAhead(i, t, k, p)'
                          <=> StepAhead(i, t, k, p) /\ HookAt(i, t, k, p) \notin AnchorAndAfter
      BY DEF PassesHooks
    <3>1. HookAt(i, t, k, p) \in AnchorAndAfter <=> i = occ /\ t = "after"
      BY <1>0, <2>2, HookPlace DEF Timings
    <3>2. k <= Len(Hooks[i][t]) /\ k \in Nat /\ Len(Hooks[i][t]) \in Nat /\ i \in Nat
          /\ t \in {"before", "after"} /\ ent \in Nat
      BY Indices DEF Timings, FlowOK
    <3>3. StepAhead(i, t, k, p)' <=> i > occ
      BY <1>0, <2>1, <3>2 DEF StepAhead, SideAhead
    <3>4. StepAhead(i, t, k, p) <=> i > occ \/ (i = occ /\ t = "after")
      BY <1>0, <1>1, <3>2 DEF StepAhead, SideAhead
    <3> QED  BY <1>0, <3>1, <3>2, <3>3, <3>4
  <2>7. DoneAtEnd'  BY <2>1 DEF DoneAtEnd
  <2> QED  BY <2>3, <2>4, <2>5, <2>6, <2>7 DEF Decides
<1>3. ASSUME ~AnchorBlocked PROVE Decides({}) /\ UNCHANGED status
  <2>1. phase' = "anchor" /\ UNCHANGED <<status, occ, ent, pos>>
    BY <1>3 DEF EndBefore
  <2>2. PassesAnchors({})  BY <1>1, <2>1 DEF PassesAnchors, AnchorAhead
  <2>3. PassesHooks({})
    <3> SUFFICES ASSUME NEW i \in 1..N, NEW t \in Timings, NEW k \in DOMAIN Hooks[i][t],
                        NEW p \in DOMAIN EntrySteps[Hooks[i][t][k]]
                 PROVE  StepAhead(i, t, k, p)' <=> StepAhead(i, t, k, p)
      BY DEF PassesHooks
    <3>1. k <= Len(Hooks[i][t]) /\ k \in Nat /\ Len(Hooks[i][t]) \in Nat /\ ent \in Nat
      BY Indices DEF FlowOK
    <3> QED  BY <1>0, <1>1, <2>1, <3>1 DEF StepAhead, SideAhead, Timings
  <2> QED  BY <1>1, <2>1, <2>2, <2>3 DEF Decides, Keeps, DoneAtEnd
<1> QED  BY <1>0, <1>1, <1>2, <1>3

\* The current entry and step, as places.
LEMMA EntryPlace ==
  ASSUME FlowOK, MoreEntries
  PROVE  /\ occ \in 1..N /\ phase \in Timings /\ ent \in DOMAIN Hooks[occ][phase]
         /\ Entry = Hooks[occ][phase][ent] /\ Range(EntrySteps[Entry]) \subseteq Steps
         /\ pos # 0 => /\ pos \in DOMAIN EntrySteps[Hooks[occ][phase][ent]]
                       /\ HookStep = HookAt(occ, phase, ent, pos)
<1>1. occ \in 1..N /\ phase \in Timings  BY DEF FlowOK, MoreEntries, InSide
<1>2. SideAt(occ) = Hooks[occ][phase] /\ SideAt(occ) \in Seq(Entries)
  BY <1>1, PlanAssumption DEF SideAt
<1>3. ent \in DOMAIN Hooks[occ][phase]  BY <1>2 DEF FlowOK, MoreEntries
<1>4. EntrySteps[Entry] \in Seq(Steps)  BY EntryType
<1> QED  BY <1>1, <1>2, <1>3, <1>4 DEF FlowOK, Entry, HookStep, HookAt, Range

\* The steps of an entry, at its gate.
LEMMA SkipEntryDecides ==
  ASSUME FlowOK, Placed, SkipEntry
  PROVE  Decides(Range(EntrySteps[Entry])) /\ UNCHANGED result
<1> DEFINE C == Range(EntrySteps[Entry])
<1>1. /\ MoreEntries /\ pos = 0 /\ Skip(C) /\ ent' = ent + 1
      /\ UNCHANGED <<phase, occ, pos, result>>
  BY DEF SkipEntry, AtEntryGate
<1>2. /\ occ \in 1..N /\ phase \in Timings /\ ent \in DOMAIN Hooks[occ][phase]
      /\ C = Range(EntrySteps[Hooks[occ][phase][ent]]) /\ C \subseteq Steps
      /\ Entry \in Entries
  BY <1>1, EntryPlace, EntryType
<1> HIDE DEF C
<1>3. ASSUME NEW s \in C PROVE Undecided(s) /\ ~Undecided(s)'
  <2>1. PICK p \in DOMAIN EntrySteps[Hooks[occ][phase][ent]] : s = HookAt(occ, phase, ent, p)
    BY <1>2 DEF Range, HookAt
  <2>2. StepAhead(occ, phase, ent, p)  BY <1>1, <1>2, Indices DEF StepAhead
  <2>3. Undecided(s)  BY <1>2, <2>1, <2>2 DEF Placed, HooksPlaced
  <2> QED  BY <1>1, <1>2, <2>3 DEF Skip, Undecided
<1>4. Keeps(C)  BY <1>1 DEF Keeps, Skip
<1>5. PassesAnchors(C)
  BY <1>1, <1>2, AnchorPlace DEF PassesAnchors, AnchorAhead, C
<1>6. PassesHooks(C)
  <2> SUFFICES ASSUME NEW i \in 1..N, NEW t \in Timings, NEW k \in DOMAIN Hooks[i][t],
                      NEW p \in DOMAIN EntrySteps[Hooks[i][t][k]]
               PROVE  StepAhead(i, t, k, p)'
                        <=> StepAhead(i, t, k, p) /\ HookAt(i, t, k, p) \notin C
    BY DEF PassesHooks
  <2>1. HookAt(i, t, k, p) \in C <=> i = occ /\ t = phase /\ k = ent
    BY <1>2, HookPlace
  <2>2. SideAhead(i, t)' <=> SideAhead(i, t)  BY <1>1 DEF SideAhead
  <2>3. SideAhead(i, t) => ~(i = occ /\ t = phase)
    BY <1>2 DEF SideAhead, Timings
  <2>4. k \in Nat /\ p \in Nat /\ ent \in Nat  BY Indices DEF FlowOK
  <2> QED  BY <1>1, <2>1, <2>2, <2>3, <2>4 DEF StepAhead
<1>7. DoneAtEnd'  BY <1>1, <1>2 DEF DoneAtEnd, Timings
<1> QED  BY <1>1, <1>2, <1>3, <1>4, <1>5, <1>6, <1>7 DEF Decides, C

\* A step of an entry, skipped or run.
LEMMA HookStepDecides ==
  ASSUME FlowOK, StepsOK, Placed, AtHookStep, GoTo(pos + 1), HookStep \in Steps,
         \/ Skip({HookStep}) /\ UNCHANGED result
         \/ \E end \in Ends : Execute(HookStep, end)
  PROVE  Decides({HookStep})
<1>1. /\ MoreEntries /\ pos # 0 /\ pos \in Nat /\ ent \in Nat
      /\ UNCHANGED <<phase, occ>>
      /\ IF pos + 1 <= Len(EntrySteps[Entry]) THEN ent' = ent /\ pos' = pos + 1
         ELSE ent' = ent + 1 /\ pos' = 0
  BY DEF AtHookStep, GoTo, FlowOK
<1>2. /\ occ \in 1..N /\ phase \in Timings /\ ent \in DOMAIN Hooks[occ][phase]
      /\ Entry = Hooks[occ][phase][ent]
      /\ pos \in DOMAIN EntrySteps[Hooks[occ][phase][ent]]
      /\ HookStep = HookAt(occ, phase, ent, pos)
  BY <1>1, EntryPlace
<1>3. Undecided(HookStep)
  BY <1>1, <1>2, Indices DEF Placed, HooksPlaced, StepAhead
<1>4. status'[HookStep] # "new" /\ Keeps({HookStep})
  BY DEF Skip, Execute, StepsOK, Keeps
<1>5. PassesAnchors({HookStep})
  BY <1>1, <1>2, HookPlace DEF PassesAnchors, AnchorAhead
<1>6. PassesHooks({HookStep})
  <2> SUFFICES ASSUME NEW i \in 1..N, NEW t \in Timings, NEW k \in DOMAIN Hooks[i][t],
                      NEW p \in DOMAIN EntrySteps[Hooks[i][t][k]]
               PROVE  StepAhead(i, t, k, p)'
                        <=> StepAhead(i, t, k, p) /\ HookAt(i, t, k, p) # HookStep
    BY DEF PassesHooks
  <2>1. HookAt(i, t, k, p) = HookStep <=> i = occ /\ t = phase /\ k = ent /\ p = pos
    BY <1>2, HookPlace
  <2>2. SideAhead(i, t)' <=> SideAhead(i, t)  BY <1>1 DEF SideAhead
  <2>3. SideAhead(i, t) => ~(i = occ /\ t = phase)
    BY <1>2 DEF SideAhead, Timings
  <2>4. /\ k \in Nat /\ p \in Nat \ {0} /\ p <= Len(EntrySteps[Hooks[i][t][k]])
        /\ Len(EntrySteps[Hooks[i][t][k]]) \in Nat
    BY Indices
  <2>5. CASE i = occ /\ t = phase
    <3>1. k = ent => p <= Len(EntrySteps[Entry]) /\ Len(EntrySteps[Entry]) \in Nat
      BY <1>2, <2>4, <2>5
    <3>2. (k > ent' \/ (k = ent' /\ p >= pos'))
            <=> (k > ent \/ (k = ent /\ p >= pos)) /\ ~(k = ent /\ p = pos)
      BY <1>1, <2>4, <3>1
    <3> QED  BY <1>1, <2>1, <2>2, <2>3, <2>5, <3>2 DEF StepAhead
  <2>6. CASE ~(i = occ /\ t = phase)  BY <1>1, <2>1, <2>2, <2>6 DEF StepAhead
  <2> QED  BY <2>5, <2>6
<1>7. DoneAtEnd'  BY <1>1, <1>2 DEF DoneAtEnd, Timings
<1>8. ASSUME NEW s \in {HookStep} PROVE Undecided(s) /\ ~Undecided(s)'
  BY <1>3, <1>4 DEF Undecided
<1> QED  BY <1>4, <1>5, <1>6, <1>7, <1>8 DEF Decides

-----------------------------------------------------------------------------
(* What HInv says of the sides and anchors that are over is kept.            *)

LEMMA SideKept ==
  ASSUME Placed, FlowOK, NEW C, Decides(C), NEW i \in 1..N, NEW t \in Timings, SideOver(i, t)
  PROVE  /\ \A s \in SideSteps(i, t) : result'[s] = result[s]
         /\ Authored(i, t)' <=> Authored(i, t)
         /\ AnyFailed(i, t)' <=> AnyFailed(i, t)
         /\ t = "after" => result'[Anchor[i]] = result[Anchor[i]]
<1>1. \A s \in SideSteps(i, t) : result'[s] = result[s]
  BY SideDecided, SidePlace, DecidesFreezes
<1>2. Authored(i, t)' <=> Authored(i, t)
  BY <1>1 DEF Authored, WasExecuted, SideSteps, StepsOf
<1>3. AnyFailed(i, t)' <=> AnyFailed(i, t)
  BY <1>1 DEF AnyFailed, SideSteps, StepsOf
<1>4. t = "after" => result'[Anchor[i]] = result[Anchor[i]]
  BY SideDecided, AnchorPlace, DecidesFreezes
<1> QED  BY <1>1, <1>2, <1>3, <1>4

LEMMA BeforeRanKept ==
  ASSUME Placed, FlowOK, NEW C, Decides(C), UNCHANGED plan, NEW i \in 1..N,
         SideOver(i, "before"), BeforeRan(i)
  PROVE  BeforeRan(i)'
<1> SUFFICES ASSUME NEW k \in DOMAIN Hooks[i].before, entryIf[Hooks[i].before[k]] = "none",
                    NEW p \in DOMAIN EntrySteps[Hooks[i].before[k]],
                    Plain(HookAt(i, "before", k, p))
             PROVE  WasExecuted(HookAt(i, "before", k, p))'
  BY DEF BeforeRan, plan, Plain, HookAt
<1>1. HookAt(i, "before", k, p) \in Steps /\ ~StepAhead(i, "before", k, p)
  BY HookPlace DEF SideOver, StepAhead, SideAhead, FlowOK, Timings
<1>2. WasExecuted(HookAt(i, "before", k, p))  BY <1>1 DEF BeforeRan
<1>3. ~Undecided(HookAt(i, "before", k, p))  BY <1>1, <1>2 DEF Placed, UndecidedIdle
<1>4. result'[HookAt(i, "before", k, p)] = result[HookAt(i, "before", k, p)]
  BY <1>1, <1>3, DecidesFreezes
<1> QED  BY <1>2, <1>4 DEF WasExecuted, HookAt

LEMMA AfterRanKept ==
  ASSUME Placed, FlowOK, NEW C, Decides(C), UNCHANGED plan, NEW i \in 1..N, AfterRan(i),
         \A k \in DOMAIN Hooks[i].after :
           /\ entryIf[Hooks[i].after[k]] = "none" /\ EntrySteps[Hooks[i].after[k]] # <<>>
           /\ Plain(HookAt(i, "after", k, 1)) /\ HookAt(i, "after", k, 1) \in C
           => WasExecuted(HookAt(i, "after", k, 1))'
  PROVE  AfterRan(i)'
<1> SUFFICES ASSUME NEW k \in DOMAIN Hooks[i].after, entryIf[Hooks[i].after[k]] = "none",
                    EntrySteps[Hooks[i].after[k]] # <<>>, Plain(HookAt(i, "after", k, 1)),
                    ~StepAhead(i, "after", k, 1)'
             PROVE  WasExecuted(HookAt(i, "after", k, 1))'
  BY DEF AfterRan, plan, Plain, HookAt
<1>1. "after" \in Timings /\ k \in DOMAIN Hooks[i]["after"]  BY DEF Timings
<1>2. 1 \in DOMAIN EntrySteps[Hooks[i].after[k]]
  <2>1. EntrySteps[Hooks[i].after[k]] \in Seq(Steps)  BY <1>1, PlanAssumption
  <2> QED  BY <2>1
<1>3. HookAt(i, "after", k, 1) \in Steps  BY <1>1, <1>2, HookPlace
<1>4. CASE HookAt(i, "after", k, 1) \in C  BY <1>4
<1>5. CASE HookAt(i, "after", k, 1) \notin C
  <2>1. ~StepAhead(i, "after", k, 1)  BY <1>1, <1>2, <1>5 DEF Decides, PassesHooks
  <2>2. WasExecuted(HookAt(i, "after", k, 1))  BY <2>1 DEF AfterRan
  <2>3. result'[HookAt(i, "after", k, 1)] = result[HookAt(i, "after", k, 1)]
    BY <1>3, <1>5 DEF Decides, Keeps
  <2> QED  BY <2>2, <2>3 DEF WasExecuted, HookAt
<1> QED  BY <1>4, <1>5

\* A step that executes nothing, and passes no after-hook that should have run.
LEMMA QuietKept ==
  ASSUME HInv, FlowOK, NEW C, Decides(C), UNCHANGED <<plan, result>>,
         \A i \in 1..N : WasExecuted(Anchor[i]) =>
           \A k \in DOMAIN Hooks[i].after :
             /\ entryIf[Hooks[i].after[k]] = "none" /\ EntrySteps[Hooks[i].after[k]] # <<>>
             /\ Plain(HookAt(i, "after", k, 1))
             => HookAt(i, "after", k, 1) \notin C
  PROVE  /\ Bracketed'
         /\ \A i \in 1..N : WasExecuted(Anchor[i])' => BeforeRan(i)' /\ AfterRan(i)'
<1>1. Bracketed'
  BY DEF HInv, Bracketed, HooksBracket, WasExecuted, StepsOf
<1>2. ASSUME NEW i \in 1..N, WasExecuted(Anchor[i])' PROVE BeforeRan(i)' /\ AfterRan(i)'
  <2>1. WasExecuted(Anchor[i])  BY <1>2 DEF WasExecuted
  <2>2. BeforeRan(i) /\ AfterRan(i)  BY <2>1 DEF HInv, PlainRun
  <2>3. SideOver(i, "before")  BY <2>1, SideDecided DEF HInv, Timings
  <2>4. UNCHANGED plan  BY DEF plan
  <2> QED  BY <2>1, <2>2, <2>3, <2>4, BeforeRanKept, AfterRanKept DEF HInv
<1> QED  BY <1>1, <1>2

\* The sides that were over are over; those newly over are reported.
LEMMA MeasuredKept ==
  ASSUME HInv, FlowOK, MetricsOK, NEW C, Decides(C),
         \A i \in 1..N, t \in Timings : SideOver(i, t) => SideOver(i, t)',
         hookMetrics \subseteq hookMetrics',
         \A m \in hookMetrics' \ hookMetrics : MetricTrue(m)',
         \A i \in 1..N, t \in Timings :
           SideOver(i, t)' /\ ~SideOver(i, t) /\ Authored(i, t)'
             => \E m \in hookMetrics' : m.occ = i /\ m.timing = t
  PROVE  Measured'
<1>0. Placed /\ Measured  BY DEF HInv
<1>1. ASSUME NEW m \in hookMetrics PROVE MetricTrue(m)'
  <2>1. m.occ \in 1..N /\ m.timing \in Timings  BY DEF MetricsOK, HookMetric
  <2>2. MetricTrue(m)  BY <1>0 DEF Measured
  <2>3. SideOver(m.occ, m.timing) /\ SideOver(m.occ, m.timing)'
    BY <2>1, <2>2 DEF MetricTrue
  <2>4. /\ Authored(m.occ, m.timing)' <=> Authored(m.occ, m.timing)
        /\ AnyFailed(m.occ, m.timing)' <=> AnyFailed(m.occ, m.timing)
        /\ m.timing = "after" => result'[Anchor[m.occ]] = result[Anchor[m.occ]]
    BY <1>0, <2>1, <2>3, SideKept
  <2> QED  BY <2>2, <2>3, <2>4 DEF MetricTrue
<1>2. Reported'
  <2> SUFFICES ASSUME NEW i \in 1..N, NEW t \in Timings, SideOver(i, t)', Authored(i, t)'
               PROVE  \E m \in hookMetrics' : m.occ = i /\ m.timing = t
    BY DEF Reported
  <2>1. CASE SideOver(i, t)
    <3>1. Authored(i, t)  BY <1>0, <2>1, SideKept
    <3> QED  BY <1>0, <2>1, <3>1 DEF Measured, Reported
  <2> QED  BY <2>1
<1>3. \A m \in hookMetrics' : MetricTrue(m)'  BY <1>1
<1> QED  BY <1>2, <1>3 DEF Measured

\* A step without `if:` outside of every call runs by default.
LEMMA PlainGate ==
  ASSUME NEW s \in Steps, Plain(s), NEW d, d = TRUE, NEW r, ShouldExecute(s, d, r)
  PROVE  r = "true"
<1>1. PICK ev \in [Scopes -> Outcomes] :
        IF IsActive(s, ev) = "true" THEN r \in OwnGate(s, d) ELSE r = IsActive(s, ev)
  BY DEF ShouldExecute
<1>2. Reached(s, ev) = {}  BY DEF Plain, Reached
<1>3. IsActive(s, ev) = "true"  BY <1>2 DEF IsActive
<1>4. s \notin OutputNodes  BY PlaceAssumption DEF Plain
<1>5. OwnGate(s, d) = {"true"}  BY <1>4 DEF OwnGate, Eval, Plain
<1> QED  BY <1>1, <1>3, <1>5

-----------------------------------------------------------------------------
(* Each action keeps HInv.                                                  *)

LEMMA EnterOccurrenceHooks ==
  ASSUME IInv, HInv, EnterOccurrence
  PROVE  HInv'
<1>0. FlowOK /\ MetricsOK /\ Placed /\ Measured /\ Decides({})
  BY EnteringDecides DEF IInv, Typed, HInv
<1>1. /\ phase = "gate" /\ phase' = "before" /\ occ' = occ /\ ent' = 1 /\ pos' = 0
      /\ ~sideFailed' /\ ~ranAny' /\ UNCHANGED <<plan, status, result, hookMetrics>>
      /\ occ \in 1..N
  BY <1>0, PlanAssumption DEF EnterOccurrence, AtGate, StartSide, FlowOK
<1>2. Placed'  BY <1>0, DecidesPlaced
<1>3. \A s \in SideSteps(occ, "before") : ~WasExecuted(s)
  BY <1>0, <1>1, SideDecided DEF SideAhead, Timings
<1>4. Locals'
  <2>1. ~Authored(occ, "before")' /\ ~AnyFailed(occ, "before")'
    BY <1>1, <1>3 DEF Authored, AnyFailed, WasExecuted, SideSteps, StepsOf
  <2> QED  BY <1>1, <2>1 DEF Locals, Authored, AnyFailed, SideSteps, StepsOf
<1>5. Bracketed' /\ \A i \in 1..N : WasExecuted(Anchor[i])' => BeforeRan(i)' /\ AfterRan(i)'
  BY <1>0, <1>1, QuietKept
<1>6. BeforeRan(occ)'
  <2>1. \A k \in DOMAIN Hooks[occ]["before"] : \A p \in DOMAIN EntrySteps[Hooks[occ]["before"][k]] :
          StepAhead(occ, "before", k, p)'
    BY <1>0, <1>1 DEF Decides, PassesHooks, StepAhead, SideAhead, Timings
  <2> QED  BY <1>1, <2>1 DEF BeforeRan, StepAhead, SideAhead
<1>7. PlainRun'  BY <1>5, <1>6 DEF PlainRun
<1>8. Measured'
  <2>1. \A i \in 1..N, t \in Timings : SideOver(i, t)' <=> SideOver(i, t)
    BY <1>1 DEF SideOver
  <2> QED  BY <1>0, <1>1, <2>1, MeasuredKept
<1> QED  BY <1>2, <1>4, <1>5, <1>7, <1>8 DEF HInv

LEMMA SkipOccurrenceHooks ==
  ASSUME IInv, HInv, SkipOccurrence
  PROVE  HInv'
<1>0. FlowOK /\ MetricsOK /\ Placed /\ Measured  BY DEF IInv, Typed, HInv
<1>1. Decides(WholeOccurrence) /\ UNCHANGED result /\ occ \in 1..N
  BY <1>0, SkipOccurrenceDecides
<1>2. phase = "gate" /\ phase' = "gate" /\ occ' = occ + 1 /\ UNCHANGED <<plan, hookMetrics>>
  BY DEF SkipOccurrence, AtGate, NextOccurrence
<1>3. Placed'  BY <1>0, <1>1, DecidesPlaced
<1>4. Locals'  BY <1>2 DEF Locals, InSide, Timings
<1>5. ~WasExecuted(Anchor[occ])
        /\ \A t \in Timings : \A s \in SideSteps(occ, t) : ~WasExecuted(s)
  BY <1>0, <1>1, <1>2, SideDecided, AnchorPlace
  DEF SideAhead, Placed, AnchorsPlaced, AnchorAhead, UndecidedIdle
<1>6. Bracketed' /\ \A i \in 1..N : WasExecuted(Anchor[i])' => BeforeRan(i)' /\ AfterRan(i)'
  <2>1. ASSUME NEW i \in 1..N, WasExecuted(Anchor[i]), NEW k \in DOMAIN Hooks[i].after,
               EntrySteps[Hooks[i].after[k]] # <<>>
        PROVE  HookAt(i, "after", k, 1) \notin WholeOccurrence
    <3>1. i # occ  BY <1>5, <2>1
    <3>2. EntrySteps[Hooks[i].after[k]] \in Seq(Steps)
      BY PlanAssumption DEF Timings
    <3>3. 1 \in DOMAIN EntrySteps[Hooks[i].after[k]]  BY <2>1, <3>2
    <3> QED  BY <1>1, <3>1, <3>3, HookPlace DEF WholeOccurrence, SideSteps, Timings
  <2> QED  BY <1>0, <1>1, <1>2, <2>1, QuietKept
<1>7. PlainRun'  BY <1>2, <1>6 DEF PlainRun
<1>8. Measured'
  <2>1. occ \in Nat /\ \A i \in 1..N, t \in Timings :
          /\ SideOver(i, t) => SideOver(i, t)'
          /\ SideOver(i, t)' /\ ~SideOver(i, t) => i = occ
    BY <1>1, <1>2, PlanAssumption DEF SideOver
  <2>2. ASSUME NEW i \in 1..N, NEW t \in Timings, i = occ PROVE ~Authored(i, t)'
    BY <1>1, <1>5, <2>2 DEF Authored, WasExecuted, SideSteps, StepsOf
  <2>3. \A i \in 1..N, t \in Timings : SideOver(i, t)' /\ ~SideOver(i, t) => ~Authored(i, t)'
    BY <2>1, <2>2
  <2> QED  BY <1>0, <1>1, <1>2, <2>1, <2>3, MeasuredKept
<1> QED  BY <1>3, <1>4, <1>6, <1>7, <1>8 DEF HInv

LEMMA FinishHooks ==
  ASSUME IInv, HInv, Finish
  PROVE  HInv'
<1>0. FlowOK /\ MetricsOK /\ Placed /\ Measured /\ Decides({})
  BY EnteringDecides DEF IInv, Typed, HInv
<1>1. /\ phase = "gate" /\ phase' = "done" /\ occ' = occ /\ occ = N + 1
      /\ UNCHANGED <<plan, result, hookMetrics>>
  BY DEF Finish
<1>2. Placed'  BY <1>0, DecidesPlaced
<1>3. Locals'  BY <1>1 DEF Locals, InSide, Timings
<1>4. Bracketed' /\ \A i \in 1..N : WasExecuted(Anchor[i])' => BeforeRan(i)' /\ AfterRan(i)'
  BY <1>0, <1>1, QuietKept
<1>5. PlainRun'  BY <1>1, <1>4 DEF PlainRun
<1>6. \A i \in 1..N, t \in Timings : SideOver(i, t)' <=> SideOver(i, t)
  BY <1>1, PlanAssumption DEF SideOver
<1>7. Measured'  BY <1>0, <1>1, <1>6, MeasuredKept
<1> QED  BY <1>2, <1>3, <1>4, <1>5, <1>7 DEF HInv

LEMMA RunAnchorHooks ==
  ASSUME IInv, HInv, NEW end \in Ends, RunAnchor(end)
  PROVE  HInv'
<1>0. FlowOK /\ MetricsOK /\ Placed /\ Measured /\ StepsOK  BY DEF IInv, Typed, HInv
<1>1. Decides({Anchor[occ]}) /\ occ \in 1..N  BY <1>0, RunAnchorDecides
<1>2. /\ phase = "anchor" /\ phase' = "after" /\ occ' = occ /\ ent' = 1 /\ pos' = 0
      /\ ~sideFailed' /\ ~ranAny' /\ ~entryFailed' /\ UNCHANGED <<plan, hookMetrics>>
      /\ anchorFailed' = (end # "ok") /\ Execute(Anchor[occ], end)
  BY DEF RunAnchor, StartSide
<1>3. Placed'  BY <1>0, <1>1, DecidesPlaced
<1>4. \A i \in 1..N, t \in Timings : \A s \in SideSteps(i, t) : result'[s] = result[s]
  BY <1>1, SidePlace, AnchorPlace DEF Decides, Keeps
<1>5. \A i \in 1..N : i # occ => result'[Anchor[i]] = result[Anchor[i]]
  BY <1>1, AnchorPlace DEF Decides, Keeps
<1>6. result'[Anchor[occ]] = IF end = "ok" THEN "success" ELSE "failed"
  BY <1>0, <1>1, <1>2, AnchorPlace DEF Execute, StepsOK
<1>7. Locals'
  <2>1. \A s \in SideSteps(occ, "after") : ~WasExecuted(s)
    BY <1>0, <1>1, <1>2, SideDecided DEF SideAhead, Timings
  <2>2. ~Authored(occ, "after")' /\ ~AnyFailed(occ, "after")'
    BY <1>1, <1>2, <1>4, <2>1 DEF Authored, AnyFailed, WasExecuted, SideSteps, StepsOf, Timings
  <2>3. WasExecuted(Anchor[occ])' /\ (anchorFailed' <=> result'[Anchor[occ]] = "failed")
    BY <1>2, <1>6 DEF WasExecuted
  <2> QED
    BY <1>2, <2>2, <2>3 DEF Locals, Authored, AnyFailed, WasExecuted, SideSteps, StepsOf
<1>8. Bracketed'
  <2> SUFFICES ASSUME NEW i \in 1..N PROVE HooksBracket(i)'  BY DEF Bracketed
  <2>1. HooksBracket(i)  BY DEF HInv, Bracketed
  <2>2. \A s \in StepsOf(Hooks[i].before) \cup StepsOf(Hooks[i].after) : result'[s] = result[s]
    BY <1>4 DEF SideSteps, Timings
  <2>3. CASE i = occ
    <3>1. \A s \in StepsOf(Hooks[i].before) : result[s] # "failed"
      BY <1>2, <2>3 DEF HInv, Locals, AnyFailed, SideSteps
    <3>2. result'[Anchor[i]] # "none"  BY <1>6, <2>3
    <3> QED  BY <2>2, <3>1, <3>2 DEF HooksBracket, WasExecuted, StepsOf
  <2>4. CASE i # occ
    <3>1. result'[Anchor[i]] = result[Anchor[i]]  BY <1>5, <2>4
    <3> QED  BY <2>1, <2>2, <3>1 DEF HooksBracket, WasExecuted, StepsOf
  <2> QED  BY <2>3, <2>4
<1>9. PlainRun'
  <2> SUFFICES ASSUME NEW i \in 1..N, WasExecuted(Anchor[i])' PROVE BeforeRan(i)' /\ AfterRan(i)'
    BY <1>2 DEF PlainRun
  <2>1. BeforeRan(i) /\ SideOver(i, "before")
    <3>1. CASE i = occ  BY <1>2, <3>1 DEF HInv, PlainRun, SideOver
    <3>2. CASE i # occ
      <4>1. WasExecuted(Anchor[i])  BY <1>5, <3>2 DEF WasExecuted
      <4> QED  BY <1>0, <4>1, SideDecided DEF HInv, PlainRun, Timings
    <3> QED  BY <3>1, <3>2
  <2>2. BeforeRan(i)'  BY <1>0, <1>1, <1>2, <2>1, BeforeRanKept
  <2>3. AfterRan(i)
    <3>1. CASE i = occ
      <4>1. SideAhead(i, "after")  BY <1>2, <3>1 DEF SideAhead
      <4> QED  BY <4>1 DEF AfterRan, StepAhead
    <3>2. CASE i # occ
      <4>1. WasExecuted(Anchor[i])  BY <1>5, <3>2 DEF WasExecuted
      <4> QED  BY <4>1 DEF HInv, PlainRun
    <3> QED  BY <3>1, <3>2
  <2>4. ASSUME NEW k \in DOMAIN Hooks[i].after, EntrySteps[Hooks[i].after[k]] # <<>>
        PROVE  HookAt(i, "after", k, 1) \notin {Anchor[occ]}
    <3>1. EntrySteps[Hooks[i].after[k]] \in Seq(Steps)  BY PlanAssumption DEF Timings
    <3>2. 1 \in DOMAIN EntrySteps[Hooks[i].after[k]]  BY <2>4, <3>1
    <3> QED  BY <1>1, <3>2, HookPlace DEF Timings
  <2>5. AfterRan(i)'  BY <1>0, <1>1, <1>2, <2>3, <2>4, AfterRanKept
  <2> QED  BY <2>2, <2>5
<1>10. \A i \in 1..N, t \in Timings : SideOver(i, t)' <=> SideOver(i, t)
  BY <1>2 DEF SideOver
<1>11. Measured'  BY <1>0, <1>1, <1>2, <1>10, MeasuredKept
<1> QED  BY <1>3, <1>7, <1>8, <1>9, <1>11 DEF HInv

LEMMA EnterEntryHooks ==
  ASSUME IInv, HInv, EnterEntry
  PROVE  HInv'
<1>0. FlowOK /\ MetricsOK /\ Placed /\ Measured /\ Decides({})
  BY EnteringDecides DEF IInv, Typed, HInv
<1>1. /\ MoreEntries /\ ent \in Nat \ {0} /\ ~entryFailed'
      /\ UNCHANGED <<phase, occ, plan, result, hookMetrics, sideFailed, ranAny, anchorFailed>>
      /\ (ent' = ent /\ pos' = 1) \/ (ent' = ent + 1 /\ pos' = 0)
  BY <1>0 DEF EnterEntry, AtEntryGate, GoTo, FlowOK
<1>2. Placed'  BY <1>0, DecidesPlaced
<1>3. Locals'
  <2>1. phase \in Timings  BY <1>1 DEF MoreEntries, InSide
  <2> QED
    BY <1>1, <2>1
    DEF HInv, Locals, InSide, Authored, AnyFailed, WasExecuted, SideSteps, StepsOf, Timings
<1>4. Bracketed' /\ \A i \in 1..N : WasExecuted(Anchor[i])' => BeforeRan(i)' /\ AfterRan(i)'
  BY <1>0, <1>1, QuietKept
<1>5. PlainRun'
  <2> SUFFICES ASSUME phase = "before", ~sideFailed PROVE BeforeRan(occ)'
    BY <1>1, <1>4 DEF PlainRun, MoreEntries, InSide, Timings
  <2>1. BeforeRan(occ) /\ occ \in 1..N  BY <1>0 DEF HInv, PlainRun, FlowOK, Timings
  <2>2. \A k \in DOMAIN Hooks[occ]["before"] : \A p \in DOMAIN EntrySteps[Hooks[occ]["before"][k]] :
          StepAhead(occ, "before", k, p)' <=> StepAhead(occ, "before", k, p)
    BY <1>0, <1>1, <2>1 DEF Decides, PassesHooks, Timings, StepAhead, SideAhead
  <2> QED  BY <1>1, <2>1, <2>2 DEF BeforeRan, WasExecuted, Plain, plan, HookAt
<1>6. \A i \in 1..N, t \in Timings : SideOver(i, t)' <=> SideOver(i, t)
  BY <1>1 DEF SideOver
<1>7. Measured'  BY <1>0, <1>1, <1>6, MeasuredKept
<1> QED  BY <1>2, <1>3, <1>4, <1>5, <1>7 DEF HInv

LEMMA SkipEntryHooks ==
  ASSUME IInv, HInv, SkipEntry
  PROVE  HInv'
<1> DEFINE C == Range(EntrySteps[Entry])
<1>0. /\ FlowOK /\ MetricsOK /\ Placed /\ Measured /\ Decides(C) /\ UNCHANGED result
  BY SkipEntryDecides DEF IInv, Typed, HInv
<1>1. /\ MoreEntries /\ ent \in Nat \ {0} /\ pos = 0 /\ pos' = 0 /\ ent' = ent + 1
      /\ UNCHANGED <<phase, occ, plan, hookMetrics, ranAny, anchorFailed, entryFailed>>
      /\ sideFailed => sideFailed'
      /\ EntryGate # {"true"}
  BY <1>0 DEF SkipEntry, AtEntryGate, RecordSideFailure, FlowOK
<1>2. /\ occ \in 1..N /\ phase \in Timings /\ ent \in DOMAIN Hooks[occ][phase]
      /\ C = Range(EntrySteps[Hooks[occ][phase][ent]])
      /\ entryIf[Hooks[occ][phase][ent]] # "none"
  BY <1>0, <1>1, EntryPlace DEF EntryGate
<1> HIDE DEF C
<1>3. Placed'  BY <1>0, DecidesPlaced
<1>4. Locals'
  BY <1>0, <1>1, <1>2
  DEF HInv, Locals, InSide, Authored, AnyFailed, WasExecuted, SideSteps, StepsOf, Timings
<1>5. Bracketed' /\ \A i \in 1..N : WasExecuted(Anchor[i])' => BeforeRan(i)' /\ AfterRan(i)'
  <2>1. ASSUME NEW i \in 1..N, NEW k \in DOMAIN Hooks[i].after,
               entryIf[Hooks[i].after[k]] = "none", EntrySteps[Hooks[i].after[k]] # <<>>
        PROVE  HookAt(i, "after", k, 1) \notin C
    <3>1. EntrySteps[Hooks[i].after[k]] \in Seq(Steps)  BY PlanAssumption DEF Timings
    <3>2. 1 \in DOMAIN EntrySteps[Hooks[i].after[k]]  BY <2>1, <3>1
    <3>3. ~(i = occ /\ "after" = phase /\ k = ent)  BY <1>2, <2>1
    <3> QED  BY <1>2, <3>2, <3>3, HookPlace DEF Timings
  <2> QED  BY <1>0, <1>1, <2>1, QuietKept
<1>6. PlainRun'
  <2> SUFFICES ASSUME phase = "before", ~sideFailed PROVE BeforeRan(occ)'
    BY <1>1, <1>2, <1>5 DEF PlainRun, Timings
  <2>1. BeforeRan(occ)  BY DEF HInv, PlainRun
  <2> SUFFICES ASSUME NEW k \in DOMAIN Hooks[occ].before, entryIf[Hooks[occ].before[k]] = "none",
                      NEW p \in DOMAIN EntrySteps[Hooks[occ].before[k]],
                      Plain(HookAt(occ, "before", k, p)), ~StepAhead(occ, "before", k, p)'
               PROVE  WasExecuted(HookAt(occ, "before", k, p))
    BY <1>0, <1>1 DEF BeforeRan, WasExecuted, Plain, plan, HookAt
  <2>2. HookAt(occ, "before", k, p) \notin C  BY <1>2, HookPlace DEF Timings
  <2>3. StepAhead(occ, "before", k, p)' <=> StepAhead(occ, "before", k, p)
    BY <1>0, <1>1, <1>2, <2>2 DEF Decides, PassesHooks, Timings, StepAhead, SideAhead
  <2> QED  BY <2>1, <2>3 DEF BeforeRan
<1>7. \A i \in 1..N, t \in Timings : SideOver(i, t)' <=> SideOver(i, t)
  BY <1>1 DEF SideOver
<1>8. Measured'  BY <1>0, <1>1, <1>7, MeasuredKept
<1> QED  BY <1>3, <1>4, <1>5, <1>6, <1>8 DEF HInv

LEMMA EndBeforeHooks ==
  ASSUME IInv, HInv, EndBefore
  PROVE  HInv'
<1>0. /\ FlowOK /\ MetricsOK /\ Placed /\ Measured /\ occ \in 1..N /\ UNCHANGED result
      /\ AnchorBlocked => Decides(AnchorAndAfter)
      /\ ~AnchorBlocked => Decides({}) /\ UNCHANGED status
  BY EndBeforeDecides DEF IInv, Typed, HInv
<1>1. PICK C : Decides(C) /\ (C = {} \/ (AnchorBlocked /\ C = AnchorAndAfter))
  BY <1>0
<1>2. phase = "before" /\ ReportSide /\ UNCHANGED plan  BY DEF EndBefore, SideDone
<1>3. Placed'  BY <1>0, <1>1, DecidesPlaced
<1>4. \/ AnchorBlocked /\ phase' = "gate" /\ occ' = occ + 1
      \/ ~AnchorBlocked /\ phase' = "anchor" /\ occ' = occ
  BY DEF EndBefore, NextOccurrence
<1>5. /\ ranAny <=> Authored(occ, "before")
      /\ AnyFailed(occ, "before") => sideFailed
  BY <1>2 DEF HInv, Locals, InSide, Timings
<1>6. Locals'
  <2>1. ~AnchorBlocked => ~AnyFailed(occ, "before")  BY <1>5 DEF AnchorBlocked
  <2> QED
    BY <1>0, <1>4, <2>1 DEF Locals, InSide, Timings, AnyFailed, SideSteps, StepsOf
<1>7. /\ ~WasExecuted(Anchor[occ])
      /\ \A s \in SideSteps(occ, "after") : ~WasExecuted(s)
  BY <1>0, <1>2, SideDecided, AnchorPlace
  DEF SideAhead, Placed, AnchorsPlaced, AnchorAhead, UndecidedIdle, Timings
<1>8. Bracketed' /\ \A i \in 1..N : WasExecuted(Anchor[i])' => BeforeRan(i)' /\ AfterRan(i)'
  <2>1. ASSUME NEW i \in 1..N, WasExecuted(Anchor[i]), NEW k \in DOMAIN Hooks[i].after,
               EntrySteps[Hooks[i].after[k]] # <<>>
        PROVE  HookAt(i, "after", k, 1) \notin C
    <3>1. i # occ  BY <1>7, <2>1
    <3>2. EntrySteps[Hooks[i].after[k]] \in Seq(Steps)  BY PlanAssumption DEF Timings
    <3>3. 1 \in DOMAIN EntrySteps[Hooks[i].after[k]]  BY <2>1, <3>2
    <3> QED  BY <1>0, <1>1, <3>1, <3>3, HookPlace DEF AnchorAndAfter, SideSteps, Timings
  <2> QED  BY <1>0, <1>1, <1>2, <2>1, QuietKept
<1>9. PlainRun'
  <2> SUFFICES ASSUME phase' = "anchor" PROVE BeforeRan(occ)'
    BY <1>4, <1>8 DEF PlainRun
  <2>1. BeforeRan(occ) /\ occ' = occ /\ C = {}
    BY <1>1, <1>2, <1>4 DEF HInv, PlainRun, AnchorBlocked
  <2>2. \A k \in DOMAIN Hooks[occ]["before"] : \A p \in DOMAIN EntrySteps[Hooks[occ]["before"][k]] :
          StepAhead(occ, "before", k, p)' <=> StepAhead(occ, "before", k, p)
    BY <1>0, <1>1, <2>1 DEF Decides, PassesHooks, Timings, StepAhead, SideAhead
  <2> QED  BY <1>0, <1>2, <2>1, <2>2 DEF BeforeRan, WasExecuted, Plain, plan, HookAt
<1>10. Measured'
  <2>1. occ \in Nat /\ \A i \in 1..N, t \in Timings : SideOver(i, t) => SideOver(i, t)'
    BY <1>0, <1>2, <1>4, PlanAssumption DEF SideOver
  <2>2. ASSUME NEW i \in 1..N, NEW t \in Timings, SideOver(i, t)', ~SideOver(i, t)
        PROVE  i = occ
    BY <1>0, <1>2, <1>4, <2>1, <2>2, PlanAssumption DEF SideOver
  <2> DEFINE new == [occ |-> occ, timing |-> phase,
                     result |-> IF sideFailed THEN "failed" ELSE "success",
                     anchorResult |-> AnchorResult]
  <2>3. hookMetrics' = IF ranAny THEN hookMetrics \cup {new} ELSE hookMetrics
    BY <1>2 DEF ReportSide
  <2>4. /\ new.occ = occ /\ new.timing = "before"
        /\ new.result = IF sideFailed THEN "failed" ELSE "success"
        /\ new.anchorResult = "none"
    BY <1>2 DEF AnchorResult
  <2> HIDE DEF new
  <2>5. ASSUME NEW m \in hookMetrics' \ hookMetrics PROVE MetricTrue(m)'
    <3>1. m = new /\ ranAny  BY <2>3, <2>5
    <3>2. /\ m.occ \in 1..N /\ m.occ = occ /\ m.timing = "before" /\ m.anchorResult = "none"
          /\ m.result = IF sideFailed THEN "failed" ELSE "success"
      BY <1>0, <2>4, <3>1
    <3>3. SideOver(m.occ, m.timing)'  BY <1>0, <1>4, <3>2, <2>1 DEF SideOver
    <3>4. Authored(m.occ, m.timing)'
      BY <1>0, <1>5, <3>1, <3>2 DEF Authored, WasExecuted, SideSteps, StepsOf
    <3>5. AnyFailed(m.occ, m.timing)' => m.result = "failed"
      BY <1>0, <1>5, <3>2 DEF AnyFailed, SideSteps, StepsOf
    <3> QED  BY <3>2, <3>3, <3>4, <3>5 DEF MetricTrue
  <2>6. ASSUME NEW i \in 1..N, NEW t \in Timings, SideOver(i, t)', ~SideOver(i, t),
               Authored(i, t)'
        PROVE  \E m \in hookMetrics' : m.occ = i /\ m.timing = t
    <3>1. i = occ /\ Authored(i, t)
      BY <1>0, <2>2, <2>6 DEF Authored, WasExecuted, SideSteps, StepsOf
    <3>2. t = "before"  BY <1>7, <3>1 DEF Authored, Timings
    <3> QED  BY <1>5, <2>3, <2>4, <3>1, <3>2
  <2> QED  BY <1>0, <1>1, <2>1, <2>3, <2>5, <2>6, MeasuredKept
<1> QED  BY <1>3, <1>6, <1>8, <1>9, <1>10 DEF HInv

LEMMA EndAfterHooks ==
  ASSUME IInv, HInv, EndAfter
  PROVE  HInv'
<1>0. FlowOK /\ MetricsOK /\ Placed /\ Measured /\ StepsOK /\ Decides({})
  BY EnteringDecides DEF IInv, Typed, HInv
<1>1. /\ phase = "after" /\ phase' = "gate" /\ occ' = occ + 1 /\ occ \in 1..N /\ ReportSide
      /\ UNCHANGED <<plan, result>>
  BY <1>0 DEF EndAfter, SideDone, NextOccurrence, FlowOK, Timings
<1>2. Placed'  BY <1>0, DecidesPlaced
<1>3. Locals'  BY <1>1 DEF Locals, InSide, Timings
<1>4. Bracketed' /\ \A i \in 1..N : WasExecuted(Anchor[i])' => BeforeRan(i)' /\ AfterRan(i)'
  BY <1>0, <1>1, QuietKept
<1>5. PlainRun'  BY <1>1, <1>4 DEF PlainRun
<1>6. /\ ranAny <=> Authored(occ, "after")
      /\ AnyFailed(occ, "after") => sideFailed
      /\ AnchorResult = result[Anchor[occ]]
  <2>1. result[Anchor[occ]] \in {"success", "failed", "none"}
    BY <1>0, <1>1, AnchorPlace DEF StepsOK, SideResult
  <2> QED
    BY <1>1, <2>1 DEF HInv, Locals, InSide, Timings, AnchorResult, WasExecuted
<1>7. Measured'
  <2>1. occ \in Nat /\ \A i \in 1..N, t \in Timings :
          /\ SideOver(i, t) => SideOver(i, t)'
          /\ SideOver(i, t)' /\ ~SideOver(i, t) => i = occ /\ t = "after"
    BY <1>1, PlanAssumption DEF SideOver, Timings
  <2> DEFINE new == [occ |-> occ, timing |-> phase,
                     result |-> IF sideFailed THEN "failed" ELSE "success",
                     anchorResult |-> AnchorResult]
  <2>2. hookMetrics' = IF ranAny THEN hookMetrics \cup {new} ELSE hookMetrics
    BY <1>1 DEF ReportSide
  <2>3. /\ new.occ = occ /\ new.timing = "after"
        /\ new.result = IF sideFailed THEN "failed" ELSE "success"
        /\ new.anchorResult = result[Anchor[occ]]
    BY <1>1, <1>6
  <2> HIDE DEF new
  <2>4. ASSUME NEW m \in hookMetrics' \ hookMetrics PROVE MetricTrue(m)'
    <3>1. m = new /\ ranAny  BY <2>2, <2>4
    <3>2. /\ m.occ \in 1..N /\ m.occ = occ /\ m.timing = "after"
          /\ m.anchorResult = result[Anchor[m.occ]]
          /\ m.result = IF sideFailed THEN "failed" ELSE "success"
      BY <1>1, <2>3, <3>1
    <3>3. SideOver(m.occ, m.timing)'  BY <1>1, <2>1, <3>2 DEF SideOver
    <3>4. Authored(m.occ, m.timing)'
      BY <1>1, <1>6, <3>1, <3>2 DEF Authored, WasExecuted, SideSteps, StepsOf
    <3>5. AnyFailed(m.occ, m.timing)' => m.result = "failed"
      BY <1>1, <1>6, <3>2 DEF AnyFailed, SideSteps, StepsOf
    <3> QED  BY <1>1, <3>2, <3>3, <3>4, <3>5 DEF MetricTrue
  <2>5. ASSUME NEW i \in 1..N, NEW t \in Timings, SideOver(i, t)', ~SideOver(i, t),
               Authored(i, t)'
        PROVE  \E m \in hookMetrics' : m.occ = i /\ m.timing = t
    <3>1. i = occ /\ t = "after" /\ Authored(i, t)
      BY <1>1, <2>1, <2>5 DEF Authored, WasExecuted, SideSteps, StepsOf
    <3> QED  BY <1>6, <2>2, <2>3, <3>1
  <2> QED  BY <1>0, <2>1, <2>2, <2>4, <2>5, MeasuredKept
<1> QED  BY <1>2, <1>3, <1>4, <1>5, <1>7 DEF HInv

LEMMA SkipHookStepHooks ==
  ASSUME IInv, HInv, SkipHookStep
  PROVE  HInv'
<1>0. /\ FlowOK /\ FlagsOK /\ StepsOK /\ MetricsOK /\ Placed /\ Measured
      /\ MoreEntries /\ pos # 0 /\ HookStep \in Steps
  BY EntryType DEF IInv, Typed, HInv, SkipHookStep, AtHookStep
<1>1. /\ Skip({HookStep}) /\ UNCHANGED <<phase, occ, plan, result, hookMetrics, ranAny, anchorFailed>>
      /\ sideFailed => sideFailed'
      /\ (ent' = ent /\ pos' = pos + 1) \/ (ent' = ent + 1 /\ pos' = 0)
  BY <1>0 DEF SkipHookStep, GoTo, RecordSideFailure
<1>2. /\ occ \in 1..N /\ phase \in Timings /\ ent \in DOMAIN Hooks[occ][phase]
      /\ Entry = Hooks[occ][phase][ent]
      /\ pos \in DOMAIN EntrySteps[Hooks[occ][phase][ent]]
      /\ HookStep = HookAt(occ, phase, ent, pos)
      /\ ent \in Nat \ {0} /\ pos \in Nat \ {0}
  BY <1>0, EntryPlace DEF FlowOK
<1>3. Decides({HookStep})  BY <1>0, <1>1, HookStepDecides DEF SkipHookStep
<1>4. Placed'  BY <1>0, <1>3, DecidesPlaced
<1>5. PICK r \in {"false", "throw"} : ShouldExecute(HookStep, ~ScopedFailure, r)
  BY DEF SkipHookStep
<1>6. Plain(HookStep) => ScopedFailure
  BY <1>0, <1>5, PlainGate DEF ScopedFailure, FlagsOK
<1>7. Locals'
  BY <1>1, <1>2
  DEF HInv, Locals, InSide, Authored, AnyFailed, WasExecuted, SideSteps, StepsOf, Timings
<1>8. Bracketed' /\ \A i \in 1..N : WasExecuted(Anchor[i])' => BeforeRan(i)' /\ AfterRan(i)'
  <2>1. ASSUME NEW i \in 1..N, NEW k \in DOMAIN Hooks[i].after,
               EntrySteps[Hooks[i].after[k]] # <<>>, Plain(HookAt(i, "after", k, 1))
        PROVE  HookAt(i, "after", k, 1) \notin {HookStep}
    <3>1. EntrySteps[Hooks[i].after[k]] \in Seq(Steps)  BY PlanAssumption DEF Timings
    <3>2. 1 \in DOMAIN EntrySteps[Hooks[i].after[k]]  BY <2>1, <3>1
    <3>3. phase = "after" /\ pos = 1 => ~Plain(HookStep)
      BY <1>6 DEF ScopedFailure, HInv, Locals
    <3>4. HookAt(i, "after", k, 1) = HookStep => phase = "after" /\ pos = 1
      BY <1>2, <3>2, HookPlace DEF Timings
    <3> QED  BY <2>1, <3>3, <3>4
  <2> QED  BY <1>0, <1>1, <1>3, <2>1, QuietKept
<1>9. PlainRun'
  <2> SUFFICES ASSUME phase = "before", ~sideFailed PROVE BeforeRan(occ)'
    BY <1>1, <1>2, <1>8 DEF PlainRun, Timings
  <2>1. BeforeRan(occ)  BY DEF HInv, PlainRun
  <2> SUFFICES ASSUME NEW k \in DOMAIN Hooks[occ].before, entryIf[Hooks[occ].before[k]] = "none",
                      NEW p \in DOMAIN EntrySteps[Hooks[occ].before[k]],
                      Plain(HookAt(occ, "before", k, p)), ~StepAhead(occ, "before", k, p)'
               PROVE  WasExecuted(HookAt(occ, "before", k, p))
    BY <1>1 DEF BeforeRan, WasExecuted, Plain, plan, HookAt
  <2>2. HookAt(occ, "before", k, p) # HookStep
    <3>1. SUFFICES ASSUME HookAt(occ, "before", k, p) = HookStep PROVE FALSE  OBVIOUS
    <3>2. k = ent  BY <1>2, <3>1, HookPlace DEF Timings
    <3> QED  BY <1>2, <1>6, <3>1, <3>2 DEF ScopedFailure
  <2>3. StepAhead(occ, "before", k, p)' <=> StepAhead(occ, "before", k, p)
    BY <1>1, <1>2, <1>3, <2>2 DEF Decides, PassesHooks, Timings, StepAhead, SideAhead
  <2> QED  BY <2>1, <2>3 DEF BeforeRan
<1>10. \A i \in 1..N, t \in Timings : SideOver(i, t)' <=> SideOver(i, t)
  BY <1>1 DEF SideOver
<1>11. Measured'  BY <1>0, <1>1, <1>3, <1>10, MeasuredKept
<1> QED  BY <1>4, <1>7, <1>8, <1>9, <1>11 DEF HInv

LEMMA RunHookStepHooks ==
  ASSUME IInv, HInv, NEW end \in Ends, RunHookStep(end)
  PROVE  HInv'
<1>0. /\ FlowOK /\ FlagsOK /\ StepsOK /\ MetricsOK /\ Placed /\ Measured
      /\ MoreEntries /\ pos # 0 /\ HookStep \in Steps
  BY EntryType DEF IInv, Typed, HInv, RunHookStep, AtHookStep
<1>1. /\ Execute(HookStep, end) /\ UNCHANGED <<phase, occ, plan, hookMetrics, anchorFailed>>
      /\ ranAny' = (ranAny \/ HookStep \notin OutputNodes)
      /\ sideFailed \/ end # "ok" => sideFailed'
      /\ (ent' = ent /\ pos' = pos + 1) \/ (ent' = ent + 1 /\ pos' = 0)
  BY <1>0 DEF RunHookStep, GoTo, RecordSideFailure
<1>2. /\ occ \in 1..N /\ phase \in Timings /\ ent \in DOMAIN Hooks[occ][phase]
      /\ Entry = Hooks[occ][phase][ent]
      /\ pos \in DOMAIN EntrySteps[Hooks[occ][phase][ent]]
      /\ HookStep = HookAt(occ, phase, ent, pos)
      /\ ent \in Nat \ {0} /\ pos \in Nat \ {0}
  BY <1>0, EntryPlace DEF FlowOK
<1>3. Decides({HookStep})  BY <1>0, HookStepDecides DEF RunHookStep
<1>4. Placed'  BY <1>0, <1>3, DecidesPlaced
<1>5. /\ result'[HookStep] = IF end = "ok" THEN "success" ELSE "failed"
      /\ \A s \in Steps \ {HookStep} : result'[s] = result[s]
      /\ ~WasExecuted(HookStep)
  BY <1>0, <1>1, <1>3 DEF Execute, StepsOK, Decides, Placed, UndecidedIdle
<1>6. \A i \in 1..N : Anchor[i] \in Steps /\ result'[Anchor[i]] = result[Anchor[i]]
  BY <1>2, <1>5, AnchorPlace, HookPlace
<1>7. \A i \in 1..N, t \in Timings : HookStep \in SideSteps(i, t) <=> i = occ /\ t = phase
  BY <1>2, HookPlace
<1>8. \A i \in 1..N, t \in Timings : \A s \in SideSteps(i, t) :
        s # HookStep => result'[s] = result[s]
  BY <1>5, SidePlace
<1>9. Locals'
  <2> DEFINE D == SideSteps(occ, phase)
  <2>0. HookStep \in D /\ D' = D  BY <1>1, <1>2, <1>7 DEF SideSteps, StepsOf
  <2>1. Authored(occ, phase)' <=> Authored(occ, phase) \/ HookStep \notin OutputNodes
    <3>1. Authored(occ, phase)' <=> \E s \in D \ OutputNodes : result'[s] # "none"
      BY <2>0 DEF Authored, WasExecuted
    <3> QED  BY <1>2, <1>5, <1>8, <2>0, <3>1 DEF Authored, WasExecuted
  <2>2. AnyFailed(occ, phase)' => AnyFailed(occ, phase) \/ end # "ok"
    <3>1. AnyFailed(occ, phase)' <=> \E s \in D : result'[s] = "failed"
      BY <2>0 DEF AnyFailed
    <3> QED  BY <1>2, <1>5, <1>8, <3>1 DEF AnyFailed
  <2>3. InSide' => (ranAny' <=> Authored(occ, phase)') /\ (AnyFailed(occ, phase)' => sideFailed')
    BY <1>0, <1>1, <1>2, <2>1, <2>2 DEF HInv, Locals, InSide, FlagsOK
  <2>4. phase' = "after" => /\ WasExecuted(Anchor[occ])'
                            /\ anchorFailed' <=> result'[Anchor[occ]] = "failed"
    BY <1>1, <1>2, <1>6 DEF HInv, Locals, WasExecuted
  <2>5. ~(ent' = 1 /\ pos' = 0) /\ pos' # 1 /\ phase' # "anchor"
    BY <1>1, <1>2 DEF Timings
  <2> QED  BY <1>1, <2>3, <2>4, <2>5 DEF Locals
<1>10. Bracketed'
  <2> SUFFICES ASSUME NEW i \in 1..N PROVE HooksBracket(i)'  BY DEF Bracketed
  <2>1. HooksBracket(i)  BY DEF HInv, Bracketed
  <2>2. ASSUME NEW s \in StepsOf(Hooks[i].after), result'[s] # "none"
        PROVE  result'[Anchor[i]] # "none"
    <3>0. s \in SideSteps(i, "after") /\ "after" \in Timings  BY DEF SideSteps, Timings
    <3>1. CASE s = HookStep
      <4>1. i = occ /\ phase = "after"  BY <1>7, <3>0, <3>1
      <4> QED  BY <1>6, <4>1 DEF HInv, Locals, WasExecuted
    <3>2. CASE s # HookStep
      <4>1. result[s] # "none"  BY <1>8, <2>2, <3>0, <3>2
      <4> QED  BY <1>6, <2>1, <4>1 DEF HooksBracket, WasExecuted
    <3> QED  BY <3>1, <3>2
  <2>3. ASSUME NEW s \in StepsOf(Hooks[i].before), result'[s] = "failed"
        PROVE  result'[Anchor[i]] = "none"
    <3>0. s \in SideSteps(i, "before") /\ "before" \in Timings  BY DEF SideSteps, Timings
    <3>1. CASE s = HookStep
      <4>1. i = occ /\ phase = "before"  BY <1>7, <3>0, <3>1
      <4>2. Undecided(Anchor[i])  BY <1>0, <4>1 DEF Placed, AnchorsPlaced, AnchorAhead
      <4> QED  BY <1>0, <1>6, <4>2 DEF Placed, UndecidedIdle, WasExecuted
    <3>2. CASE s # HookStep
      <4>1. result[s] = "failed"  BY <1>8, <2>3, <3>0, <3>2
      <4> QED  BY <1>6, <2>1, <4>1 DEF HooksBracket, WasExecuted
    <3> QED  BY <3>1, <3>2
  <2> QED  BY <2>2, <2>3 DEF HooksBracket, WasExecuted, StepsOf
<1>11. PlainRun'
  <2>1. ASSUME phase = "before", ~sideFailed PROVE BeforeRan(occ)'
    <3>1. BeforeRan(occ)  BY <2>1 DEF HInv, PlainRun
    <3> SUFFICES ASSUME NEW k \in DOMAIN Hooks[occ].before, entryIf[Hooks[occ].before[k]] = "none",
                        NEW p \in DOMAIN EntrySteps[Hooks[occ].before[k]],
                        Plain(HookAt(occ, "before", k, p)), ~StepAhead(occ, "before", k, p)'
                 PROVE  result'[HookAt(occ, "before", k, p)] # "none"
      BY <1>1 DEF BeforeRan, WasExecuted, Plain, plan, HookAt
    <3>2. CASE HookAt(occ, "before", k, p) = HookStep  BY <1>5, <3>2
    <3>3. CASE HookAt(occ, "before", k, p) # HookStep
      <4>0. HookAt(occ, "before", k, p) \in Steps  BY <1>2, HookPlace DEF Timings
      <4>1. StepAhead(occ, "before", k, p)' <=> StepAhead(occ, "before", k, p)
        BY <1>1, <1>2, <1>3, <3>3 DEF Decides, PassesHooks, Timings, StepAhead, SideAhead
      <4> QED  BY <1>5, <3>1, <3>3, <4>0, <4>1 DEF BeforeRan, WasExecuted
    <3> QED  BY <3>2, <3>3
  <2>2. ASSUME NEW i \in 1..N, WasExecuted(Anchor[i])' PROVE BeforeRan(i)' /\ AfterRan(i)'
    <3>1. WasExecuted(Anchor[i])  BY <1>6, <2>2 DEF WasExecuted
    <3>2. BeforeRan(i) /\ AfterRan(i)  BY <3>1 DEF HInv, PlainRun
    <3>3. SideOver(i, "before")  BY <1>0, <3>1, SideDecided DEF Timings
    <3>4. UNCHANGED plan  BY <1>1
    <3>5. \A k \in DOMAIN Hooks[i].after :
            HookAt(i, "after", k, 1) \in {HookStep} => result'[HookAt(i, "after", k, 1)] # "none"
      BY <1>5
    <3>6. \A k \in DOMAIN Hooks[i].after :
            HookAt(i, "after", k, 1) \in {HookStep} => WasExecuted(HookAt(i, "after", k, 1))'
      BY <3>5 DEF WasExecuted, HookAt
    <3> QED  BY <1>0, <1>3, <3>2, <3>3, <3>4, <3>6, BeforeRanKept, AfterRanKept
  <2> QED  BY <1>1, <1>2, <2>1, <2>2 DEF PlainRun, Timings
<1>12. \A i \in 1..N, t \in Timings : SideOver(i, t)' <=> SideOver(i, t)
  BY <1>1 DEF SideOver
<1>13. Measured'  BY <1>0, <1>1, <1>3, <1>12, MeasuredKept
<1> QED  BY <1>4, <1>9, <1>10, <1>11, <1>13 DEF HInv

LEMMA InitHooks == Init => HInv
<1> SUFFICES ASSUME Init PROVE HInv
  OBVIOUS
<1>1. /\ phase = "gate" /\ occ = 1 /\ hookMetrics = {} /\ ent = 1 /\ pos = 0
      /\ \A s \in Steps : Undecided(s) /\ ~WasExecuted(s)
  BY DEF Init, Undecided, WasExecuted
<1>2. \A i \in 1..N : AnchorAhead(i) /\ Anchor[i] \in Steps
  BY <1>1, AnchorPlace, PlanAssumption DEF AnchorAhead
<1>3. \A i \in 1..N, t \in Timings : SideAhead(i, t) /\ ~SideOver(i, t)
  BY <1>1, PlanAssumption DEF SideAhead, SideOver
<1>4. \A i \in 1..N, t \in Timings : \A s \in SideSteps(i, t) : s \in Steps
  BY SidePlace
<1>5. Placed
  BY <1>1, <1>2, <1>3, HookPlace
  DEF Placed, AnchorsPlaced, HooksPlaced, UndecidedIdle, DoneAtEnd, StepAhead
<1>6. Locals  BY <1>1 DEF Locals, InSide, Timings
<1>7. PlainRun  BY <1>1, <1>2 DEF PlainRun
<1>8. Bracketed
  <2> SUFFICES ASSUME NEW i \in 1..N PROVE HooksBracket(i)  BY DEF Bracketed
  <2>1. StepsOf(Hooks[i].before) \subseteq Steps /\ StepsOf(Hooks[i].after) \subseteq Steps
    BY <1>4 DEF SideSteps, Timings
  <2> QED  BY <1>1, <1>2, <2>1 DEF HooksBracket
<1>9. Measured  BY <1>1, <1>3 DEF Measured, Reported
<1> QED  BY <1>5, <1>6, <1>7, <1>8, <1>9 DEF HInv

LEMMA NextHooks == IInv /\ HInv /\ [Next]_vars => HInv'
<1> SUFFICES ASSUME IInv, HInv, [Next]_vars PROVE HInv'
  OBVIOUS
<1>1. CASE EnterOccurrence  BY <1>1, EnterOccurrenceHooks
<1>2. CASE SkipOccurrence  BY <1>2, SkipOccurrenceHooks
<1>3. CASE Finish  BY <1>3, FinishHooks
<1>4. ASSUME NEW end \in Ends, RunAnchor(end) PROVE HInv'  BY <1>4, RunAnchorHooks
<1>5. ASSUME NEW end \in Ends, RunHookStep(end) PROVE HInv'  BY <1>5, RunHookStepHooks
<1>6. CASE EnterEntry  BY <1>6, EnterEntryHooks
<1>7. CASE SkipEntry  BY <1>7, SkipEntryHooks
<1>8. CASE SkipHookStep  BY <1>8, SkipHookStepHooks
<1>9. CASE EndBefore  BY <1>9, EndBeforeHooks
<1>10. CASE EndAfter  BY <1>10, EndAfterHooks
<1>11. CASE UNCHANGED vars
  <2>1. UNCHANGED <<phase, occ, ent, pos, status, result, sideFailed, entryFailed, ranAny,
                    anchorFailed, hookMetrics, stepIf, entryIf>>
    BY <1>11 DEF vars, flow, plan, local
  <2>2. Placed'
    BY <2>1
    DEF HInv, Placed, AnchorsPlaced, HooksPlaced, UndecidedIdle, DoneAtEnd, AnchorAhead,
        StepAhead, SideAhead, Undecided, WasExecuted, HookAt
  <2>3. Locals'
    BY <2>1
    DEF HInv, Locals, InSide, Authored, AnyFailed, WasExecuted, SideSteps, StepsOf
  <2>4. PlainRun' /\ Bracketed'
    <3>1. PlainRun'
      <4>1. ASSUME NEW i, BeforeRan(i) PROVE BeforeRan(i)'
        BY <2>1, <4>1 DEF BeforeRan, StepAhead, SideAhead, WasExecuted, Plain, HookAt
      <4>2. ASSUME NEW i, AfterRan(i) PROVE AfterRan(i)'
        BY <2>1, <4>2 DEF AfterRan, StepAhead, SideAhead, WasExecuted, Plain, HookAt
      <4> QED BY <2>1, <4>1, <4>2 DEF HInv, PlainRun, WasExecuted
    <3>2. Bracketed'
      BY <2>1 DEF HInv, Bracketed, HooksBracket, SideAhead, WasExecuted, HookAt, StepsOf
    <3> QED BY <3>1, <3>2
  <2>5. Measured'
    BY <2>1
    DEF HInv, Measured, MetricTrue, Reported, SideOver, Authored, AnyFailed, WasExecuted,
        SideSteps, StepsOf
  <2> QED  BY <2>2, <2>3, <2>4, <2>5 DEF HInv
<1> QED
  BY <1>1, <1>2, <1>3, <1>4, <1>5, <1>6, <1>7, <1>8, <1>9, <1>10, <1>11
  DEF Next, Terminated

\* When the job is over the loops have passed every place.
LEMMA DonePassed ==
  ASSUME FlowOK, Placed, phase = "done"
  PROVE  \A i \in 1..N : /\ ~AnchorAhead(i)
                         /\ \A t \in Timings : SideOver(i, t) /\ ~SideAhead(i, t)
                         /\ \A t \in Timings : \A k, p : ~StepAhead(i, t, k, p)
BY PlanAssumption
   DEF Placed, DoneAtEnd, AnchorAhead, SideOver, SideAhead, StepAhead, Timings

\* What HInv says when the job is over, of the hooks without `if:`.
LEMMA PlainHooksAtEnd ==
  ASSUME FlowOK, HInv, phase = "done", NEW i \in 1..N
  PROVE  PlainHooksRun(i)
<1> SUFFICES ASSUME WasExecuted(Anchor[i]) PROVE PlainHooksRun(i)
  BY DEF PlainHooksRun
<1>1. BeforeRan(i) /\ AfterRan(i)  BY DEF HInv, PlainRun
<1>2. \A t \in Timings : \A k, p : ~StepAhead(i, t, k, p)  BY DonePassed DEF HInv
<1>3. ASSUME NEW e \in Range(Hooks[i].before), entryIf[e] = "none",
             NEW s \in Range(EntrySteps[e]), Plain(s)
      PROVE  WasExecuted(s)
  <2>1. PICK k \in DOMAIN Hooks[i].before : e = Hooks[i].before[k]  BY DEF Range
  <2>2. PICK p \in DOMAIN EntrySteps[e] : s = EntrySteps[e][p]  BY DEF Range
  <2>3. ~StepAhead(i, "before", k, p)  BY <1>2 DEF Timings
  <2> QED  BY <1>1, <1>3, <2>1, <2>2, <2>3 DEF BeforeRan, HookAt
<1>4. ASSUME NEW e \in Range(Hooks[i].after), entryIf[e] = "none",
             EntrySteps[e] # <<>>, Plain(EntrySteps[e][1])
      PROVE  WasExecuted(EntrySteps[e][1])
  <2>1. PICK k \in DOMAIN Hooks[i].after : e = Hooks[i].after[k]  BY DEF Range
  <2>2. ~StepAhead(i, "after", k, 1)  BY <1>2 DEF Timings
  <2> QED  BY <1>1, <1>4, <2>1, <2>2 DEF AfterRan, HookAt
<1> QED  BY <1>3, <1>4 DEF PlainHooksRun

\* Hooks run only around an anchor that runs, those without `if:` run whenever it
\* does, and the hook metrics tell the truth of both, in every job.
THEOREM HooksFollow == Spec => []HooksFollowAnchor
<1>1. ASSUME IInv, HInv PROVE HooksFollowAnchor
  <2>1. FlowOK /\ Placed /\ MetricsOK  BY <1>1 DEF IInv, Typed, HInv
  <2>2. \A i \in 1..N : HooksBracket(i) /\ (phase = "done" => PlainHooksRun(i))
    BY <1>1, <2>1, PlainHooksAtEnd DEF HInv, Bracketed
  <2>3. \A m \in hookMetrics :
          /\ Authored(m.occ, m.timing)
          /\ AnyFailed(m.occ, m.timing) => m.result = "failed"
          /\ m.anchorResult = IF m.timing = "after" THEN result[Anchor[m.occ]] ELSE "none"
    BY <1>1 DEF HInv, Measured, MetricTrue
  <2>4. phase = "done" =>
          \A i \in 1..N, t \in Timings :
            Authored(i, t) => \E m \in hookMetrics : m.occ = i /\ m.timing = t
    BY <1>1, <2>1, DonePassed DEF HInv, Measured, Reported
  <2>5. MetricsMatchOutcome
    BY <2>3, <2>4 DEF MetricsMatchOutcome, Authored, AnyFailed, SideSteps
  <2> QED  BY <2>2, <2>5 DEF HooksFollowAnchor
<1>2. IInv /\ HInv => HooksFollowAnchor  BY <1>1
<1> QED  BY <1>2, InitIInv, NextIInv, InitHooks, NextHooks, PTL DEF Spec

-----------------------------------------------------------------------------
(* The calls around a step: asked from the outermost one, and answered once.  *)

LEMMA LeastNat ==
  ASSUME NEW T, T \subseteq Nat, T # {}
  PROVE  \E x \in T : \A y \in T : ~(y < x)
<1>1. PICK x \in T : \A y \in T : ~ (<<y, x>> \in OpToRel(<, Nat))
  BY WFMin, NatLessThanWellFounded
<1> QED  BY <1>1 DEF OpToRel

\* When every call that is asked answers true, every call of the chain does.
LEMMA ActiveChain ==
  ASSUME NEW s \in Steps, NEW ev, IsActive(s, ev) = "true"
  PROVE  \A k \in DOMAIN ScopeChain[s] :
           ScopeChain[s][k] \in Reached(s, ev) /\ CallValue(ScopeChain[s][k], ev) = "true"
<1> DEFINE chain == ScopeChain[s]
           T == {k \in DOMAIN chain : CallValue(chain[k], ev) # "true"}
<1>1. chain \in Seq(Scopes) /\ DOMAIN chain = 1..Len(chain)  BY PlanAssumption
<1>2. \A sc \in Reached(s, ev) : CallValue(sc, ev) = "true"  BY DEF IsActive
<1>3. \A k \in DOMAIN chain : (\A j \in 1..(k-1) : CallValue(chain[j], ev) = "true")
        => chain[k] \in Reached(s, ev)
  BY DEF Reached
<1>4. T = {}
  <2> SUFFICES ASSUME T # {} PROVE FALSE  OBVIOUS
  <2>1. T \subseteq Nat  BY <1>1
  <2>2. PICK x \in T : \A y \in T : ~(y < x)
    <3> HIDE DEF T
    <3> QED  BY <2>1, LeastNat
  <2>3. \A j \in 1..(x-1) : CallValue(chain[j], ev) = "true"  BY <1>1, <2>2
  <2> QED  BY <1>2, <1>3, <2>2, <2>3
<1>5. \A k \in DOMAIN chain : CallValue(chain[k], ev) = "true"  BY <1>4
<1>6. \A k \in DOMAIN chain : \A j \in 1..(k-1) : j \in DOMAIN chain  BY <1>1
<1>7. \A k \in DOMAIN chain : chain[k] \in Reached(s, ev)  BY <1>3, <1>5, <1>6
<1> QED  BY <1>5, <1>7

\* A step is asked to run: what the memo holds afterwards, and what it says.
LEMMA GateMemo ==
  ASSUME NEW s \in Steps, NEW d, NEW r, ShouldExecute(s, d, r)
  PROVE  /\ \A sc \in Scopes : active[sc] = "true" => active'[sc] = "true"
         /\ r = "true" => \A k \in DOMAIN ScopeChain[s] : active'[ScopeChain[s][k]] = "true"
<1>1. PICK ev \in [Scopes -> Outcomes] :
        /\ active' = Memoized(s, ev)
        /\ IF IsActive(s, ev) = "true" THEN r \in OwnGate(s, d) ELSE r = IsActive(s, ev)
  BY DEF ShouldExecute
<1>2. \A sc \in Scopes : active[sc] = "true" => active'[sc] = "true"
  BY <1>1 DEF Memoized, CallValue
<1>3. ASSUME r = "true", NEW k \in DOMAIN ScopeChain[s]
      PROVE  active'[ScopeChain[s][k]] = "true"
  <2>1. IsActive(s, ev) = "true"  BY <1>1, <1>3
  <2>2. ScopeChain[s][k] \in Reached(s, ev) /\ CallValue(ScopeChain[s][k], ev) = "true"
    BY <2>1, ActiveChain
  <2>3. ScopeChain[s][k] \in Scopes  BY PlanAssumption
  <2> QED  BY <1>1, <2>2, <2>3 DEF Memoized
<1> QED  BY <1>2, <1>3

\* An always() step of a call that has let a step of its own run, runs or throws.
LEMMA AlwaysGate ==
  ASSUME NEW s \in Steps, NEW t \in Steps, s # t, ScopeChain[s] = ScopeChain[t],
         WasExecuted(s), \A k \in DOMAIN ScopeChain[s] : active[ScopeChain[s][k]] = "true",
         stepIf[t] = "always", NEW d \in BOOLEAN, NEW r, ShouldExecute(t, d, r)
  PROVE  r \in {"true", "throw"}
<1>1. PICK ev \in [Scopes -> Outcomes] :
        IF IsActive(t, ev) = "true" THEN r \in OwnGate(t, d) ELSE r = IsActive(t, ev)
  BY DEF ShouldExecute
<1>2. \A sc \in Reached(t, ev) : CallValue(sc, ev) = "true"  BY DEF Reached, CallValue
<1>3. IsActive(t, ev) = "true"  BY <1>2 DEF IsActive
<1>4. t \in OutputNodes => s \in Children[t]  BY PlaceAssumption
<1>5. OwnGate(t, d) \subseteq {"true", "throw"}
  BY <1>4 DEF OwnGate, Eval, Explicit
<1> QED  BY <1>1, <1>3, <1>5

\* Where the steps of one call are.
LEMMA SameCallPlaces ==
  ASSUME NEW s \in Steps, NEW t \in Steps, SameCall(s, t)
  PROVE  /\ s # t /\ ScopeChain[s] = ScopeChain[t]
         /\ \/ \E i, j \in 1..N : i < j /\ Anchor[i] = s /\ Anchor[j] = t
                                  /\ Hooks[j].before = <<>>
            \/ \E i \in 1..N, u \in Timings : \E k \in DOMAIN Hooks[i][u] :
                 \E p, q \in DOMAIN EntrySteps[Hooks[i][u][k]] :
                   p < q /\ s = HookAt(i, u, k, p) /\ t = HookAt(i, u, k, q)
<1>1. CASE \E i, j \in 1..N : i < j /\ Anchor[i] = s /\ Anchor[j] = t /\ Hooks[j].before = <<>>
  BY <1>1, AnchorPlace DEF SameCall
<1>2. CASE \E e \in Entries : \E k, m \in DOMAIN EntrySteps[e] :
             k < m /\ EntrySteps[e][k] = s /\ EntrySteps[e][m] = t
  <2>1. PICK e \in Entries : \E k, m \in DOMAIN EntrySteps[e] :
             k < m /\ EntrySteps[e][k] = s /\ EntrySteps[e][m] = t
    BY <1>2
  <2>2. PICK p, q \in DOMAIN EntrySteps[e] : p < q /\ EntrySteps[e][p] = s /\ EntrySteps[e][q] = t
    BY <2>1
  <2>3. PICK i \in 1..N, u \in Timings : e \in Range(Hooks[i][u])  BY PlaceAssumption
  <2>4. PICK k \in DOMAIN Hooks[i][u] : Hooks[i][u][k] = e  BY <2>3 DEF Range
  <2>5. s = HookAt(i, u, k, p) /\ t = HookAt(i, u, k, q)  BY <2>2, <2>4 DEF HookAt
  <2>6. p \in Nat /\ q \in Nat
    BY <2>4, Indices
  <2>7. s # t  BY <2>2, <2>4, <2>5, <2>6, HookPlace
  <2> QED  BY <2>2, <2>4, <2>5, <2>7 DEF SameCall
<1> QED  BY <1>1, <1>2 DEF SameCall

\* They are decided in their order.
LEMMA SameCallOrder ==
  ASSUME Placed, FlowOK, NEW s \in Steps, NEW t \in Steps, SameCall(s, t), ~Undecided(t)
  PROVE  ~Undecided(s)
<1>0. occ \in Nat /\ ent \in Nat /\ pos \in Nat /\ N \in Nat  BY PlanAssumption DEF FlowOK
<1>1. CASE \E i, j \in 1..N : i < j /\ Anchor[i] = s /\ Anchor[j] = t
  BY <1>0, <1>1 DEF Placed, AnchorsPlaced, AnchorAhead
<1>2. CASE \E i \in 1..N, u \in Timings : \E k \in DOMAIN Hooks[i][u] :
             \E p, q \in DOMAIN EntrySteps[Hooks[i][u][k]] :
               p < q /\ s = HookAt(i, u, k, p) /\ t = HookAt(i, u, k, q)
  <2>1. PICK i \in 1..N, u \in Timings : \E k \in DOMAIN Hooks[i][u] :
             \E p, q \in DOMAIN EntrySteps[Hooks[i][u][k]] :
               p < q /\ s = HookAt(i, u, k, p) /\ t = HookAt(i, u, k, q)
    BY <1>2
  <2>2. PICK k \in DOMAIN Hooks[i][u] : \E p, q \in DOMAIN EntrySteps[Hooks[i][u][k]] :
               p < q /\ s = HookAt(i, u, k, p) /\ t = HookAt(i, u, k, q)
    BY <2>1
  <2>3. PICK p, q \in DOMAIN EntrySteps[Hooks[i][u][k]] :
               p < q /\ s = HookAt(i, u, k, p) /\ t = HookAt(i, u, k, q)
    BY <2>2
  <2>4. p \in Nat /\ q \in Nat /\ k \in Nat  BY Indices
  <2>5. ~StepAhead(i, u, k, q)  BY <2>3 DEF Placed, HooksPlaced
  <2>6. ~StepAhead(i, u, k, p)  BY <1>0, <2>3, <2>4, <2>5 DEF StepAhead
  <2> QED  BY <2>3, <2>6 DEF Placed, HooksPlaced
<1> QED  BY <1>1, <1>2, SameCallPlaces

LEMMA SameCallAnchor ==
  ASSUME NEW s \in Steps, NEW i \in 1..N, SameCall(s, Anchor[i])
  PROVE  \E j \in 1..N : j < i /\ s = Anchor[j] /\ Hooks[i].before = <<>>
<1>1. Anchor[i] \in Steps  BY AnchorPlace
<1>2. \A j \in 1..N, u \in Timings : \A k \in DOMAIN Hooks[j][u] :
        \A q \in DOMAIN EntrySteps[Hooks[j][u][k]] : Anchor[i] # HookAt(j, u, k, q)
  BY HookPlace
<1> QED  BY <1>1, <1>2, SameCallPlaces, AnchorPlace

LEMMA SameCallEntry ==
  ASSUME NEW s \in Steps, NEW i \in 1..N, NEW u \in Timings, NEW k \in DOMAIN Hooks[i][u],
         NEW q \in DOMAIN EntrySteps[Hooks[i][u][k]], SameCall(s, HookAt(i, u, k, q))
  PROVE  s \in Range(EntrySteps[Hooks[i][u][k]]) /\ s \in SideSteps(i, u)
<1> DEFINE t == HookAt(i, u, k, q)
<1>1. t \in Steps /\ \A j \in 1..N : t # Anchor[j]  BY HookPlace
<1>2. PICK j \in 1..N, v \in Timings : \E m \in DOMAIN Hooks[j][v] :
         \E p, r \in DOMAIN EntrySteps[Hooks[j][v][m]] :
           s = HookAt(j, v, m, p) /\ t = HookAt(j, v, m, r)
  BY <1>1, SameCallPlaces
<1>3. PICK m \in DOMAIN Hooks[j][v] : \E p, r \in DOMAIN EntrySteps[Hooks[j][v][m]] :
           s = HookAt(j, v, m, p) /\ t = HookAt(j, v, m, r)
  BY <1>2
<1>4. PICK p, r \in DOMAIN EntrySteps[Hooks[j][v][m]] :
           s = HookAt(j, v, m, p) /\ t = HookAt(j, v, m, r)
  BY <1>3
<1>5. i = j /\ u = v /\ k = m  BY <1>4, HookPlace
<1> QED  BY <1>4, <1>5, HookPlace

\* Steps that are skipped together with the earlier steps of their call.
LEMMA EntrySkipped ==
  ASSUME Placed, NEW C, Decides(C), UNCHANGED result,
         NEW i \in 1..N, NEW u \in Timings, NEW t \in SideSteps(i, u),
         \A k \in DOMAIN Hooks[i][u] :
           t \in Range(EntrySteps[Hooks[i][u][k]]) => Range(EntrySteps[Hooks[i][u][k]]) \subseteq C,
         NEW s \in Steps, SameCall(s, t)
  PROVE  ~WasExecuted(s)'
<1>1. PICK k \in DOMAIN Hooks[i][u] : \E q \in DOMAIN EntrySteps[Hooks[i][u][k]] :
        t = HookAt(i, u, k, q)
  BY SidePlace
<1>2. PICK q \in DOMAIN EntrySteps[Hooks[i][u][k]] : t = HookAt(i, u, k, q)  BY <1>1
<1>3. s \in Range(EntrySteps[Hooks[i][u][k]]) /\ t \in Range(EntrySteps[Hooks[i][u][k]])
  BY <1>2, SameCallEntry, HookPlace
<1>4. s \in C  BY <1>3
<1> QED  BY <1>4 DEF Decides, Placed, UndecidedIdle, WasExecuted

FailuresKept ==
  \A k \in DOMAIN failures : k \in DOMAIN failures' /\ failures'[k] = failures[k]
MemoKept == \A sc \in Scopes : active[sc] = "true" => active'[sc] = "true"

LEMMA ThrownKept ==
  ASSUME ErrorsOK, NEW e \in Errors, Thrown(e)
  PROVE  /\ FailuresKept
         /\ \E k \in DOMAIN failures' : failures'[k] = e
<1>1. failures \in Seq(Errors) /\ failures' = Append(failures, e)  BY DEF ErrorsOK, Thrown
<1>2. Len(failures) + 1 \in DOMAIN failures' /\ failures'[Len(failures) + 1] = e  BY <1>1
<1> QED  BY <1>1, <1>2 DEF FailuresKept

\* The calls of the steps that are decided have let them run, or they do not run.
LEMMA CallsKept ==
  ASSUME Placed, FlowOK, Called, Passed, NEW C, Decides(C), UNCHANGED plan,
         FailuresKept, MemoKept,
         \A s \in C : WasExecuted(s)' =>
           \A k \in DOMAIN ScopeChain[s] : active'[ScopeChain[s][k]] = "true",
         \A s \in Steps, t \in C :
           SameCall(s, t) /\ stepIf[t] = "always" /\ WasExecuted(s)'
             => WasExecuted(t)' \/ GateThrew(t)'
  PROVE  Called' /\ Passed'
<1>1. Called'
  <2> SUFFICES ASSUME NEW s \in Steps, WasExecuted(s)', NEW k \in DOMAIN ScopeChain[s]
               PROVE  active'[ScopeChain[s][k]] = "true"
    BY DEF Called
  <2>1. CASE s \in C  BY <2>1
  <2>2. CASE s \notin C
    <3>1. WasExecuted(s)  BY <2>2 DEF Decides, Keeps, WasExecuted
    <3>2. ScopeChain[s][k] \in Scopes  BY PlanAssumption
    <3> QED  BY <3>1, <3>2 DEF Called, MemoKept
  <2> QED  BY <2>1, <2>2
<1>2. Passed'
  <2> SUFFICES ASSUME NEW s \in Steps, NEW t \in Steps, SameCall(s, t), WasExecuted(s)',
                      stepIf[t] = "always", ~Undecided(t)'
               PROVE  WasExecuted(t)' \/ GateThrew(t)'
    BY DEF Passed, plan, SameCall
  <2>1. CASE t \in C  BY <2>1
  <2>2. CASE t \notin C
    <3>1. ~Undecided(t) /\ result'[t] = result[t]  BY <2>2 DEF Decides, Keeps, Undecided
    <3>2. ~Undecided(s)  BY <3>1, SameCallOrder
    <3>3. WasExecuted(s)  BY <3>2, DecidesFreezes DEF WasExecuted
    <3>4. WasExecuted(t) \/ GateThrew(t)  BY <3>1, <3>3 DEF Passed
    <3>5. GateThrew(t) => GateThrew(t)'  BY DEF GateThrew, FailuresKept
    <3> QED  BY <3>1, <3>4, <3>5 DEF WasExecuted
  <2> QED  BY <2>1, <2>2
<1> QED  BY <1>1, <1>2

\* A gate that refuses an always() step of a call that let a step run has thrown.
LEMMA RefusedThrows ==
  ASSUME Called, NEW s \in Steps, NEW t \in Steps, SameCall(s, t), WasExecuted(s),
         stepIf[t] = "always", NEW d \in BOOLEAN, NEW r \in {"false", "throw"},
         ShouldExecute(t, d, r)
  PROVE  r = "throw"
<1>1. s # t /\ ScopeChain[s] = ScopeChain[t]  BY SameCallPlaces
<1>2. \A k \in DOMAIN ScopeChain[s] : active[ScopeChain[s][k]] = "true"  BY DEF Called
<1>3. r \in {"true", "throw"}  BY <1>1, <1>2, AlwaysGate
<1> QED  BY <1>3

-----------------------------------------------------------------------------
(* Each action keeps CInv.                                                  *)

LEMMA EnterOccurrenceCalls ==
  ASSUME IInv, HInv, CInv, EnterOccurrence
  PROVE  CInv'
<1>0. FlowOK /\ Placed /\ Called /\ Passed /\ Decides({})
  BY EnteringDecides DEF IInv, Typed, HInv, CInv
<1>1. /\ phase = "gate" /\ phase' = "before" /\ occ' = occ /\ ~sideFailed' /\ occ \in 1..N
      /\ UNCHANGED <<plan, result, failures>> /\ ShouldExecute(Anchor[occ], ~ctxFailed, "true")
  BY <1>0, PlanAssumption DEF EnterOccurrence, AtGate, StartSide, FlowOK
<1>2. /\ MemoKept
      /\ \A k \in DOMAIN ScopeChain[Anchor[occ]] : active'[ScopeChain[Anchor[occ]][k]] = "true"
  BY <1>1, AnchorPlace, GateMemo DEF MemoKept
<1>3. FailuresKept  BY <1>1 DEF FailuresKept
<1>4. Called' /\ Passed'  BY <1>0, <1>1, <1>2, <1>3, CallsKept
<1>5. Entered' /\ EmptySide'  BY <1>1, <1>2 DEF Entered, EmptySide
<1> QED  BY <1>4, <1>5 DEF CInv

LEMMA SkipOccurrenceCalls ==
  ASSUME IInv, HInv, CInv, SkipOccurrence
  PROVE  CInv'
<1>0. FlowOK /\ FlagsOK /\ ErrorsOK /\ Placed /\ Called /\ Passed
  BY DEF IInv, Typed, HInv, CInv
<1>1. Decides(WholeOccurrence) /\ UNCHANGED result /\ occ \in 1..N
  BY <1>0, SkipOccurrenceDecides
<1>2. phase' = "gate" /\ UNCHANGED plan /\ Anchor[occ] \in Steps
  BY <1>1, AnchorPlace DEF SkipOccurrence, NextOccurrence
<1>20. PICK a \in Steps : a = Anchor[occ]  BY <1>2
<1>3. PICK r \in {"false", "throw"} :
        /\ ShouldExecute(a, ~ctxFailed, r)
        /\ IF r = "throw" THEN Thrown(<<"gate", a>>) ELSE UNCHANGED failures
  BY <1>20 DEF SkipOccurrence
<1>4. MemoKept  BY <1>3, GateMemo DEF MemoKept
<1>5. <<"gate", a>> \in Errors  BY DEF Errors
<1>6. FailuresKept /\ (r = "throw" => GateThrew(a)')
  <2>1. CASE r = "throw"  BY <1>0, <1>3, <1>5, <2>1, ThrownKept DEF GateThrew
  <2>2. CASE r # "throw"  BY <1>3, <2>2 DEF FailuresKept
  <2> QED  BY <2>1, <2>2
<1>7. ASSUME NEW s \in Steps, NEW t \in WholeOccurrence, SameCall(s, t), stepIf[t] = "always",
             WasExecuted(s)'
      PROVE  GateThrew(t)'
  <2>1. CASE t = a
    <3>1. WasExecuted(s)  BY <1>1, <1>7 DEF WasExecuted
    <3>2. r = "throw"  BY <1>0, <1>3, <1>7, <2>1, <3>1, RefusedThrows DEF FlagsOK
    <3> QED  BY <1>6, <2>1, <3>2
  <2>2. CASE t # a
    <3>1. PICK u \in Timings : t \in SideSteps(occ, u)
      BY <1>20, <2>2 DEF WholeOccurrence, SideSteps, Timings
    <3>2. \A k \in DOMAIN Hooks[occ][u] :
            Range(EntrySteps[Hooks[occ][u][k]]) \subseteq WholeOccurrence
      BY DEF WholeOccurrence, StepsOf, Range, Timings
    <3>3. ~WasExecuted(s)'  BY <1>0, <1>1, <1>7, <3>1, <3>2, EntrySkipped
    <3> QED  BY <1>7, <3>3
  <2> QED  BY <2>1, <2>2
<1>8. \A s \in WholeOccurrence : ~WasExecuted(s)'
  BY <1>0, <1>1 DEF Decides, Placed, UndecidedIdle, WasExecuted
<1>9. Called' /\ Passed'
  BY <1>0, <1>1, <1>2, <1>4, <1>6, <1>7, <1>8, CallsKept
<1>10. Entered' /\ EmptySide'  BY <1>2 DEF Entered, EmptySide, InSide, Timings
<1> QED  BY <1>9, <1>10 DEF CInv

LEMMA RunAnchorCalls ==
  ASSUME IInv, HInv, CInv, NEW end \in Ends, RunAnchor(end)
  PROVE  CInv'
<1>0. FlowOK /\ StepsOK /\ ErrorsOK /\ Placed /\ Called /\ Passed
  BY DEF IInv, Typed, HInv, CInv
<1>1. Decides({Anchor[occ]}) /\ occ \in 1..N /\ Anchor[occ] \in Steps
  BY <1>0, RunAnchorDecides, AnchorPlace
<1>2. /\ phase = "anchor" /\ phase' = "after" /\ ~sideFailed'
      /\ Execute(Anchor[occ], end) /\ UNCHANGED <<plan, active>>
      /\ Thrown(<<"run", Anchor[occ]>>) \/ UNCHANGED failures
  BY DEF RunAnchor, StartSide
<1>3. MemoKept  BY <1>2 DEF MemoKept
<1>4. <<"run", Anchor[occ]>> \in Errors  BY <1>1 DEF Errors
<1>5. FailuresKept
  <2>1. CASE UNCHANGED failures  BY <2>1 DEF FailuresKept
  <2> QED  BY <1>0, <1>2, <1>4, <2>1, ThrownKept
<1>6. \A s \in {Anchor[occ]} : result'[s] # "none"
  BY <1>0, <1>1, <1>2 DEF Execute, StepsOK
<1>7. \A s \in {Anchor[occ]} : WasExecuted(s)'
  BY <1>6 DEF WasExecuted
<1>8. \A s \in {Anchor[occ]} : \A k \in DOMAIN ScopeChain[s] : active'[ScopeChain[s][k]] = "true"
  BY <1>2 DEF CInv, Entered
<1>9. Called' /\ Passed'
  BY <1>0, <1>1, <1>2, <1>3, <1>5, <1>7, <1>8, CallsKept
<1>10. Entered' /\ EmptySide'  BY <1>2 DEF Entered, EmptySide
<1> QED  BY <1>9, <1>10 DEF CInv

\* The steps that leave the gates and the steps alone.
LEMMA PassingCalls ==
  ASSUME IInv, HInv, CInv, EnterEntry \/ Finish \/ EndAfter
  PROVE  CInv'
<1>0. FlowOK /\ Placed /\ Called /\ Passed /\ Decides({})
  BY EnteringDecides DEF IInv, Typed, HInv, CInv
<1>1. UNCHANGED <<plan, active, result, failures>>
  BY DEF EnterEntry, Finish, EndAfter
<1>2. MemoKept /\ FailuresKept  BY <1>1 DEF MemoKept, FailuresKept
<1>3. Called' /\ Passed'  BY <1>0, <1>1, <1>2, CallsKept
<1>4. CASE EnterEntry
  <2>1. UNCHANGED <<phase, occ, sideFailed>>  BY <1>4 DEF EnterEntry, GoTo
  <2>2. Entered'  BY <1>1, <2>1 DEF CInv, Entered
  <2>3. EmptySide'  BY <2>1 DEF CInv, EmptySide, InSide, SideAt
  <2> QED  BY <1>3, <2>2, <2>3 DEF CInv
<1>5. CASE Finish \/ EndAfter
  <2>1. phase' \in {"gate", "done"}  BY <1>5 DEF Finish, EndAfter, NextOccurrence
  <2>2. Entered' /\ EmptySide'  BY <2>1 DEF Entered, EmptySide, InSide, Timings
  <2> QED  BY <1>3, <2>2 DEF CInv
<1> QED  BY <1>4, <1>5

\* A side in which an entry is on is not empty.
LEMMA SideNotEmpty ==
  ASSUME FlowOK, MoreEntries, UNCHANGED <<phase, occ>>
  PROVE  EmptySide'
<1>1. SideAt(occ) \in Seq(Entries) /\ ent \in Nat \ {0} /\ ent <= Len(SideAt(occ))
  BY PlanAssumption DEF MoreEntries, InSide, SideAt, FlowOK
<1>2. SideAt(occ) # <<>>  BY <1>1
<1> QED  BY <1>2 DEF EmptySide, SideAt

LEMMA SkipEntryCalls ==
  ASSUME IInv, HInv, CInv, SkipEntry
  PROVE  CInv'
<1> DEFINE C == Range(EntrySteps[Entry])
<1>0. /\ FlowOK /\ ErrorsOK /\ Placed /\ Called /\ Passed /\ Decides(C) /\ UNCHANGED result
  BY SkipEntryDecides DEF IInv, Typed, HInv, CInv
<1>1. /\ MoreEntries /\ UNCHANGED <<phase, occ, plan, active>>
      /\ Thrown(<<"entry", Entry>>) \/ UNCHANGED failures
  BY DEF SkipEntry, AtEntryGate
<1>2. /\ occ \in 1..N /\ phase \in Timings /\ ent \in DOMAIN Hooks[occ][phase]
      /\ C = Range(EntrySteps[Hooks[occ][phase][ent]]) /\ Entry \in Entries
  BY <1>0, <1>1, EntryPlace, EntryType
<1>3. MemoKept  BY <1>1 DEF MemoKept
<1>4. <<"entry", Entry>> \in Errors  BY <1>2 DEF Errors
<1>5. FailuresKept
  <2>1. CASE UNCHANGED failures  BY <2>1 DEF FailuresKept
  <2> QED  BY <1>0, <1>1, <1>4, <2>1, ThrownKept
<1> HIDE DEF C
<1>6. \A s \in C : ~WasExecuted(s)'
  BY <1>0 DEF Decides, Placed, UndecidedIdle, WasExecuted
<1>7. ASSUME NEW s \in Steps, NEW t \in C, SameCall(s, t) PROVE ~WasExecuted(s)'
  <2>1. PICK q \in DOMAIN EntrySteps[Hooks[occ][phase][ent]] : t = HookAt(occ, phase, ent, q)
    BY <1>2 DEF Range, HookAt
  <2>2. s \in C  BY <1>2, <1>7, <2>1, SameCallEntry
  <2> QED  BY <1>6, <2>2
<1>8. Called' /\ Passed'
  BY <1>0, <1>1, <1>3, <1>5, <1>6, <1>7, CallsKept
<1>9. Entered'  BY <1>1 DEF CInv, Entered
<1>10. EmptySide'  BY <1>0, <1>1, SideNotEmpty
<1> QED  BY <1>8, <1>9, <1>10 DEF CInv

LEMMA SkipHookStepCalls ==
  ASSUME IInv, HInv, CInv, SkipHookStep
  PROVE  CInv'
<1>0. /\ FlowOK /\ FlagsOK /\ StepsOK /\ ErrorsOK /\ Placed /\ Called /\ Passed
      /\ MoreEntries /\ pos # 0 /\ HookStep \in Steps
  BY EntryType DEF IInv, Typed, HInv, CInv, SkipHookStep, AtHookStep
<1>1. Skip({HookStep}) /\ UNCHANGED <<phase, occ, plan, result>>
  BY <1>0 DEF SkipHookStep, GoTo
<1>2. Decides({HookStep})  BY <1>0, <1>1, HookStepDecides DEF SkipHookStep
<1>3. PICK h \in Steps : h = HookStep  BY <1>0
<1>4. PICK r \in {"false", "throw"} :
        /\ ShouldExecute(h, ~ScopedFailure, r)
        /\ IF r = "throw" THEN Thrown(<<"gate", h>>) ELSE UNCHANGED failures
  BY <1>3 DEF SkipHookStep
<1>5. MemoKept  BY <1>4, GateMemo DEF MemoKept
<1>6. <<"gate", h>> \in Errors  BY DEF Errors
<1>7. FailuresKept /\ (r = "throw" => GateThrew(h)')
  <2>1. CASE r = "throw"  BY <1>0, <1>4, <1>6, <2>1, ThrownKept DEF GateThrew
  <2>2. CASE r # "throw"  BY <1>4, <2>2 DEF FailuresKept
  <2> QED  BY <2>1, <2>2
<1>8. ASSUME NEW s \in Steps, SameCall(s, h), stepIf[h] = "always", WasExecuted(s)'
      PROVE  GateThrew(h)'
  <2>1. WasExecuted(s)  BY <1>1, <1>8 DEF WasExecuted
  <2>2. ScopedFailure \in BOOLEAN  BY <1>0 DEF ScopedFailure, FlagsOK
  <2>3. r = "throw"  BY <1>0, <1>4, <1>8, <2>1, <2>2, RefusedThrows
  <2> QED  BY <1>7, <2>3
<1>9. \A s \in {HookStep} : ~WasExecuted(s)'
  BY <1>1, <1>2 DEF HInv, Decides, Placed, UndecidedIdle, WasExecuted
<1>10. Called' /\ Passed'
  BY <1>0, <1>1, <1>2, <1>3, <1>5, <1>7, <1>8, <1>9, CallsKept
<1>11. Entered'
  <2>1. phase = "before" => \A k \in DOMAIN ScopeChain[Anchor[occ]] :
                              ScopeChain[Anchor[occ]][k] \in Scopes
    BY <1>0, AnchorPlace, PlanAssumption DEF FlowOK, Timings
  <2>2. phase # "anchor"  BY <1>0 DEF MoreEntries, InSide, Timings
  <2> QED  BY <1>1, <1>5, <2>1, <2>2 DEF CInv, Entered, MemoKept
<1>12. EmptySide'  BY <1>0, <1>1, SideNotEmpty
<1> QED  BY <1>10, <1>11, <1>12 DEF CInv

LEMMA RunHookStepCalls ==
  ASSUME IInv, HInv, CInv, NEW end \in Ends, RunHookStep(end)
  PROVE  CInv'
<1>0. /\ FlowOK /\ StepsOK /\ ErrorsOK /\ Placed /\ Called /\ Passed
      /\ MoreEntries /\ pos # 0 /\ HookStep \in Steps
  BY EntryType DEF IInv, Typed, HInv, CInv, RunHookStep, AtHookStep
<1>1. PICK h \in Steps : h = HookStep  BY <1>0
<1>2. /\ Execute(h, end) /\ UNCHANGED <<phase, occ, plan>>
      /\ ShouldExecute(h, ~ScopedFailure, "true")
      /\ Thrown(<<"run", h>>) \/ UNCHANGED failures
  BY <1>0, <1>1 DEF RunHookStep, GoTo
<1>3. Decides({h})  BY <1>0, <1>1, HookStepDecides DEF RunHookStep
<1>4. MemoKept /\ \A k \in DOMAIN ScopeChain[h] : active'[ScopeChain[h][k]] = "true"
  BY <1>2, GateMemo DEF MemoKept
<1>5. <<"run", h>> \in Errors  BY DEF Errors
<1>6. FailuresKept
  <2>1. CASE UNCHANGED failures  BY <2>1 DEF FailuresKept
  <2> QED  BY <1>0, <1>2, <1>5, <2>1, ThrownKept
<1>7. WasExecuted(h)'  BY <1>0, <1>2 DEF Execute, StepsOK, WasExecuted
<1>8. Called' /\ Passed'
  BY <1>0, <1>2, <1>3, <1>4, <1>6, <1>7, CallsKept
<1>9. Entered'
  <2>1. phase = "before" => \A k \in DOMAIN ScopeChain[Anchor[occ]] :
                              ScopeChain[Anchor[occ]][k] \in Scopes
    BY <1>0, AnchorPlace, PlanAssumption DEF FlowOK, Timings
  <2>2. phase # "anchor"  BY <1>0 DEF MoreEntries, InSide, Timings
  <2> QED  BY <1>2, <1>4, <2>1, <2>2 DEF CInv, Entered, MemoKept
<1>10. EmptySide'  BY <1>0, <1>2, SideNotEmpty
<1> QED  BY <1>8, <1>9, <1>10 DEF CInv

LEMMA EndBeforeCalls ==
  ASSUME IInv, HInv, CInv, EndBefore
  PROVE  CInv'
<1>0. /\ FlowOK /\ Placed /\ Called /\ Passed /\ occ \in 1..N /\ UNCHANGED result
      /\ AnchorBlocked  => Decides(AnchorAndAfter)
      /\ ~AnchorBlocked => Decides({})
  BY EndBeforeDecides DEF IInv, Typed, HInv, CInv
<1>1. phase = "before" /\ UNCHANGED <<plan, active, failures>>
  BY DEF EndBefore, SideDone
<1>2. MemoKept /\ FailuresKept  BY <1>1 DEF MemoKept, FailuresKept
<1>3. CASE AnchorBlocked
  <2>1. sideFailed /\ phase' = "gate"  BY <1>3 DEF EndBefore, AnchorBlocked, NextOccurrence
  <2>2. Hooks[occ].before # <<>>
    BY <1>1, <2>1 DEF CInv, EmptySide, InSide, SideAt, Timings
  <2>3. ASSUME NEW s \in Steps, NEW t \in AnchorAndAfter, SameCall(s, t)
        PROVE  ~WasExecuted(s)'
    <3>1. t # Anchor[occ]  BY <1>0, <2>2, <2>3, SameCallAnchor
    <3>2. t \in SideSteps(occ, "after") /\ "after" \in Timings
      BY <2>3, <3>1 DEF AnchorAndAfter, SideSteps, Timings
    <3>3. \A k \in DOMAIN Hooks[occ]["after"] :
            Range(EntrySteps[Hooks[occ]["after"][k]]) \subseteq AnchorAndAfter
      BY DEF AnchorAndAfter, StepsOf, Range
    <3> QED  BY <1>0, <1>3, <2>3, <3>2, <3>3, EntrySkipped
  <2>4. \A s \in AnchorAndAfter : ~WasExecuted(s)'
    BY <1>0, <1>3 DEF Decides, Placed, UndecidedIdle, WasExecuted
  <2>5. Called' /\ Passed'  BY <1>0, <1>1, <1>2, <1>3, <2>3, <2>4, CallsKept
  <2>6. Entered' /\ EmptySide'  BY <2>1 DEF Entered, EmptySide, InSide, Timings
  <2> QED  BY <2>5, <2>6 DEF CInv
<1>4. CASE ~AnchorBlocked
  <2>1. phase' = "anchor" /\ UNCHANGED occ  BY <1>4 DEF EndBefore
  <2>2. Called' /\ Passed'  BY <1>0, <1>1, <1>2, <1>4, CallsKept
  <2>3. Entered'  BY <1>1, <2>1 DEF CInv, Entered
  <2>4. EmptySide'  BY <2>1 DEF EmptySide, InSide, Timings
  <2> QED  BY <2>2, <2>3, <2>4 DEF CInv
<1> QED  BY <1>3, <1>4

LEMMA InitCalls == Init => CInv
<1> SUFFICES ASSUME Init PROVE CInv
  OBVIOUS
<1>1. phase = "gate" /\ \A s \in Steps : ~WasExecuted(s)  BY DEF Init, WasExecuted
<1> QED  BY <1>1 DEF CInv, Called, Passed, Entered, EmptySide, InSide, Timings

LEMMA NextCalls == IInv /\ HInv /\ CInv /\ [Next]_vars => CInv'
<1> SUFFICES ASSUME IInv, HInv, CInv, [Next]_vars PROVE CInv'
  OBVIOUS
<1>1. CASE EnterOccurrence  BY <1>1, EnterOccurrenceCalls
<1>2. CASE SkipOccurrence  BY <1>2, SkipOccurrenceCalls
<1>3. CASE EnterEntry \/ Finish \/ EndAfter  BY <1>3, PassingCalls
<1>4. ASSUME NEW end \in Ends, RunAnchor(end) PROVE CInv'  BY <1>4, RunAnchorCalls
<1>5. ASSUME NEW end \in Ends, RunHookStep(end) PROVE CInv'  BY <1>5, RunHookStepCalls
<1>6. CASE SkipEntry  BY <1>6, SkipEntryCalls
<1>7. CASE SkipHookStep  BY <1>7, SkipHookStepCalls
<1>8. CASE EndBefore  BY <1>8, EndBeforeCalls
<1>9. CASE UNCHANGED vars
  <2>1. UNCHANGED <<phase, occ, status, result, sideFailed, stepIf, active, failures>>
    BY <1>9 DEF vars, flow, plan, local
  <2>2. Called' /\ Passed'
    BY <2>1 DEF CInv, Called, Passed, WasExecuted, Undecided, GateThrew, SameCall
  <2>3. Entered' /\ EmptySide'
    BY <2>1 DEF CInv, Entered, EmptySide, InSide, SideAt
  <2> QED  BY <2>2, <2>3 DEF CInv
<1> QED
  BY <1>1, <1>2, <1>3, <1>4, <1>5, <1>6, <1>7, <1>8, <1>9 DEF Next, Terminated

-----------------------------------------------------------------------------
(* DecidedOnce.                                                             *)

LEMMA StepFreezes ==
  ASSUME IInv, HInv, [Next]_vars, NEW s \in Steps, ~Undecided(s)
  PROVE  status'[s] = status[s] /\ result'[s] = result[s]
<1>0. FlowOK /\ StepsOK /\ Placed  BY DEF IInv, Typed, HInv
<1>1. CASE EnterOccurrence \/ EnterEntry \/ Finish \/ EndAfter
  BY <1>0, <1>1, EnteringDecides, DecidesFreezes
<1>2. CASE SkipOccurrence  BY <1>0, <1>2, SkipOccurrenceDecides, DecidesFreezes
<1>3. ASSUME NEW end \in Ends, RunAnchor(end)
      PROVE  status'[s] = status[s] /\ result'[s] = result[s]
  BY <1>0, <1>3, RunAnchorDecides, DecidesFreezes
<1>4. CASE SkipEntry  BY <1>0, <1>4, SkipEntryDecides, DecidesFreezes
<1>5. CASE SkipHookStep \/ \E end \in Ends : RunHookStep(end)
  <2>1. AtHookStep /\ GoTo(pos + 1)  BY <1>5 DEF SkipHookStep, RunHookStep
  <2>2. HookStep \in Steps  BY <1>0, <2>1, EntryType DEF AtHookStep
  <2>3. Decides({HookStep})
    BY <1>0, <1>5, <2>1, <2>2, HookStepDecides DEF SkipHookStep, RunHookStep
  <2> QED  BY <2>3, DecidesFreezes
<1>6. CASE EndBefore  BY <1>0, <1>6, EndBeforeDecides, DecidesFreezes
<1>7. CASE UNCHANGED vars  BY <1>7 DEF vars
<1> QED  BY <1>1, <1>2, <1>3, <1>4, <1>5, <1>6, <1>7 DEF Next, Terminated

LEMMA AllDecidedAtEnd ==
  ASSUME FlowOK, Placed, phase = "done"
  PROVE  /\ AllDecided
         /\ \A s, t \in Steps : SameCall(s, t) => ~Undecided(t)
<1>1. \A i \in 1..N : ~Undecided(Anchor[i])
  BY DonePassed DEF Placed, AnchorsPlaced
<1>2. \A i \in 1..N, t \in Timings : \A s \in SideSteps(i, t) : ~Undecided(s)
  BY DonePassed, SideDecided
<1>3. AllDecided
  BY <1>1, <1>2 DEF AllDecided, JobSteps, SideSteps, Timings
<1>4. ASSUME NEW s \in Steps, NEW t \in Steps, SameCall(s, t) PROVE ~Undecided(t)
  <2>1. CASE \E i \in 1..N : t = Anchor[i]  BY <1>1, <2>1
  <2>2. CASE \E i \in 1..N, u \in Timings : \E k \in DOMAIN Hooks[i][u] :
               \E q \in DOMAIN EntrySteps[Hooks[i][u][k]] : t = HookAt(i, u, k, q)
    BY <1>2, <2>2, HookPlace
  <2> QED  BY <1>4, <2>1, <2>2, SameCallPlaces
<1> QED  BY <1>3, <1>4

\* No step is decided twice, none is left undecided when the job ends, and the
\* answer given once for a composite call holds for all its steps, in every job.
THEOREM DecidesOnce == Spec => DecidedOnce
<1> DEFINE All == IInv /\ HInv /\ CInv
           AtEnd == phase = "done" => AllDecided
<1>1. ASSUME All PROVE CallGateHolds /\ AtEnd
  <2>1. FlowOK /\ Placed /\ Called /\ Passed  BY <1>1 DEF IInv, Typed, HInv, CInv
  <2>2. AtEnd  BY <2>1, AllDecidedAtEnd
  <2>3. DeniedCallRunsNothing  BY <2>1 DEF Called, DeniedCallRunsNothing
  <2>4. phase = "done" => PassedCallStaysPassed
    BY <2>1, AllDecidedAtEnd DEF Passed, PassedCallStaysPassed
  <2> QED  BY <2>2, <2>3, <2>4 DEF CallGateHolds
<1>2. All => CallGateHolds /\ AtEnd  BY <1>1
<1>3. All /\ [Next]_vars
        => [\A s \in Steps : ~Undecided(s) => status'[s] = status[s] /\ result'[s] = result[s]]_vars
  BY StepFreezes
<1>4. Init => All  BY InitIInv, InitHooks, InitCalls
<1>5. All /\ [Next]_vars => All'  BY NextIInv, NextHooks, NextCalls
<1>6. AtEnd' /\ CallGateHolds'
        /\ [\A s \in Steps : ~Undecided(s) => status'[s] = status[s] /\ result'[s] = result[s]]_vars
      => [/\ \A s \in Steps : ~Undecided(s) => status'[s] = status[s] /\ result'[s] = result[s]
          /\ phase' = "done" => AllDecided'
          /\ CallGateHolds']_vars
  OBVIOUS
<1> HIDE DEF All, AtEnd
<1> QED  BY <1>2, <1>3, <1>4, <1>5, <1>6, PTL DEF Spec, DecidedOnce

-----------------------------------------------------------------------------
(* The loops end, however the conditions and the steps turn out.             *)

\* The phases of an occurrence, in the order executeAsync comes to them.
PhaseRank == [gate |-> 0, before |-> 1, anchor |-> 2, after |-> 3, done |-> 4]

\* A later occurrence, or in the same one a later phase, hook entry or hook step.
GoesOn ==
  \/ occ' > occ
  \/ occ' = occ /\ PhaseRank[phase'] > PhaseRank[phase]
  \/ occ' = occ /\ phase' = phase /\ ent' > ent
  \/ occ' = occ /\ phase' = phase /\ ent' = ent /\ pos' > pos

\* The places of the job: the loops run no index too far.
InBounds ==
  /\ occ \in 1..(N + 1)
  /\ InSide => ent \in 1..(Len(SideAt(occ)) + 1)
  /\ pos # 0 => pos \in DOMAIN EntrySteps[Entry]

\* Going to a step of the current entry, or past its last one.
LEMMA GoToGoesOn ==
  ASSUME FlowOK, InBounds, MoreEntries, NEW p \in Nat \ {0}, p = pos + 1, GoTo(p)
  PROVE  GoesOn /\ InBounds'
<1>1. /\ occ \in 1..N /\ phase \in Timings /\ EntrySteps[Entry] \in Seq(Steps)
      /\ ent \in Nat /\ ent <= Len(SideAt(occ)) /\ pos \in Nat
  BY EntryType DEF FlowOK, MoreEntries, InSide
<1>2. SideAt(occ) \in Seq(Entries) /\ Len(SideAt(occ)) \in Nat
  BY <1>1, PlanAssumption DEF SideAt
<1>3. phase' = phase /\ occ' = occ /\ SideAt(occ)' = SideAt(occ)
  BY DEF GoTo, SideAt
<1>4. CASE p <= Len(EntrySteps[Entry])
  <2>1. ent' = ent /\ pos' = p /\ Entry' = Entry
    BY <1>3, <1>4 DEF GoTo, Entry, SideAt
  <2>2. p \in DOMAIN EntrySteps[Entry]
    BY <1>1, <1>4
  <2> QED BY <1>1, <1>3, <2>1, <2>2 DEF GoesOn, InBounds, InSide, SideAt
<1>5. CASE ~(p <= Len(EntrySteps[Entry]))
  <2>1. ent' = ent + 1 /\ pos' = 0
    BY <1>5 DEF GoTo
  <2>2. ent' \in 1..(Len(SideAt(occ)) + 1) /\ ent' > ent
    BY <1>1, <1>2, <2>1
  <2> QED BY <1>1, <1>3, <2>1, <2>2 DEF GoesOn, InBounds, InSide, SideAt
<1> QED BY <1>4, <1>5

\* A side starts before its first entry.
LEMMA StartInBounds ==
  ASSUME NEW t \in Timings, occ \in 1..N, StartSide(t)
  PROVE  InBounds' /\ occ' = occ /\ phase' = t
<1>1. Hooks[occ][t] \in Seq(Entries) /\ N \in Nat
  BY PlanAssumption
<1>2. ent' = 1 /\ pos' = 0 /\ occ' = occ /\ phase' = t
  BY DEF StartSide
<1>3. 1 \in 1..(Len(Hooks[occ][t]) + 1) /\ occ \in 1..(N + 1)
  BY <1>1
<1> QED BY <1>2, <1>3 DEF InBounds, InSide, SideAt

\* The end of an occurrence leads to the gate of the next one.
LEMMA NextInBounds ==
  ASSUME FlowOK, pos = 0, occ \in 1..N, NextOccurrence
  PROVE  GoesOn /\ InBounds'
<1>1. occ' = occ + 1 /\ phase' = "gate" /\ pos' = 0
  BY DEF NextOccurrence
<1>2. occ' > occ /\ occ' \in 1..(N + 1)
  BY <1>1, PlanAssumption
<1> QED BY <1>1, <1>2 DEF GoesOn, InBounds, InSide, Timings

\* Every step of the executor goes on, and stays within the job.
LEMMA StepGoesOn ==
  ASSUME IInv, InBounds, [Next]_vars
  PROVE  InBounds' /\ (UNCHANGED vars \/ GoesOn)
<1> USE DEF PhaseRank
<1>1. FlowOK
  BY DEF IInv, Typed
<1>2. CASE EnterOccurrence
  <2>1. phase = "gate" /\ occ \in 1..N /\ StartSide("before")
    BY <1>1, <1>2, PlanAssumption DEF EnterOccurrence, AtGate, FlowOK
  <2> QED BY <2>1, StartInBounds DEF GoesOn, Timings
<1>3. CASE SkipOccurrence
  <2>1. phase = "gate" /\ occ \in 1..N /\ NextOccurrence
    BY <1>1, <1>3, PlanAssumption DEF SkipOccurrence, AtGate, FlowOK
  <2>2. pos = 0
    BY <1>1, <2>1, IdleFlow DEF InSide, Timings
  <2> QED BY <1>1, <2>1, <2>2, NextInBounds
<1>4. CASE Finish
  BY <1>1, <1>4 DEF Finish, FlowOK, GoesOn, InBounds, InSide, Timings, MoreEntries
<1>5. ASSUME NEW end \in Ends, RunAnchor(end) PROVE InBounds' /\ GoesOn
  <2>1. phase = "anchor" /\ occ \in 1..N /\ StartSide("after")
    BY <1>1, <1>5 DEF RunAnchor, FlowOK
  <2> QED BY <2>1, StartInBounds DEF GoesOn, Timings
<1>6. ASSUME NEW end \in Ends, RunHookStep(end) PROVE InBounds' /\ GoesOn
  <2>1. MoreEntries /\ GoTo(pos + 1) /\ pos + 1 \in Nat \ {0}
    BY <1>1, <1>6 DEF RunHookStep, AtHookStep, FlowOK
  <2> QED BY <1>1, <2>1, GoToGoesOn
<1>7. CASE EnterEntry
  <2>1. MoreEntries /\ GoTo(1) /\ 1 = pos + 1 /\ 1 \in Nat \ {0}
    BY <1>7 DEF EnterEntry, AtEntryGate
  <2> QED BY <1>1, <2>1, GoToGoesOn
<1>8. CASE SkipEntry
  <2>1. /\ MoreEntries /\ pos = 0 /\ UNCHANGED <<phase, occ, pos>> /\ ent' = ent + 1
        /\ ent \in Nat \ {0} /\ ent <= Len(SideAt(occ))
    BY <1>1, <1>8 DEF SkipEntry, AtEntryGate, MoreEntries, FlowOK
  <2>2. SideAt(occ) \in Seq(Entries) /\ Len(SideAt(occ)) \in Nat
    BY <1>1, <2>1, PlanAssumption DEF SideAt, MoreEntries, InSide, FlowOK
  <2>3. ent' > ent /\ ent' \in 1..(Len(SideAt(occ)) + 1) /\ SideAt(occ)' = SideAt(occ)
    BY <2>1, <2>2 DEF SideAt
  <2> QED BY <2>1, <2>3 DEF GoesOn, InBounds, InSide
<1>9. CASE SkipHookStep
  <2>1. MoreEntries /\ GoTo(pos + 1) /\ pos + 1 \in Nat \ {0}
    BY <1>1, <1>9 DEF SkipHookStep, AtHookStep, FlowOK
  <2> QED BY <1>1, <2>1, GoToGoesOn
<1>10. CASE EndBefore
  <2>1. phase = "before" /\ occ \in 1..N /\ InSide
    BY <1>1, <1>10 DEF EndBefore, SideDone, FlowOK, InSide, Timings
  <2>2. pos = 0
    BY <1>1, <1>10, <2>1, IdleFlow DEF EndBefore, SideDone
  <2>3. CASE AnchorBlocked
    BY <1>1, <1>10, <2>1, <2>2, <2>3, NextInBounds DEF EndBefore
  <2>4. CASE ~AnchorBlocked
    <3>1. phase' = "anchor" /\ occ' = occ /\ pos' = 0
      BY <1>10, <2>2, <2>4 DEF EndBefore
    <3> QED BY <2>1, <3>1 DEF GoesOn, InBounds, InSide, Timings
  <2> QED BY <2>3, <2>4
<1>11. CASE EndAfter
  <2>1. phase = "after" /\ occ \in 1..N /\ InSide /\ NextOccurrence
    BY <1>1, <1>11 DEF EndAfter, SideDone, FlowOK, InSide, Timings
  <2>2. pos = 0
    BY <1>1, <1>11, <2>1, IdleFlow DEF EndAfter, SideDone
  <2> QED BY <1>1, <2>1, <2>2, NextInBounds
<1>12. CASE UNCHANGED vars
  BY <1>12 DEF vars, flow, InBounds, InSide, SideAt, Entry
<1> QED
  BY <1>2, <1>3, <1>4, <1>5, <1>6, <1>7, <1>8, <1>9, <1>10, <1>11, <1>12 DEF Next, Terminated

\* The loops of executeAsync and executeHookStepsAsync end: each step leads to a
\* later place of the job, never to one it has been at, and the places are bounded
\* by the job's own lists, whatever fails and whichever conditions hold.
THEOREM LoopsEnd == Spec => []InBounds /\ [][GoesOn]_vars
<1>1. Init => InBounds
  BY PlanAssumption DEF Init, InBounds, InSide, Timings
<1>2. IInv /\ InBounds /\ [Next]_vars => InBounds' /\ [GoesOn]_vars
  BY StepGoesOn
<1> QED BY <1>1, <1>2, InitIInv, NextIInv, PTL DEF Spec

=============================================================================
