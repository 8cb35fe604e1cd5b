-------------------------- MODULE NativeBuildProofs --------------------------
(***************************************************************************)
(* Proofs about NativeBuild, for any phases and hook entries: its types,    *)
(* that no stored variable is ever missing, which error is reported, and    *)
(* what runs after a failure.                                               *)
(***************************************************************************)
EXTENDS NativeBuild, TLAPS

\* Where the errors and the hooks stand at each place of the builder.
NoneYet   == err = NoError /\ raised = <<>>
SideFirst == IF raised = <<>> THEN sideErr = NoError
             ELSE sideErr = raised[1] /\ Last(raised) \notin Finalizers
Failed    == raised # <<>> /\ raised[1] = phaseErr /\ Last(raised) \notin Finalizers

ErrorFlow ==
  /\ pc \in Stages \cup {"parse", "before", "install", "onSuccess"} => NoneYet
  /\ pc \in {"setup", "parse", "before", "install"} => phaseErr = NoError
  /\ pc = "after" => /\ err = NoError
                     /\ IF phaseErr = NoError THEN raised = <<>> ELSE Failed
  /\ pc = "entries" =>
       /\ err = NoError
       /\ side = "before" => phaseErr = NoError
       /\ IF phaseErr = NoError THEN SideFirst ELSE Failed
  /\ pc \in {"cleanUp", "drain", "onError", "onComplete", "upload", "over"} => err = Reported

EnvFlow == /\ EnvComplete
           /\ pc = "entries" => env \subseteq hookEnv

-----------------------------------------------------------------------------
\* The places a step names are places of the build.
LEMMA Places ==
  /\ \A g \in Stages : \A k \in 1..Len(PhasesOf[g]) : PhasesOf[g][k] \in Phases
  /\ \A s \in Sides : \A k \in 1..Len(Entries[s]) : Entries[s][k] \in AllEntries
  /\ Hooks \cup {"install", "cleanUp"} \subseteq Phases
  /\ Phases \subseteq Sources /\ AllEntries \subseteq Sources /\ Sources \subseteq Errors
  <1>1. ASSUME NEW g \in Stages, NEW k \in 1..Len(PhasesOf[g])
        PROVE  PhasesOf[g][k] \in Phases
    <2>1. PhasesOf[g] \in Seq(STRING)
      BY BuildAssumption
    <2>2. PhasesOf[g][k] \in Range(PhasesOf[g])
      BY <2>1 DEF Range
    <2> QED
      BY <2>2 DEF Phases
  <1>2. ASSUME NEW s \in Sides, NEW k \in 1..Len(Entries[s])
        PROVE  Entries[s][k] \in AllEntries
    <2>1. Entries[s] \in Seq(STRING)
      BY BuildAssumption
    <2>2. Entries[s][k] \in Range(Entries[s])
      BY <2>1 DEF Range
    <2> QED
      BY <2>2 DEF AllEntries, Sides
  <1>3. Hooks \cup {"install", "cleanUp"} \subseteq Phases
    <2> DEFINE named == UNION {Range(PhasesOf[g]) : g \in Stages}
    <2>1. Phases = named \cup {"install", "cleanUp"} \cup Hooks
      BY DEF Phases
    <2> HIDE DEF named
    <2> QED
      BY <2>1
  <1> QED
    BY <1>1, <1>2, <1>3 DEF Sources, Errors

\* Running a place keeps the types of what it touches.
LEMMA RunTypes ==
  ASSUME TypeOK, NEW p \in Sources, Run(p)
  PROVE  ran' \in Seq(Sources) /\ env' \subseteq Sources /\ stored' \subseteq Sources
  BY DEF Run, TypeOK

\* Raising an error keeps the types of what it touches.
LEMMA RaiseTypes ==
  ASSUME TypeOK, NEW e \in Errors, Raise(e)
  PROVE  err' \in Errors \cup {NoError} /\ raised' \in Seq(Errors)
  BY DEF Raise, TypeOK

\* Every initial state has the types.
LEMMA InitTypes == Init => TypeOK
  <1> SUFFICES ASSUME Init PROVE TypeOK
    OBVIOUS
  <1>1. PhasesOf["setup"] \in Seq(STRING)
    BY BuildAssumption DEF Stages
  <1>2. pos <= Len(PhasesOf["setup"]) + 1
    BY <1>1 DEF Init
  <1>3. raised \in Seq(Errors) /\ ran \in Seq(Sources)
    BY DEF Init
  <1>4. pos \in Nat \ {0} /\ (pc \in Stages => pos <= Len(PhasesOf[pc]) + 1)
    BY <1>2 DEF Init
  <1> QED
    BY <1>3, <1>4 DEF Init, TypeOK, Stages, Sides

\* A new stage or hook sequence is entered at its first place.
LEMMA FirstPlace ==
  /\ \A g \in Stages : 1 <= Len(PhasesOf[g]) + 1
  /\ \A s \in Sides : 1 <= Len(Entries[s]) + 1
  <1>1. \A g \in Stages : PhasesOf[g] \in Seq(STRING)
    BY BuildAssumption
  <1>2. \A s \in Sides : Entries[s] \in Seq(STRING)
    BY BuildAssumption
  <1> QED
    BY <1>1, <1>2

\* Every step keeps the types.
LEMMA StepTypes == TypeOK /\ [Next]_vars => TypeOK'
  <1> SUFFICES ASSUME TypeOK, [Next]_vars PROVE TypeOK'
    OBVIOUS
  <1> USE DEF job, hooks, ends
  <1>1. CASE RunPhase
    <2> DEFINE p == PhasesOf[pc][pos]
    <2>1. p \in Phases /\ p \in Sources /\ p \in Errors
      BY <1>1, Places DEF RunPhase, TypeOK
    <2>2. Run(p)
      BY <1>1 DEF RunPhase
    <2>3. ran' \in Seq(Sources) /\ env' \subseteq Sources /\ stored' \subseteq Sources
      BY <2>1, <2>2, RunTypes
    <2>4. CASE pos' = pos + 1 /\ UNCHANGED <<pc, err, raised>>
      <3>1. PhasesOf[pc] \in Seq(STRING)
        BY <1>1, BuildAssumption DEF RunPhase
      <3>2. pos' \in Nat \ {0} /\ pos' <= Len(PhasesOf[pc]) + 1 /\ pc \in Stages
        BY <1>1, <2>4, <3>1 DEF RunPhase, TypeOK
      <3> QED
        BY <1>1, <2>3, <2>4, <3>2 DEF RunPhase, TypeOK, Stages
    <2>5. CASE Raise(p) /\ pc' = Unwind /\ pos' = 1
      <3>1. err' \in Errors \cup {NoError} /\ raised' \in Seq(Errors)
        BY <2>1, <2>5, RaiseTypes
      <3> QED
        BY <1>1, <2>3, <2>5, <3>1 DEF RunPhase, Unwind, TypeOK, Stages
    <2> QED
      BY <1>1, <2>4, <2>5 DEF RunPhase
  <1>2. CASE SkipNativeBuild
    <2>1. err' \in Errors \cup {NoError} /\ raised' \in Seq(Errors)
      BY <1>2, RaiseTypes DEF SkipNativeBuild, Errors
    <2> QED
      BY <1>2, <2>1 DEF SkipNativeBuild, TypeOK, Stages
  <1>3. CASE EndStage
    <2>1. pc' \in Stages \cup {"parse", "cleanUp", "drain"} /\ pos' = 1
      BY <1>3 DEF EndStage, NextStage, Stages
    <2>2. pc' \in Stages => pos' <= Len(PhasesOf[pc']) + 1
      BY <2>1, FirstPlace
    <2> QED
      BY <1>3, <2>1, <2>2 DEF EndStage, TypeOK, Stages
  <1>4. CASE ParseHooks
    <2>1. CASE parsed' = declared /\ pc' = "before" /\ UNCHANGED <<err, raised>>
      BY <1>4, <2>1 DEF ParseHooks, TypeOK, Stages, Sides
    <2>2. CASE declared /\ Raise("parse") /\ pc' = "drain" /\ UNCHANGED parsed
      <3>1. err' \in Errors \cup {NoError} /\ raised' \in Seq(Errors)
        BY <2>2, RaiseTypes DEF Errors
      <3> QED
        BY <1>4, <2>2, <3>1 DEF ParseHooks, TypeOK, Stages
    <2> QED
      BY <1>4, <2>1, <2>2 DEF ParseHooks
  <1>5. ASSUME NEW s \in Sides, SkipSide(s) PROVE TypeOK'
    <2>1. pc' \in {"install", "drain", "rest"} /\ pos' = 1
      BY <1>5 DEF SkipSide, AfterSide
    <2>2. pc' \in Stages => pos' <= Len(PhasesOf[pc']) + 1
      BY <2>1, FirstPlace
    <2>3. err' \in Errors \cup {NoError}
      BY <1>5, Places DEF SkipSide, AfterSide, TypeOK, Phases, Sources, Errors
    <2> QED
      BY <1>5, <2>1, <2>2, <2>3 DEF SkipSide, TypeOK, Stages
  <1>6. ASSUME NEW s \in Sides, BeginSide(s) PROVE TypeOK'
    <2>1. pos' <= Len(Entries[s]) + 1
      BY <1>6, FirstPlace DEF BeginSide
    <2> QED
      BY <1>6, <2>1 DEF BeginSide, TypeOK, Stages
  <1>7. CASE RunEntry
    <2> DEFINE e == Entries[side][pos]
    <2>1. e \in AllEntries /\ e \in Sources /\ e \in Errors
      BY <1>7, Places DEF RunEntry, TypeOK
    <2>2. Entries[side] \in Seq(STRING)
      BY BuildAssumption DEF TypeOK
    <2>3. pos' \in Nat \ {0} /\ pos' <= Len(Entries[side]) + 1
      BY <1>7, <2>2 DEF RunEntry, TypeOK
    <2>4. /\ \/ UNCHANGED <<hookEnv, pending, stored, ran>>
             \/ /\ ran' = Append(ran, e)
                /\ pending' = pending \cup {e}
                /\ \E new \in {{}, {e}} : hookEnv' = hookEnv \cup new /\ stored' = stored \cup new
          /\ \/ UNCHANGED <<sideErr, raised>>
             \/ /\ sideErr' = IF sideErr = NoError THEN e ELSE sideErr
                /\ raised' = Append(raised, e)
      BY <1>7 DEF RunEntry
    <2>5. /\ hookEnv' \subseteq Sources /\ stored' \subseteq Sources
          /\ pending' \subseteq AllEntries /\ ran' \in Seq(Sources)
      <3>1. /\ hookEnv \subseteq Sources /\ stored \subseteq Sources
            /\ pending \subseteq AllEntries /\ ran \in Seq(Sources)
        BY DEF TypeOK
      <3> HIDE DEF e
      <3>2. CASE UNCHANGED <<hookEnv, pending, stored, ran>>
        BY <3>1, <3>2
      <3>3. CASE /\ ran' = Append(ran, e)
                 /\ pending' = pending \cup {e}
                 /\ \E new \in {{}, {e}} : hookEnv' = hookEnv \cup new /\ stored' = stored \cup new
        BY <2>1, <3>1, <3>3
      <3> QED
        BY <2>4, <3>2, <3>3
    <2>6. sideErr' \in AllEntries \cup {NoError} /\ raised' \in Seq(Errors)
      <3>1. sideErr \in AllEntries \cup {NoError} /\ raised \in Seq(Errors)
        BY DEF TypeOK
      <3> HIDE DEF e
      <3>2. \/ UNCHANGED <<sideErr, raised>>
            \/ /\ sideErr' = IF sideErr = NoError THEN e ELSE sideErr
               /\ raised' = Append(raised, e)
        BY <2>4
      <3> QED
        BY <2>1, <3>1, <3>2
    <2> QED
      BY <1>7, <2>3, <2>5, <2>6 DEF RunEntry, TypeOK, Stages
  <1>8. CASE EndSide
    <2>1. pc' \in {"drain", "install", "rest"} /\ pos' = 1
      BY <1>8 DEF EndSide, AfterSide
    <2>2. err' \in Errors \cup {NoError}
      BY <1>8, Places DEF EndSide, AfterSide, Winner, TypeOK, Sources, Errors
    <2>3. env' \subseteq Sources
      BY <1>8 DEF EndSide, WriteBack, TypeOK
    <2>4. pc' \in Stages => pos' <= Len(PhasesOf[pc']) + 1
      BY <2>1, FirstPlace
    <2> QED
      BY <1>8, <2>1, <2>2, <2>3, <2>4 DEF EndSide, TypeOK, Stages
  <1>9. CASE Install
    <2>1. ran' \in Seq(Sources) /\ env' \subseteq Sources /\ stored' \subseteq Sources
      BY <1>9, Places, RunTypes DEF Install
    <2>2. "install" \in Errors
      BY Places
    <2>3. raised' \in Seq(Errors) /\ phaseErr' \in {"install", NoError}
      BY <1>9, <2>2, SMTT(30) DEF Install, TypeOK
    <2> QED
      BY <1>9, <2>1, <2>3 DEF Install, TypeOK, Stages, Sides
  <1>10. ASSUME NEW p \in {"cleanUp", "onSuccess", "onError", "onComplete"},
                Run(p), Raise(p) \/ UNCHANGED <<err, raised>>
         PROVE  /\ ran' \in Seq(Sources) /\ env' \subseteq Sources /\ stored' \subseteq Sources
                /\ err' \in Errors \cup {NoError} /\ raised' \in Seq(Errors)
    <2>1. p \in Sources /\ p \in Errors
      BY Places DEF Hooks
    <2>2. CASE Raise(p)
      BY <1>10, <2>1, <2>2, RunTypes, RaiseTypes
    <2>3. CASE UNCHANGED <<err, raised>>
      BY <1>10, <2>1, <2>3, RunTypes DEF TypeOK
    <2> QED
      BY <1>10, <2>2, <2>3
  <1>11. CASE CleanUpCredentials
    <2>1. /\ ran' \in Seq(Sources) /\ env' \subseteq Sources /\ stored' \subseteq Sources
          /\ err' \in Errors \cup {NoError} /\ raised' \in Seq(Errors)
      BY <1>11, <1>10 DEF CleanUpCredentials
    <2>2. pc' \in {"tail", "drain"} /\ pos' = 1
      BY <1>11 DEF CleanUpCredentials
    <2>3. pc' \in Stages => pos' <= Len(PhasesOf[pc']) + 1
      BY <2>2, FirstPlace
    <2> QED
      BY <1>11, <2>1, <2>2, <2>3 DEF CleanUpCredentials, TypeOK, Stages
  <1>12. CASE DrainMetrics
    BY <1>12 DEF DrainMetrics, TypeOK, Stages, Hooks
  <1>13. CASE OnSuccess
    <2>1. /\ ran' \in Seq(Sources) /\ env' \subseteq Sources /\ stored' \subseteq Sources
          /\ err' \in Errors \cup {NoError} /\ raised' \in Seq(Errors)
      BY <1>13, <1>10 DEF OnSuccess
    <2> QED
      BY <1>13, <2>1 DEF OnSuccess, TypeOK, Stages, Hooks
  <1>14. CASE OnError
    <2>1. /\ ran' \in Seq(Sources) /\ env' \subseteq Sources /\ stored' \subseteq Sources
          /\ err' \in Errors \cup {NoError} /\ raised' \in Seq(Errors)
      BY <1>14, <1>10 DEF OnError
    <2> QED
      BY <1>14, <2>1 DEF OnError, TypeOK, Stages, Hooks
  <1>15. CASE OnComplete
    <2>1. /\ ran' \in Seq(Sources) /\ env' \subseteq Sources /\ stored' \subseteq Sources
          /\ err' \in Errors \cup {NoError} /\ raised' \in Seq(Errors)
      BY <1>15, <1>10 DEF OnComplete
    <2> QED
      BY <1>15, <2>1 DEF OnComplete, Status, TypeOK, Stages, Hooks
  <1>16. CASE Upload
    BY <1>16 DEF Upload, TypeOK, Stages
  <1>17. CASE UNCHANGED vars
    BY <1>17 DEF TypeOK, vars
  <1> QED
    BY <1>1, <1>2, <1>3, <1>4, <1>5, <1>6, <1>7, <1>8, <1>9, <1>11, <1>12, <1>13, <1>14,
       <1>15, <1>16, <1>17 DEF Next

\* The variables of the builder keep their types in every behaviour.
THEOREM TypeCorrect == Spec => []TypeOK
  BY InitTypes, StepTypes, PTL DEF Spec

-----------------------------------------------------------------------------
\* A running place adds the same variables to ctx.env and to the history.
LEMMA RunEnv ==
  ASSUME NEW p, Run(p), stored = env
  PROVE  stored' = env'
  BY DEF Run

\* Every step keeps the env of whatever runs next complete.
LEMMA StepEnv == EnvFlow /\ [Next]_vars => EnvFlow'
  <1> SUFFICES ASSUME EnvFlow, [Next]_vars PROVE EnvFlow'
    OBVIOUS
  <1> USE DEF EnvFlow, EnvComplete, hooks, ends, job
  <1>1. CASE RunPhase
    <2>1. pc # "entries" /\ pc' # "entries"
      BY <1>1 DEF RunPhase, Stages, Unwind
    <2> QED
      BY <1>1, <2>1, RunEnv DEF RunPhase
  <1>2. CASE SkipNativeBuild
    BY <1>2 DEF SkipNativeBuild
  <1>3. CASE EndStage
    BY <1>3 DEF EndStage, NextStage, Stages
  <1>4. CASE ParseHooks
    BY <1>4 DEF ParseHooks
  <1>5. ASSUME NEW s \in Sides, SkipSide(s) PROVE EnvFlow'
    BY <1>5 DEF SkipSide, AfterSide, Sides
  <1>6. ASSUME NEW s \in Sides, BeginSide(s) PROVE EnvFlow'
    BY <1>6 DEF BeginSide, Sides
  <1>7. CASE RunEntry
    BY <1>7 DEF RunEntry
  <1>8. CASE EndSide
    BY <1>8 DEF EndSide, AfterSide, WriteBack
  <1>9. CASE Install
    BY <1>9, RunEnv DEF Install
  <1>10. CASE CleanUpCredentials
    BY <1>10, RunEnv DEF CleanUpCredentials
  <1>11. CASE DrainMetrics
    BY <1>11 DEF DrainMetrics
  <1>12. CASE OnSuccess
    BY <1>12, RunEnv DEF OnSuccess
  <1>13. CASE OnError
    BY <1>13, RunEnv DEF OnError
  <1>14. CASE OnComplete
    BY <1>14, RunEnv DEF OnComplete
  <1>15. CASE Upload
    BY <1>15 DEF Upload
  <1>16. CASE UNCHANGED vars
    BY <1>16 DEF vars
  <1> QED
    BY <1>1, <1>2, <1>3, <1>4, <1>5, <1>6, <1>7, <1>8, <1>9, <1>10, <1>11, <1>12, <1>13,
       <1>14, <1>15, <1>16 DEF Next

\* No stored variable is ever missing, whatever fails and whichever hooks ran.
THEOREM EnvAlwaysComplete == Spec => []EnvComplete
  <1>1. Init => EnvFlow
    BY DEF Init, EnvFlow, EnvComplete
  <1>2. Spec => []EnvFlow
    BY <1>1, StepEnv, PTL DEF Spec
  <1> QED
    BY <1>2, PTL DEF EnvFlow

-----------------------------------------------------------------------------
\* A raised error is the one to report when it is the first, or a finalizer's.
LEMMA RaiseReported ==
  ASSUME TypeOK, NEW e \in Errors, Raise(e), raised = <<>> \/ e \in Finalizers
  PROVE  err' = Reported'
  <1>1. raised' # <<>> /\ Last(raised') = e
    BY DEF Raise, TypeOK, Last
  <1>2. raised = <<>> => raised'[1] = e
    BY DEF Raise
  <1> QED
    BY <1>1, <1>2 DEF Raise, Reported

\* As long as no error is in flight there is none to report.
LEMMA NoneReported == NoneYet => err = Reported
  BY DEF NoneYet, Reported

\* The names of hook entries are not those of the finalizers.
LEMMA EntryNames == AllEntries \cap Finalizers = {} /\ "install" \notin Finalizers
  BY Places, BuildAssumption DEF Finalizers, Hooks

\* Every step keeps the flow of errors.
LEMMA StepErrors == TypeOK /\ ErrorFlow /\ [Next]_vars => ErrorFlow'
  <1> SUFFICES ASSUME TypeOK, ErrorFlow, [Next]_vars PROVE ErrorFlow'
    OBVIOUS
  <1> USE DEF hooks, ends, job
  <1>1. CASE RunPhase
    <2> DEFINE p == PhasesOf[pc][pos]
    <2>1. NoneYet /\ p \in Errors /\ pc \in Stages
      BY <1>1, Places DEF RunPhase, TypeOK, ErrorFlow
    <2>2. CASE pos' = pos + 1 /\ UNCHANGED <<pc, err, raised>>
      BY <1>1, <2>1, <2>2 DEF RunPhase, ErrorFlow, NoneYet, Stages
    <2>3. CASE Raise(p) /\ pc' = Unwind
      <3>1. err' = Reported'
        BY <2>1, <2>3, RaiseReported DEF NoneYet
      <3> QED
        BY <2>3, <3>1 DEF Unwind, ErrorFlow, Stages
    <2> QED
      BY <1>1, <2>2, <2>3 DEF RunPhase
  <1>2. CASE SkipNativeBuild
    <2>1. NoneYet
      BY <1>2 DEF SkipNativeBuild, ErrorFlow, Stages
    <2>2. err' = Reported' /\ pc' = "drain"
      BY <1>2, <2>1, RaiseReported DEF SkipNativeBuild, NoneYet, Errors
    <2> QED
      BY <2>2 DEF ErrorFlow, Stages
  <1>3. CASE EndStage
    <2>1. NoneYet /\ NoneYet' /\ (pc = "setup" => phaseErr = NoError) /\ phaseErr' = phaseErr
      BY <1>3 DEF EndStage, ErrorFlow, NoneYet
    <2>2. err' = Reported'
      BY <2>1 DEF NoneYet, Reported
    <2>3. /\ pc' \in {"parse", "guarded", "cleanUp", "tail", "drain"}
          /\ pc' = "parse" => pc = "setup"
      BY <1>3 DEF EndStage, NextStage, Stages
    <2> QED
      BY <2>1, <2>2, <2>3 DEF ErrorFlow, Stages
  <1>4. CASE ParseHooks
    <2>1. NoneYet /\ phaseErr = NoError
      BY <1>4 DEF ParseHooks, ErrorFlow
    <2>2. CASE parsed' = declared /\ pc' = "before" /\ UNCHANGED <<err, raised>>
      BY <1>4, <2>1, <2>2 DEF ParseHooks, ErrorFlow, NoneYet, Stages
    <2>3. CASE Raise("parse") /\ pc' = "drain"
      <3>1. err' = Reported'
        BY <2>1, <2>3, RaiseReported DEF NoneYet, Errors
      <3> QED
        BY <2>3, <3>1 DEF ErrorFlow, Stages
    <2> QED
      BY <1>4, <2>2, <2>3 DEF ParseHooks
  <1>5. CASE SkipSide("before")
    BY <1>5 DEF SkipSide, AfterSide, ErrorFlow, NoneYet, Stages
  <1>6. CASE SkipSide("after")
    <2>1. err' = phaseErr /\ raised' = raised /\ phaseErr' = phaseErr
          /\ pc' = IF phaseErr # NoError THEN "drain" ELSE "rest"
      BY <1>6 DEF SkipSide, AfterSide
    <2>2. IF phaseErr = NoError THEN raised = <<>> ELSE Failed
      BY <1>6 DEF SkipSide, ErrorFlow
    <2>3. phaseErr = NoError => NoneYet'
      BY <2>1, <2>2 DEF NoneYet
    <2>4. phaseErr # NoError => err' = Reported'
      BY <2>1, <2>2 DEF Failed, Reported
    <2> QED
      BY <2>1, <2>3, <2>4 DEF ErrorFlow, Stages
  <1>7. ASSUME NEW s \in Sides, BeginSide(s) PROVE ErrorFlow'
    <2>1. pc' = "entries" /\ side' = s /\ sideErr' = NoError /\ pc = s
          /\ UNCHANGED <<err, raised, phaseErr>>
      BY <1>7 DEF BeginSide
    <2>2. /\ err = NoError
          /\ s = "before" => phaseErr = NoError
          /\ IF phaseErr = NoError THEN raised = <<>> ELSE Failed
      BY <2>1 DEF ErrorFlow, NoneYet, Sides
    <2> QED
      BY <2>1, <2>2 DEF ErrorFlow, SideFirst, Failed, Stages
  <1>8. CASE RunEntry
    <2> DEFINE e == Entries[side][pos]
    <2>1. e \in AllEntries /\ e \notin Finalizers /\ e # NoError /\ raised \in Seq(Errors)
      BY <1>8, Places, EntryNames, BuildAssumption DEF RunEntry, TypeOK
    <2>2. /\ pc = "entries" /\ pc' = "entries" /\ UNCHANGED <<err, side, phaseErr>>
          /\ \/ UNCHANGED <<sideErr, raised>>
             \/ /\ sideErr' = IF sideErr = NoError THEN e ELSE sideErr
                /\ raised' = Append(raised, e)
      BY <1>8 DEF RunEntry
    <2> HIDE DEF e
    <2>3. CASE UNCHANGED <<sideErr, raised>>
      BY <2>2, <2>3 DEF ErrorFlow, SideFirst, Failed, Stages
    <2>4. CASE /\ sideErr' = IF sideErr = NoError THEN e ELSE sideErr
               /\ raised' = Append(raised, e)
      <3>1. raised' # <<>> /\ Last(raised') = e
        BY <2>1, <2>4 DEF Last
      <3>2. raised = <<>> => raised'[1] = e
        BY <2>4
      <3>3. raised # <<>> => raised'[1] = raised[1]
        BY <2>1, <2>4
      <3>4. raised # <<>> => raised[1] # NoError
        BY <2>1, BuildAssumption
      <3>5. phaseErr = NoError => SideFirst'
        BY <2>1, <2>2, <2>4, <3>1, <3>2, <3>3, <3>4 DEF ErrorFlow, SideFirst
      <3>6. phaseErr # NoError => Failed'
        BY <2>1, <2>2, <3>1, <3>3 DEF ErrorFlow, Failed
      <3> QED
        BY <2>2, <3>5, <3>6 DEF ErrorFlow, Stages
    <2> QED
      BY <2>2, <2>3, <2>4
  <1>9. CASE EndSide
    <2>1. /\ err = NoError
          /\ side = "before" => phaseErr = NoError
          /\ IF phaseErr = NoError THEN SideFirst ELSE Failed
      BY <1>9 DEF EndSide, ErrorFlow
    <2>2. raised' = raised /\ phaseErr' = phaseErr
      BY <1>9 DEF EndSide
    <2>3. /\ (phaseErr = NoError /\ sideErr = NoError) => raised = <<>>
          /\ phaseErr # NoError => phaseErr = Reported
          /\ (phaseErr = NoError /\ sideErr # NoError) => sideErr = Reported
      <3>1. raised # <<>> => raised[1] # NoError
        BY BuildAssumption DEF TypeOK
      <3> QED
        BY <2>1, <3>1 DEF SideFirst, Failed, Reported
    <2>4. Reported' = Reported
      BY <2>2 DEF Reported
    <2>5. CASE side = "before" /\ sideErr # NoError
      BY <1>9, <2>1, <2>2, <2>3, <2>4, <2>5 DEF EndSide, ErrorFlow, Stages
    <2>6. CASE side = "before" /\ sideErr = NoError
      BY <1>9, <2>1, <2>2, <2>3, <2>6 DEF EndSide, AfterSide, ErrorFlow, NoneYet, Stages
    <2>7. CASE side # "before"
      BY <1>9, <2>1, <2>2, <2>3, <2>4, <2>7 DEF EndSide, Winner, ErrorFlow, NoneYet, Stages
    <2> QED
      BY <2>5, <2>6, <2>7
  <1>10. CASE Install
    <2>1. NoneYet /\ phaseErr = NoError /\ pc' = "after" /\ err' = err
      BY <1>10 DEF Install, ErrorFlow
    <2>2. CASE UNCHANGED <<phaseErr, raised>>
      BY <2>1, <2>2 DEF ErrorFlow, NoneYet, Stages
    <2>3. CASE phaseErr' = "install" /\ raised' = Append(raised, "install")
      <3>1. raised' = <<"install">>
        BY <2>1, <2>3 DEF NoneYet
      <3>2. "install" # NoError
        BY Places, BuildAssumption
      <3> QED
        BY <2>1, <2>3, <3>1, <3>2, EntryNames DEF ErrorFlow, NoneYet, Failed, Last, Stages
    <2> QED
      BY <1>10, <2>2, <2>3 DEF Install
  <1>11. ASSUME NEW p \in Finalizers, err = Reported, Raise(p) \/ UNCHANGED <<err, raised>>
         PROVE  err' = Reported'
    <2>1. CASE Raise(p)
      BY <1>11, <2>1, Places, RaiseReported DEF Finalizers, Hooks
    <2>2. CASE UNCHANGED <<err, raised>>
      BY <1>11, <2>2 DEF Reported
    <2> QED
      BY <1>11, <2>1, <2>2
  <1>12. CASE CleanUpCredentials
    <2>1. err = Reported /\ "cleanUp" \in Finalizers
      BY <1>12 DEF CleanUpCredentials, ErrorFlow, Finalizers
    <2>2. err' = Reported'
      BY <1>12, <1>11, <2>1 DEF CleanUpCredentials
    <2>3. CASE pc' = "drain"
      BY <2>2, <2>3 DEF ErrorFlow, Stages
    <2>4. CASE pc' # "drain"
      <3>1. pc' = "tail" /\ err = NoError /\ UNCHANGED <<err, raised>>
        BY <1>12, <2>4 DEF CleanUpCredentials
      <3>2. raised = <<>>
        <4>1. \A i \in 1..Len(raised) : raised[i] # NoError
          BY BuildAssumption DEF TypeOK
        <4>2. raised # <<>> => 1 \in 1..Len(raised) /\ Len(raised) \in 1..Len(raised)
          BY DEF TypeOK
        <4> QED
          BY <2>1, <3>1, <4>1, <4>2 DEF Reported, Last
      <3> QED
        BY <3>1, <3>2 DEF ErrorFlow, NoneYet, Stages
    <2> QED
      BY <2>3, <2>4
  <1>13. CASE DrainMetrics
    <2>1. err = Reported /\ UNCHANGED <<err, raised, phaseErr>>
      BY <1>13 DEF DrainMetrics, ErrorFlow
    <2>2. err = NoError => raised = <<>>
      <3>1. \A i \in 1..Len(raised) : raised[i] # NoError
        BY BuildAssumption DEF TypeOK
      <3>2. raised # <<>> => 1 \in 1..Len(raised) /\ Len(raised) \in 1..Len(raised)
        BY DEF TypeOK
      <3> QED
        BY <2>1, <3>1, <3>2 DEF Reported, Last
    <2>3. pc' = IF err = NoError THEN "onSuccess" ELSE "onError"
      BY <1>13 DEF DrainMetrics
    <2>4. err' = Reported'
      BY <2>1 DEF Reported
    <2> QED
      BY <2>1, <2>2, <2>3, <2>4 DEF ErrorFlow, NoneYet, Stages
  <1>14. CASE OnSuccess
    <2>1. err = Reported /\ "onSuccess" \in Finalizers
      BY <1>14, NoneReported DEF OnSuccess, ErrorFlow, Finalizers
    <2>2. err' = Reported' /\ pc' \in {"onComplete", "onError"}
      BY <1>14, <1>11, <2>1 DEF OnSuccess
    <2> QED
      BY <2>2 DEF ErrorFlow, Stages
  <1>15. CASE OnError
    <2>1. err = Reported /\ "onError" \in Finalizers
      BY <1>15 DEF OnError, ErrorFlow, Finalizers
    <2>2. err' = Reported' /\ pc' = "onComplete"
      BY <1>15, <1>11, <2>1 DEF OnError
    <2> QED
      BY <2>2 DEF ErrorFlow, Stages
  <1>16. CASE OnComplete
    <2>1. err = Reported /\ "onComplete" \in Finalizers
      BY <1>16 DEF OnComplete, ErrorFlow, Finalizers
    <2>2. err' = Reported' /\ pc' \in {"upload", "over"}
      BY <1>16, <1>11, <2>1 DEF OnComplete
    <2> QED
      BY <2>2 DEF ErrorFlow, Stages
  <1>17. CASE Upload
    BY <1>17 DEF Upload, ErrorFlow, Reported, Stages
  <1>18. CASE UNCHANGED vars
    BY <1>18 DEF vars, ErrorFlow, NoneYet, SideFirst, Failed, Reported
  <1> QED
    BY <1>1, <1>2, <1>3, <1>4, <1>5, <1>6, <1>7, <1>8, <1>9, <1>10, <1>12, <1>13, <1>14,
       <1>15, <1>16, <1>17, <1>18 DEF Next, Sides

\* The error of the build is its first one unless a finalizer failed: that of
\* the install phase always wins over its after-hooks.
THEOREM ReportsRightError == Spec => []ReportsFirstError
  <1>1. Init => ErrorFlow
    BY DEF Init, ErrorFlow, NoneYet, Stages
  <1>2. ErrorFlow => ReportsFirstError
    BY DEF ErrorFlow, ReportsFirstError
  <1>3. Spec => [](TypeOK /\ ErrorFlow)
    BY InitTypes, StepTypes, <1>1, StepErrors, PTL DEF Spec
  <1> QED
    BY <1>2, <1>3, PTL
-----------------------------------------------------------------------------
(* What runs after a failure.                                               *)

\* The uploads of metrics belong to hooks that were parsed.
MetricFlow ==
  /\ ~parsed => pending = {}
  /\ pc = "entries" => parsed
  /\ pc \in {"setup", "parse"} => ~parsed
  /\ MetricsDrained

\* The after-hooks are begun behind the install phase and nowhere else.
AfterBegun == (side = "after") <=> ("install" \in Range(ran) /\ ~NoEntries("after"))
HookFlow ==
  /\ pc \in {"setup", "parse", "before", "install"} =>
       "install" \notin Range(ran) /\ side = "before"
  /\ pc = "after" => "install" \in Range(ran) /\ side = "before"
  /\ pc = "entries" =>
       IF side = "before" THEN "install" \notin Range(ran)
       ELSE "install" \in Range(ran) /\ ~NoEntries("after")
  /\ pc \notin {"setup", "parse", "before", "install", "after", "entries"} => AfterBegun

\* What is known of the outcome at each place.
NotTold == status = "none" /\ uploaded = {} /\ "onComplete" \notin Range(raised)
OutcomeFlow ==
  /\ pc \notin {"onComplete", "upload", "over"} => success /\ NotTold
  /\ pc = "onError" => raised # <<>>
  /\ pc = "onComplete" => NotTold /\ (success <=> raised = <<>>)
  /\ pc = "upload" => /\ uploaded = {} /\ "onComplete" \notin Range(raised)
                      /\ success <=> raised = <<>>
                      /\ status = Status
  /\ OutcomeTold

\* One more place in a history.
LEMMA RangeAppend ==
  ASSUME NEW S, NEW s \in Seq(S), NEW e \in S
  PROVE  Range(Append(s, e)) = Range(s) \cup {e}
  <1> DEFINE t == Append(s, e)
  <1>1. t \in Seq(S) /\ Len(t) = Len(s) + 1 /\ t[Len(t)] = e /\ Len(s) \in Nat
    OBVIOUS
  <1>2. \A k \in 1..Len(s) : t[k] = s[k]
    OBVIOUS
  <1>3. DOMAIN t = 1..Len(t) /\ DOMAIN s = 1..Len(s)
    BY <1>1
  <1> HIDE DEF t
  <1>4. ASSUME NEW x \in Range(t) PROVE x \in Range(s) \cup {e}
    <2>1. PICK k \in 1..Len(t) : x = t[k]
      BY <1>3 DEF Range
    <2>2. CASE k = Len(t)
      BY <1>1, <2>1, <2>2
    <2>3. CASE k # Len(t)
      <3>1. k \in 1..Len(s)
        BY <1>1, <2>3
      <3> QED
        BY <1>2, <1>3, <2>1, <3>1 DEF Range
    <2> QED
      BY <2>2, <2>3
  <1>5. ASSUME NEW x \in Range(s) \cup {e} PROVE x \in Range(t)
    <2>1. CASE x = e
      <3>1. Len(t) \in 1..Len(t)
        BY <1>1
      <3> QED
        BY <1>1, <1>3, <2>1, <3>1 DEF Range
    <2>2. CASE x \in Range(s)
      <3>1. PICK k \in 1..Len(s) : x = s[k]
        BY <1>3, <2>2 DEF Range
      <3>2. k \in 1..Len(t)
        BY <1>1
      <3> QED
        BY <1>2, <1>3, <3>1, <3>2 DEF Range
    <2> QED
      BY <2>1, <2>2
  <1>6. Range(t) = Range(s) \cup {e}
    BY <1>4, <1>5
  <1> QED
    BY <1>6 DEF t

\* Running a place adds it to the history.
LEMMA RunRange ==
  ASSUME TypeOK, NEW p \in Sources, Run(p)
  PROVE  Range(ran') = Range(ran) \cup {p}
  BY RangeAppend DEF Run, TypeOK

\* An empty history has no places.
LEMMA RangeEmpty == Range(<<>>) = {}
  BY DEF Range

\* A phase of a stretch is in that stretch only, and is no other place.
LEMMA PlaceNames ==
  ASSUME NEW g \in Stages, NEW k \in 1..Len(PhasesOf[g])
  PROVE  /\ PhasesOf[g][k] \in Range(PhasesOf[g])
         /\ PhasesOf[g][k] \notin {"install", "cleanUp"} \cup Hooks
         /\ \A h \in Stages \ {g} : PhasesOf[g][k] \notin Range(PhasesOf[h])
  <1>1. PhasesOf[g] \in Seq(STRING)
    BY BuildAssumption
  <1>2. PhasesOf[g][k] \in Range(PhasesOf[g])
    BY <1>1 DEF Range
  <1> QED
    BY <1>2, PlaceAssumption

\* Hook entries are none of the builder's phases.
LEMMA EntryPlaces ==
  ASSUME NEW s \in Sides, NEW k \in 1..Len(Entries[s])
  PROVE  /\ Entries[s][k] \in AllEntries /\ Entries[s][k] \in Sources
         /\ Entries[s][k] \in Errors
         /\ Entries[s][k] \notin {"install", "cleanUp"} \cup Hooks
         /\ Entries[s][k] \notin Range(PhasesOf["guarded"])
  <1>1. Entries[s][k] \in AllEntries
    BY Places
  <1>2. Range(PhasesOf["guarded"]) \subseteq Phases
    BY DEF Phases, Stages
  <1> QED
    BY <1>1, <1>2, Places, BuildAssumption

\* The fixed places are in no stretch of the builder.
LEMMA FixedPlaces ==
  /\ ({"install", "cleanUp"} \cup Hooks) \cap Range(PhasesOf["guarded"]) = {}
  /\ {"install", "cleanUp"} \cup Hooks \subseteq Sources
  /\ {"install", "cleanUp"} \cup Hooks \subseteq Errors
  <1>1. "guarded" \in Stages
    BY DEF Stages
  <1> QED
    BY <1>1, Places, PlaceAssumption

\* Every step keeps the uploads of metrics accounted for.
LEMMA StepMetrics == MetricFlow /\ [Next]_vars => MetricFlow'
  <1> SUFFICES ASSUME MetricFlow, [Next]_vars PROVE MetricFlow'
    OBVIOUS
  <1> USE DEF MetricFlow, MetricsDrained, hooks, ends, job, Stages, Hooks, Sides
  <1>1. CASE RunPhase
    BY <1>1 DEF RunPhase, Unwind
  <1>2. CASE SkipNativeBuild
    BY <1>2 DEF SkipNativeBuild
  <1>3. CASE EndStage
    BY <1>3 DEF EndStage, NextStage
  <1>4. CASE ParseHooks
    BY <1>4 DEF ParseHooks
  <1>5. ASSUME NEW s \in Sides, SkipSide(s) PROVE MetricFlow'
    BY <1>5 DEF SkipSide, AfterSide
  <1>6. ASSUME NEW s \in Sides, BeginSide(s) PROVE MetricFlow'
    BY <1>6 DEF BeginSide, NoEntries
  <1>7. CASE RunEntry
    BY <1>7 DEF RunEntry
  <1>8. CASE EndSide
    BY <1>8 DEF EndSide, AfterSide
  <1>9. CASE Install
    BY <1>9 DEF Install
  <1>10. CASE CleanUpCredentials
    BY <1>10 DEF CleanUpCredentials
  <1>11. CASE DrainMetrics
    BY <1>11 DEF DrainMetrics
  <1>12. CASE OnSuccess
    BY <1>12 DEF OnSuccess
  <1>13. CASE OnError
    BY <1>13 DEF OnError
  <1>14. CASE OnComplete
    BY <1>14 DEF OnComplete
  <1>15. CASE Upload
    BY <1>15 DEF Upload
  <1>16. CASE UNCHANGED vars
    BY <1>16 DEF vars
  <1> QED
    BY <1>1, <1>2, <1>3, <1>4, <1>5, <1>6, <1>7, <1>8, <1>9, <1>10, <1>11, <1>12, <1>13,
       <1>14, <1>15, <1>16 DEF Next

\* Only the stretch that is guarded begins to prepare credentials, and every way
\* out of it leads through the clean-up.
LEMMA StepCredentials ==
  TypeOK /\ CredentialsCleanedUp /\ [Next]_vars => CredentialsCleanedUp'
  <1> SUFFICES ASSUME TypeOK, CredentialsCleanedUp, [Next]_vars
               PROVE  CredentialsCleanedUp'
    OBVIOUS
  <1> DEFINE G == Range(PhasesOf["guarded"])
  <1> USE DEF hooks, ends, job
  \* A place outside the stretch is no reason to clean up.
  <1>1. ASSUME NEW p \in Sources, Run(p), p \notin G, ios' = ios,
               pc \in {"guarded", "cleanUp"} => pc' \in {"guarded", "cleanUp"}
        PROVE  CredentialsCleanedUp'
    <2>1. Range(ran') = Range(ran) \cup {p}
      BY <1>1, RunRange
    <2> QED
      BY <1>1, <2>1 DEF CredentialsCleanedUp
  <1>2. ASSUME UNCHANGED <<ios, ran>>,
               ios /\ pc \in {"guarded", "cleanUp"} => pc' \in {"guarded", "cleanUp"}
        PROVE  CredentialsCleanedUp'
    BY <1>2 DEF CredentialsCleanedUp
  <1>3. CASE RunPhase
    <2> DEFINE p == PhasesOf[pc][pos]
    <2>1. pc \in Stages /\ pos \in 1..Len(PhasesOf[pc]) /\ Run(p) /\ ios' = ios
          /\ (pc' = pc \/ pc' = Unwind)
      BY <1>3 DEF RunPhase, TypeOK
    <2>2. p \in Sources
      BY <2>1, Places
    <2>3. CASE pc = "guarded"
      BY <2>1, <2>3 DEF CredentialsCleanedUp, Unwind
    <2>4. CASE pc # "guarded"
      <3>1. p \notin G
        BY <2>1, <2>4, PlaceNames DEF Stages
      <3> HIDE DEF p
      <3> QED
        BY <1>1, <2>1, <2>2, <2>4, <3>1 DEF Stages
    <2> QED
      BY <2>3, <2>4
  <1>4. CASE SkipNativeBuild
    BY <1>2, <1>4 DEF SkipNativeBuild
  <1>5. CASE EndStage
    BY <1>2, <1>5 DEF EndStage, NextStage, Stages
  <1>6. CASE ParseHooks
    BY <1>2, <1>6 DEF ParseHooks
  <1>7. ASSUME NEW s \in Sides, SkipSide(s) \/ BeginSide(s) PROVE CredentialsCleanedUp'
    BY <1>2, <1>7 DEF SkipSide, BeginSide, Sides
  <1>8. CASE RunEntry
    <2> DEFINE e == Entries[side][pos]
    <2>1. e \in Sources /\ e \notin G
      BY <1>8, EntryPlaces DEF RunEntry, TypeOK
    <2>2. ran' = ran \/ ran' = Append(ran, e)
      BY <1>8 DEF RunEntry
    <2> HIDE DEF e
    <2>3. Range(ran') = Range(ran) \/ Range(ran') = Range(ran) \cup {e}
      <3>1. ran \in Seq(Sources)
        BY DEF TypeOK
      <3>2. Range(Append(ran, e)) = Range(ran) \cup {e}
        BY <2>1, <3>1, RangeAppend
      <3> QED
        BY <2>2, <3>2, ZenonT(20)
    <2>4. ios' = ios /\ pc = "entries"
      BY <1>8 DEF RunEntry
    <2> QED
      BY <2>1, <2>3, <2>4 DEF CredentialsCleanedUp
  <1>9. CASE EndSide
    BY <1>2, <1>9 DEF EndSide
  <1>10. CASE Install
    BY <1>1, <1>10, FixedPlaces DEF Install
  <1>11. CASE CleanUpCredentials
    <2>1. Run("cleanUp")
      BY <1>11 DEF CleanUpCredentials
    <2>2. "cleanUp" \in Range(ran')
      BY <2>1, FixedPlaces, RunRange
    <2> QED
      BY <2>2 DEF CredentialsCleanedUp
  <1>12. CASE DrainMetrics
    BY <1>2, <1>12 DEF DrainMetrics
  <1>13. CASE OnSuccess
    BY <1>1, <1>13, FixedPlaces DEF OnSuccess, Hooks
  <1>14. CASE OnError
    BY <1>1, <1>14, FixedPlaces DEF OnError, Hooks
  <1>15. CASE OnComplete
    BY <1>1, <1>15, FixedPlaces DEF OnComplete, Hooks
  <1>16. CASE Upload
    BY <1>2, <1>16 DEF Upload
  <1>17. CASE UNCHANGED vars
    BY <1>2, <1>17 DEF vars
  <1> QED
    BY <1>3, <1>4, <1>5, <1>6, <1>7, <1>8, <1>9, <1>10, <1>11, <1>12, <1>13, <1>14, <1>15,
       <1>16, <1>17 DEF Next

\* Every step keeps the after-hooks tied to the install phase.
LEMMA StepHooks == TypeOK /\ MetricFlow /\ HookFlow /\ [Next]_vars => HookFlow'
  <1> SUFFICES ASSUME TypeOK, MetricFlow, HookFlow, [Next]_vars PROVE HookFlow'
    OBVIOUS
  <1> DEFINE I == "install" \in Range(ran)
  <1> USE DEF hooks, ends, job
  \* Past the hooks nothing but the install phase itself disturbs the tie.
  <1>1. ASSUME AfterBegun, I' = I, UNCHANGED <<side, parsed>>
        PROVE  AfterBegun'
    BY <1>1 DEF AfterBegun, NoEntries
  <1>2. ASSUME NEW p \in Sources, Run(p), p # "install" PROVE I' = I
    <2>1. Range(ran') = Range(ran) \cup {p}
      BY <1>2, RunRange
    <2> QED
      BY <1>2, <2>1
  \* A step behind the hooks, or before them, that runs no install phase.
  <1>3. ASSUME I' = I, UNCHANGED <<side, parsed>>,
               pc \notin {"before", "install", "after", "entries"},
               pc' \notin {"before", "install", "after", "entries"},
               pc' \in {"setup", "parse"} => pc \in {"setup", "parse"}
        PROVE  HookFlow'
    <2>1. CASE pc \in {"setup", "parse"}
      <3>1. ~I' /\ side' = "before"
        BY <1>3, <2>1 DEF HookFlow
      <3> QED
        BY <1>3, <3>1 DEF HookFlow, AfterBegun
    <2>2. CASE pc \notin {"setup", "parse"}
      BY <1>1, <1>3, <2>2 DEF HookFlow
    <2> QED
      BY <2>1, <2>2
  <1>4. CASE RunPhase
    <2> DEFINE p == PhasesOf[pc][pos]
    <2>1. pc \in Stages /\ pos \in 1..Len(PhasesOf[pc]) /\ Run(p)
          /\ (pc' = pc \/ pc' = Unwind) /\ UNCHANGED <<side, parsed>>
      BY <1>4 DEF RunPhase, TypeOK
    <2>2. p \in Sources /\ p # "install"
      BY <2>1, Places, PlaceNames
    <2> HIDE DEF p
    <2>3. I' = I
      BY <1>2, <2>1, <2>2
    <2> HIDE DEF I
    <2> QED
      BY <1>3, <2>1, <2>3 DEF Stages, Unwind
  <1>5. CASE SkipNativeBuild
    BY <1>3, <1>5 DEF SkipNativeBuild
  <1>6. CASE EndStage
    BY <1>3, <1>6 DEF EndStage, NextStage, Stages
  <1>7. CASE ParseHooks
    <2>1. pc = "parse" /\ pc' \in {"before", "drain"} /\ UNCHANGED <<side, ran>>
      BY <1>7 DEF ParseHooks
    <2> QED
      BY <2>1 DEF HookFlow, AfterBegun
  <1>8. ASSUME NEW s \in Sides, SkipSide(s) PROVE HookFlow'
    <2>1. pc = s /\ NoEntries(s) /\ UNCHANGED <<side, parsed, ran>>
          /\ pc' = IF s = "before" THEN "install"
                   ELSE IF phaseErr # NoError THEN "drain" ELSE "rest"
      BY <1>8 DEF SkipSide, AfterSide
    <2>2. CASE s = "before"
      BY <2>1, <2>2 DEF HookFlow
    <2>3. CASE s = "after"
      <3>1. side = "before" /\ NoEntries("after")
        BY <2>1, <2>3 DEF HookFlow
      <3> QED
        BY <2>1, <2>3, <3>1 DEF HookFlow, AfterBegun, NoEntries
    <2> QED
      BY <2>2, <2>3 DEF Sides
  <1>9. ASSUME NEW s \in Sides, BeginSide(s) PROVE HookFlow'
    <2>1. /\ pc = s /\ ~NoEntries(s) /\ UNCHANGED <<parsed, ran>>
          /\ pc' = "entries" /\ side' = s
      BY <1>9 DEF BeginSide
    <2> QED
      BY <2>1 DEF HookFlow, NoEntries, Sides
  <1>10. CASE RunEntry
    <2> DEFINE e == Entries[side][pos]
    <2>1. e \in Sources /\ e # "install"
      BY <1>10, EntryPlaces DEF RunEntry, TypeOK
    <2>2. ran' = ran \/ ran' = Append(ran, e)
      BY <1>10 DEF RunEntry
    <2>3. UNCHANGED <<pc, side, parsed>> /\ pc = "entries"
      BY <1>10 DEF RunEntry
    <2> HIDE DEF e
    <2>4. Range(ran') = Range(ran) \/ Range(ran') = Range(ran) \cup {e}
      <3>1. ran \in Seq(Sources)
        BY DEF TypeOK
      <3>2. e \in Sources
        BY <2>1
      <3>3. Range(Append(ran, e)) = Range(ran) \cup {e}
        BY <3>1, <3>2, RangeAppend
      <3> QED
        BY <2>2, <3>3
    <2>5. I' = I
      BY <2>1, <2>4
    <2> QED
      BY <2>3, <2>5 DEF HookFlow, NoEntries
  <1>11. CASE EndSide
    <2>1. /\ pc = "entries" /\ UNCHANGED <<side, parsed, ran>>
          /\ IF side = "before" THEN pc' \in {"drain", "install"}
             ELSE pc' \in {"drain", "rest"}
      BY <1>11 DEF EndSide, AfterSide
    <2>2. CASE side = "before"
      BY <2>1, <2>2 DEF HookFlow, AfterBegun
    <2>3. CASE side # "before"
      <3>1. side = "after"
        BY <2>3 DEF TypeOK, Sides
      <3> QED
        BY <2>1, <3>1 DEF HookFlow, AfterBegun, NoEntries
    <2> QED
      BY <2>2, <2>3
  <1>12. CASE Install
    <2>1. Run("install") /\ pc = "install" /\ pc' = "after" /\ side' = side
      BY <1>12 DEF Install
    <2>2. I'
      BY <2>1, FixedPlaces, RunRange
    <2> QED
      BY <2>1, <2>2 DEF HookFlow
  <1>13. CASE CleanUpCredentials
    <2>1. I' = I
      BY <1>2, <1>13, FixedPlaces DEF CleanUpCredentials
    <2> QED
      BY <1>3, <1>13, <2>1 DEF CleanUpCredentials
  <1>14. CASE DrainMetrics
    BY <1>3, <1>14 DEF DrainMetrics
  <1>15. CASE OnSuccess
    <2>1. I' = I
      BY <1>2, <1>15, FixedPlaces DEF OnSuccess, Hooks
    <2> QED
      BY <1>3, <1>15, <2>1 DEF OnSuccess
  <1>16. CASE OnError
    <2>1. I' = I
      BY <1>2, <1>16, FixedPlaces DEF OnError, Hooks
    <2> QED
      BY <1>3, <1>16, <2>1 DEF OnError
  <1>17. CASE OnComplete
    <2>1. I' = I
      BY <1>2, <1>17, FixedPlaces DEF OnComplete, Hooks
    <2> QED
      BY <1>3, <1>17, <2>1 DEF OnComplete
  <1>18. CASE Upload
    BY <1>3, <1>18 DEF Upload
  <1>19. CASE UNCHANGED vars
    BY <1>19 DEF vars, HookFlow, AfterBegun, NoEntries
  <1> QED
    BY <1>4, <1>5, <1>6, <1>7, <1>8, <1>9, <1>10, <1>11, <1>12, <1>13, <1>14, <1>15,
       <1>16, <1>17, <1>18, <1>19 DEF Next

\* Whether a build is in error follows from the history once the builder is through.
LEMMA NothingRaised == TypeOK /\ err = Reported => (err = NoError <=> raised = <<>>)
  <1> SUFFICES ASSUME TypeOK, err = Reported PROVE err = NoError <=> raised = <<>>
    OBVIOUS
  <1>1. \A i \in 1..Len(raised) : raised[i] # NoError
    BY BuildAssumption DEF TypeOK
  <1>2. raised # <<>> => 1 \in 1..Len(raised) /\ Len(raised) \in 1..Len(raised)
    BY DEF TypeOK
  <1> QED
    BY <1>1, <1>2 DEF Reported, Last

\* A history of errors is empty when no error is in it.
LEMMA RaisedRange == TypeOK => (raised = <<>> <=> Range(raised) = {})
  <1> SUFFICES ASSUME TypeOK PROVE raised = <<>> <=> Range(raised) = {}
    OBVIOUS
  <1>1. DOMAIN raised = 1..Len(raised) /\ (raised # <<>> => 1 \in 1..Len(raised))
    BY DEF TypeOK
  <1> QED
    BY <1>1, RangeEmpty DEF Range

\* Raising an error adds it to the history.
LEMMA RaiseRange ==
  ASSUME TypeOK, NEW e \in Errors, raised' = Append(raised, e)
  PROVE  Range(raised') = Range(raised) \cup {e} /\ raised' # <<>>
  BY RangeAppend DEF TypeOK

\* Every step keeps the outcome that the on-complete hook is told right.
LEMMA StepOutcome ==
  TypeOK /\ TypeOK' /\ ErrorFlow /\ OutcomeFlow /\ [Next]_vars => OutcomeFlow'
  <1> SUFFICES ASSUME TypeOK, TypeOK', ErrorFlow, OutcomeFlow, [Next]_vars
               PROVE  OutcomeFlow'
    OBVIOUS
  <1> USE DEF hooks, ends, job
  \* An error of another place than the hook leaves what it was told alone.
  <1>1. ASSUME NotTold, UNCHANGED <<status, uploaded>>,
               \/ raised' = raised
               \/ \E e \in Errors \ {"onComplete"} : raised' = Append(raised, e)
        PROVE  NotTold'
    BY <1>1, RaiseRange DEF NotTold
  \* A step that stays before the package.json hooks.
  <1>2. ASSUME pc \notin {"onError", "onComplete", "upload", "over"},
               pc' \notin {"onError", "onComplete", "upload", "over"},
               UNCHANGED ends,
               \/ raised' = raised
               \/ \E e \in Errors \ {"onComplete"} : raised' = Append(raised, e)
        PROVE  OutcomeFlow'
    BY <1>1, <1>2 DEF OutcomeFlow, OutcomeTold
  <1>3. CASE RunPhase
    <2> DEFINE p == PhasesOf[pc][pos]
    <2>1. /\ pc \in Stages /\ pos \in 1..Len(PhasesOf[pc])
          /\ pc' = pc \/ pc' = Unwind
          /\ UNCHANGED ends /\ (raised' = raised \/ raised' = Append(raised, p))
      BY <1>3 DEF RunPhase, Raise, TypeOK
    <2>2. p \in Errors \ {"onComplete"}
      BY <2>1, Places, PlaceNames DEF Hooks
    <2> HIDE DEF p
    <2> QED
      BY <1>2, <2>1, <2>2 DEF Stages, Unwind
  <1>4. CASE SkipNativeBuild
    <2>1. "skipNativeBuild" \in Errors \ {"onComplete"}
      BY DEF Errors
    <2> QED
      BY <1>2, <1>4, <2>1 DEF SkipNativeBuild, Raise
  <1>5. CASE EndStage
    BY <1>2, <1>5 DEF EndStage, NextStage, Stages
  <1>6. CASE ParseHooks
    <2>1. "parse" \in Errors \ {"onComplete"}
      BY DEF Errors
    <2> QED
      BY <1>2, <1>6, <2>1 DEF ParseHooks, Raise
  <1>7. ASSUME NEW s \in Sides, SkipSide(s) \/ BeginSide(s) PROVE OutcomeFlow'
    BY <1>2, <1>7 DEF SkipSide, BeginSide, AfterSide, Sides
  <1>8. CASE RunEntry
    <2> DEFINE e == Entries[side][pos]
    <2>1. e \in Errors \ {"onComplete"}
      BY <1>8, EntryPlaces DEF RunEntry, TypeOK, Hooks
    <2>2. raised' = raised \/ raised' = Append(raised, e)
      BY <1>8 DEF RunEntry
    <2>3. pc = "entries" /\ pc' = pc /\ UNCHANGED ends
      BY <1>8 DEF RunEntry
    <2> HIDE DEF e
    <2> QED
      BY <1>2, <2>1, <2>2, <2>3
  <1>9. CASE EndSide
    BY <1>2, <1>9 DEF EndSide, AfterSide
  <1>10. CASE Install
    <2>1. "install" \in Errors \ {"onComplete"}
      BY FixedPlaces
    <2> QED
      BY <1>2, <1>10, <2>1 DEF Install
  <1>11. CASE CleanUpCredentials
    <2>1. "cleanUp" \in Errors \ {"onComplete"}
      BY FixedPlaces
    <2> QED
      BY <1>2, <1>11, <2>1 DEF CleanUpCredentials, Raise
  <1>12. CASE DrainMetrics
    <2>1. /\ pc = "drain" /\ UNCHANGED <<ends, raised, err>>
          /\ pc' = IF err = NoError THEN "onSuccess" ELSE "onError"
      BY <1>12 DEF DrainMetrics
    <2>2. err = NoError <=> raised = <<>>
      BY <2>1, NothingRaised DEF ErrorFlow
    <2> QED
      BY <2>1, <2>2 DEF OutcomeFlow, OutcomeTold, NotTold
  <1>13. CASE OnSuccess
    <2>1. "onSuccess" \in Errors \ {"onComplete"}
      BY FixedPlaces DEF Hooks
    <2>2. /\ pc = "onSuccess" /\ UNCHANGED ends /\ raised = <<>>
          /\ \/ pc' = "onComplete" /\ raised' = raised
             \/ pc' = "onError" /\ raised' = Append(raised, "onSuccess")
      BY <1>13 DEF OnSuccess, Raise, ErrorFlow, NoneYet
    <2>3. NotTold' /\ success /\ success' = success
      BY <1>1, <2>1, <2>2 DEF OutcomeFlow
    <2>4. pc' = "onError" => raised' # <<>>
      BY <2>1, <2>2, RaiseRange
    <2> QED
      BY <2>2, <2>3, <2>4 DEF OutcomeFlow, OutcomeTold
  <1>14. CASE OnError
    <2>1. "onError" \in Errors \ {"onComplete"}
      BY FixedPlaces DEF Hooks
    <2>2. /\ pc = "onError" /\ pc' = "onComplete" /\ success' = FALSE
          /\ UNCHANGED <<status, uploaded>>
          /\ raised' = raised \/ raised' = Append(raised, "onError")
      BY <1>14 DEF OnError, Raise
    <2>3. NotTold'
      BY <1>1, <2>1, <2>2 DEF OutcomeFlow
    <2>4. raised' # <<>>
      BY <2>1, <2>2, RaiseRange DEF OutcomeFlow
    <2> QED
      BY <2>2, <2>3, <2>4 DEF OutcomeFlow, OutcomeTold
  <1>15. CASE OnComplete
    <2>1. "onComplete" \in Errors
      BY FixedPlaces DEF Hooks
    <2>2. /\ pc = "onComplete" /\ status' = Status
          /\ success' = success /\ uploaded' = uploaded
      BY <1>15 DEF OnComplete
    <2>3. NotTold /\ (success <=> raised = <<>>) /\ uploaded' = {}
      BY <2>2 DEF OutcomeFlow, NotTold
    <2>4. CASE pc' = "upload" /\ raised' = raised
      BY <2>2, <2>3, <2>4 DEF OutcomeFlow, OutcomeTold, NotTold, Status
    <2>5. CASE pc' = "over" /\ raised' = Append(raised, "onComplete")
      <3>1. Range(raised') = Range(raised) \cup {"onComplete"}
        BY <2>1, <2>5, RaiseRange
      <3>2. status' = "finished" <=> raised = <<>>
        BY <2>2, <2>3 DEF Status
      <3>3. raised = <<>> <=> Range(raised) = {}
        BY RaisedRange
      <3>4. Range(raised') \subseteq {"onComplete"} <=> Range(raised) = {}
        BY <2>3, <3>1 DEF NotTold
      <3>5. status' # "none"
        BY <2>2 DEF Status
      <3> QED
        BY <2>3, <2>5, <3>1, <3>2, <3>3, <3>4, <3>5 DEF OutcomeFlow, OutcomeTold
    <2> QED
      BY <1>15, <2>4, <2>5 DEF OnComplete, Raise
  <1>16. CASE Upload
    <2>1. /\ pc = "upload" /\ pc' = "over" /\ UNCHANGED <<err, raised, success, status>>
          /\ "artifacts" \in uploaded'
          /\ "sourceMap" \in uploaded' => success
      BY <1>16 DEF Upload
    <2>2. /\ "onComplete" \notin Range(raised) /\ (success <=> raised = <<>>)
          /\ status = Status
      BY <2>1 DEF OutcomeFlow
    <2>3. success <=> Range(raised) = {}
      BY <2>2, RaisedRange
    <2>4. success => err = NoError
      BY <2>1, <2>2, NothingRaised DEF ErrorFlow
    <2>5. Range(raised') = Range(raised)
      BY <2>1
    <2> QED
      BY <2>1, <2>2, <2>3, <2>4, <2>5 DEF OutcomeFlow, OutcomeTold, Status
  <1>17. CASE UNCHANGED vars
    BY <1>17 DEF vars, OutcomeFlow, OutcomeTold, NotTold, Status
  <1> QED
    BY <1>3, <1>4, <1>5, <1>6, <1>7, <1>8, <1>9, <1>10, <1>11, <1>12, <1>13, <1>14, <1>15,
       <1>16, <1>17 DEF Next

\* What has to run after a failure does, and no more: whatever phase, hook or
\* finalizer failed, the credentials are cleaned up and the uploads are over when
\* the package.json hooks begin, the after-hooks ran when the install phase did,
\* and the on-complete hook was told the outcome that the build reports.
THEOREM CleanUpAlwaysRuns == Spec => []CleanUpRuns
  <1>1. Init => ErrorFlow
    BY DEF Init, ErrorFlow, NoneYet, Stages
  <1>2. Init => MetricFlow /\ CredentialsCleanedUp /\ HookFlow /\ OutcomeFlow
    BY RangeEmpty DEF Init, MetricFlow, MetricsDrained, Hooks, CredentialsCleanedUp, HookFlow,
       OutcomeFlow, OutcomeTold, NotTold
  <1>3. HookFlow => AfterHooksFollowPhase
    BY DEF HookFlow, AfterBegun, AfterHooksFollowPhase
  <1>4. MetricFlow /\ CredentialsCleanedUp /\ HookFlow /\ OutcomeFlow => CleanUpRuns
    BY <1>3 DEF MetricFlow, OutcomeFlow, CleanUpRuns, FinallyBlocksRun
  <1>5. Spec => [](TypeOK /\ ErrorFlow)
    BY InitTypes, StepTypes, <1>1, StepErrors, PTL DEF Spec
  <1>6. Spec => [](MetricFlow /\ CredentialsCleanedUp /\ HookFlow /\ OutcomeFlow)
    BY <1>2, <1>5, StepMetrics, StepCredentials, StepHooks, StepOutcome, PTL DEF Spec
  <1> QED
    BY <1>4, <1>6, PTL

-----------------------------------------------------------------------------
(* The build ends: its steps only go forward.                              *)

\* Where a place stands in the order of the build.
PlaceRank(p, s) ==
  CASE p = "setup" -> 1 [] p = "parse" -> 2
    [] p = "before" -> 3 [] p = "entries" /\ s = "before" -> 4
    [] p = "install" -> 5
    [] p = "after" -> 6 [] p = "entries" /\ s # "before" -> 7
    [] p = "rest" -> 8 [] p = "guarded" -> 9 [] p = "cleanUp" -> 10 [] p = "tail" -> 11
    [] p = "drain" -> 12
    [] p = "onSuccess" -> 13 [] p = "onError" -> 14 [] p = "onComplete" -> 15
    [] p = "upload" -> 16 [] OTHER -> 17

\* A step leads to a later stage or, in a list of phases or entries, to its next.
BuildGoesOn ==
  \/ PlaceRank(pc', side') > PlaceRank(pc, side)
  \/ /\ pc \in Stages \cup {"entries"}
     /\ UNCHANGED <<pc, side>> /\ pos' = pos + 1
     /\ pos <= IF pc = "entries" THEN Len(Entries[side]) ELSE Len(PhasesOf[pc])

\* Every step of a build that is not over leads to a later place.
LEMMA StepFurther == TypeOK /\ [Next]_vars => [BuildGoesOn]_vars
  <1> SUFFICES ASSUME TypeOK, [Next]_vars, ~UNCHANGED vars PROVE BuildGoesOn
    OBVIOUS
  <1> USE DEF job, hooks, ends
  <1>1. CASE RunPhase
    <2>1. pc \in Stages /\ pos <= Len(PhasesOf[pc]) /\ side' = side /\ pc # "entries"
      BY <1>1 DEF RunPhase, Stages
    <2>2. CASE pos' = pos + 1 /\ pc' = pc
      BY <2>1, <2>2 DEF BuildGoesOn
    <2>3. CASE pc' = Unwind
      BY <2>1, <2>3 DEF BuildGoesOn, PlaceRank, Unwind, Stages
    <2> QED
      BY <1>1, <2>2, <2>3 DEF RunPhase
  <1>2. CASE SkipNativeBuild
    BY <1>2 DEF SkipNativeBuild, BuildGoesOn, PlaceRank
  <1>3. CASE EndStage
    BY <1>3 DEF EndStage, NextStage, BuildGoesOn, PlaceRank, Stages
  <1>4. CASE ParseHooks
    BY <1>4 DEF ParseHooks, BuildGoesOn, PlaceRank
  <1>5. ASSUME NEW s \in Sides, SkipSide(s) PROVE BuildGoesOn
    BY <1>5 DEF SkipSide, AfterSide, BuildGoesOn, PlaceRank, Sides
  <1>6. ASSUME NEW s \in Sides, BeginSide(s) PROVE BuildGoesOn
    BY <1>6 DEF BeginSide, BuildGoesOn, PlaceRank, Sides
  <1>7. CASE RunEntry
    BY <1>7 DEF RunEntry, BuildGoesOn
  <1>8. CASE EndSide
    <2>1. pc = "entries" /\ side' = side /\ side \in Sides
      BY <1>8 DEF EndSide, TypeOK
    <2>2. CASE side = "before"
      <3>1. pc' \in {"install", "drain"}
        BY <1>8, <2>2 DEF EndSide, AfterSide
      <3> QED
        BY <2>1, <2>2, <3>1 DEF BuildGoesOn, PlaceRank
    <2>3. CASE side # "before"
      <3>1. pc' \in {"drain", "rest"}
        BY <1>8, <2>3 DEF EndSide
      <3> QED
        BY <2>1, <2>3, <3>1 DEF BuildGoesOn, PlaceRank
    <2> QED
      BY <2>2, <2>3
  <1>9. CASE Install
    BY <1>9 DEF Install, BuildGoesOn, PlaceRank
  <1>10. CASE CleanUpCredentials
    BY <1>10 DEF CleanUpCredentials, BuildGoesOn, PlaceRank
  <1>11. CASE DrainMetrics
    BY <1>11 DEF DrainMetrics, BuildGoesOn, PlaceRank
  <1>12. CASE OnSuccess
    BY <1>12 DEF OnSuccess, BuildGoesOn, PlaceRank
  <1>13. CASE OnError
    BY <1>13 DEF OnError, BuildGoesOn, PlaceRank
  <1>14. CASE OnComplete
    BY <1>14 DEF OnComplete, BuildGoesOn, PlaceRank
  <1>15. CASE Upload
    BY <1>15 DEF Upload, BuildGoesOn, PlaceRank
  <1> QED
    BY <1>1, <1>2, <1>3, <1>4, <1>5, <1>6, <1>7, <1>8, <1>9, <1>10, <1>11, <1>12, <1>13, <1>14,
       <1>15 DEF Next

\* However phases, hooks and finally blocks fail, the builder never goes back to
\* a place it has left: each step leads to a later stage of the build, or to the
\* next phase or entry of a list that has one, so that every build ends.
THEOREM BuildEnds == Spec => [][BuildGoesOn]_vars
<1> QED BY InitTypes, StepTypes, StepFurther, PTL DEF Spec

=============================================================================
