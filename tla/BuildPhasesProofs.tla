-------------------------- MODULE BuildPhasesProofs --------------------------
(***************************************************************************)
(* Proofs about BuildPhases, for any number of runners, phases and names:   *)
(* its types, the markers in the log, and what a phase hands to the next.   *)
(***************************************************************************)
EXTENDS BuildPhases, TLAPS

\* The last marker tells whether a phase is open, and which.
Open ==
  IF buildPhase = NoPhase \/ buildPhase \in Unmarked
  THEN marks # <<>> => marks[Len(marks)].kind = "END"
  ELSE marks # <<>> /\ marks[Len(marks)].kind = "START"
                    /\ marks[Len(marks)].phase = buildPhase

Inv == TypeOK /\ Open /\ MarkersBracket

-----------------------------------------------------------------------------
\* The START_PHASE of a phase, marked or not, is a sequence of markers.
LEMMA MarkStartType == ASSUME NEW p \in Phases PROVE MarkStart(p) \in Seq(Marker)
  <1>1. Start(p) \in Marker
    BY DEF Start, Marker
  <1> QED
    BY <1>1 DEF MarkStart

\* Starting a phase keeps the types of the context (setBuildPhase).
LEMMA StartTypes ==
  ASSUME TypeOK, NEW p \in Phases, SetBuildPhase(p)
  PROVE  buildPhase' \in Phases /\ marks' \in Seq(Marker)
  <1>1. MarkStart(p) \in Seq(Marker)
    BY MarkStartType
  <1>2. CASE buildPhase = p
    BY <1>2 DEF SetBuildPhase, TypeOK
  <1>3. CASE buildPhase # p /\ buildPhase = NoPhase
    BY <1>1, <1>3 DEF SetBuildPhase, TypeOK
  <1>4. CASE buildPhase # p /\ buildPhase # NoPhase
    <2>1. End(buildPhase, "UNKNOWN") \in Marker
      BY <1>4 DEF TypeOK, End, Marker, Results
    <2>2. Append(marks, End(buildPhase, "UNKNOWN")) \in Seq(Marker)
      BY <2>1 DEF TypeOK
    <2> QED
      BY <1>1, <1>4, <2>2 DEF SetBuildPhase, TypeOK
  <1> QED
    BY <1>2, <1>3, <1>4

\* Every initial state has the types.
LEMMA InitTypes == Init => TypeOK
  <1> SUFFICES ASSUME Init PROVE TypeOK
    OBVIOUS
  <1>1. None \in [Names -> 0..MaxWrites]
    BY PhasesAssumption DEF None
  <1>2. \A r \in Runners : at[r] <= Len(Plan[r])
    <2> TAKE r \in Runners
    <2>1. Plan[r] \in Seq(Phases)
      BY PhasesAssumption
    <2> QED
      BY <2>1 DEF Init
  <1>3. marks \in Seq(Marker)
    BY DEF Init
  <1>4. /\ env \in [Names -> 0..MaxWrites] /\ dir \in [Names -> 0..MaxWrites]
        /\ got \in [Runners -> [Names -> 0..MaxWrites]]
        /\ stored \in [Runners -> [Names -> 0..MaxWrites]]
    BY <1>1 DEF Init
  <1>5. /\ buildPhase \in Phases \cup {NoPhase}
        /\ skipped \in BOOLEAN /\ warned \in BOOLEAN
        /\ pc \in [Runners -> {"idle", "body", "handling", "list", "read", "remove", "over"}]
        /\ result \in [Runners -> Results]
        /\ failed \in [Runners -> BOOLEAN]
    BY DEF Init, Results
  <1>6. /\ at \in [Runners -> Nat] /\ writes \in 0..MaxWrites
        /\ todo \in [Runners -> SUBSET Names]
        /\ did \in [Runners -> SUBSET {"skip", "warn", "throw"}]
    BY PhasesAssumption DEF Init
  <1> QED
    BY <1>2, <1>3, <1>4, <1>5, <1>6 DEF TypeOK

\* Every step keeps the types.
LEMMA StepTypes == TypeOK /\ [Next]_vars => TypeOK'
  <1> SUFFICES ASSUME TypeOK, [Next]_vars PROVE TypeOK'
    OBVIOUS
  <1> USE PhasesAssumption
  <1>1. ASSUME NEW r \in Runners, Enter(r) PROVE TypeOK'
    <2>1. PICK k \in (at[r] + 1)..Len(Plan[r]) :
            /\ at' = [at EXCEPT ![r] = k]
            /\ SetBuildPhase(Plan[r][k])
      BY <1>1 DEF Enter
    <2>2. Plan[r] \in Seq(Phases) /\ at[r] \in Nat
      BY DEF TypeOK
    <2>3. k \in 1..Len(Plan[r])
      BY <2>1, <2>2
    <2>4. Plan[r][k] \in Phases
      BY <2>2, <2>3
    <2>5. buildPhase' \in Phases /\ marks' \in Seq(Marker)
      BY <2>1, <2>4, StartTypes
    <2>6. at' \in [Runners -> Nat] /\ \A q \in Runners : at'[q] <= Len(Plan[q])
      BY <2>1, <2>2, <2>3 DEF TypeOK
    <2>7. None \in [Names -> 0..MaxWrites]
      BY DEF None
    <2> QED
      BY <1>1, <2>5, <2>6, <2>7 DEF TypeOK, Enter, context, files, collect, Results
  <1>2. ASSUME NEW r \in Runners, Leave(r) PROVE TypeOK'
    BY <1>2 DEF TypeOK, Leave, context, files, collect, history
  <1>3. ASSUME NEW r \in Runners, MarkSkipped(r) PROVE TypeOK'
    BY <1>3 DEF TypeOK, MarkSkipped, files, collect
  <1>4. ASSUME NEW r \in Runners, MarkHasWarnings(r) PROVE TypeOK'
    BY <1>4 DEF TypeOK, MarkHasWarnings, files, collect
  <1>5. ASSUME NEW r \in Runners, NEW n \in Names, SetEnv(r, n) PROVE TypeOK'
    <2>1. writes' \in 0..MaxWrites
      BY <1>5 DEF TypeOK, SetEnv
    <2>2. dir' \in [Names -> 0..MaxWrites] /\ stored' \in [Runners -> [Names -> 0..MaxWrites]]
      BY <1>5, <2>1 DEF TypeOK, SetEnv
    <2> QED
      BY <1>5, <2>1, <2>2 DEF TypeOK, SetEnv, context, collect
  <1>6. ASSUME NEW r \in Runners, BodyReturns(r) PROVE TypeOK'
    BY <1>6 DEF TypeOK, BodyReturns, Resolve, Results, Close, context, files, collect, history
  <1>7. ASSUME NEW r \in Runners, BodyThrows(r) PROVE TypeOK'
    BY <1>7 DEF TypeOK, BodyThrows, context, files, collect
  <1>8. ASSUME NEW r \in Runners, HandleError(r) PROVE TypeOK'
    BY <1>8 DEF TypeOK, HandleError, Results, Close, context, files, collect, history
  <1>9. ASSUME NEW r \in Runners, CollectEnv(r) PROVE TypeOK'
    <2>1. CASE List(r)
      BY <2>1 DEF TypeOK, List, None, context, files, history
    <2>2. CASE StartRemoving(r)
      BY <2>2 DEF TypeOK, StartRemoving, context, files, history
    <2>3. ASSUME NEW n \in Names, ReadFile(r, n) PROVE TypeOK'
      <3>1. dir[n] \in 0..MaxWrites
        BY DEF TypeOK
      <3> QED
        BY <2>3, <3>1 DEF TypeOK, ReadFile, context, files, history
    <2>4. ASSUME NEW n \in Names, FileGone(r, n) PROVE TypeOK'
      BY <2>4 DEF TypeOK, FileGone, Thrown, context, files, collect, history
    <2>5. ASSUME NEW n \in Names, RemoveFile(r, n) PROVE TypeOK'
      BY <2>5 DEF TypeOK, RemoveFile, context, history
    <2>6. CASE Finish(r)
      <3>1. env' \in [Names -> 0..MaxWrites]
        BY <2>6 DEF TypeOK, Finish, Merge
      <3>2. CASE buildPhase = NoPhase
        BY <2>6, <3>1, <3>2 DEF TypeOK, Finish, Thrown, context, collect, history
      <3>3. CASE buildPhase # NoPhase
        <4>1. End(buildPhase, result[r]) \in Marker
          BY <3>3 DEF TypeOK, End, Marker
        <4>2. marks' = Append(marks, End(buildPhase, result[r]))
          BY <2>6, <3>3 DEF Finish, EndPhase
        <4>3. marks' \in Seq(Marker)
          BY <4>1, <4>2 DEF TypeOK
        <4> QED
          BY <2>6, <3>1, <3>3, <4>3 DEF TypeOK, Finish, EndPhase, collect, history
      <3> QED
        BY <3>2, <3>3
    <2> QED
      BY <1>9, <2>1, <2>2, <2>3, <2>4, <2>5, <2>6 DEF CollectEnv
  <1>10. CASE UNCHANGED vars
    BY <1>10 DEF TypeOK, vars, context, files, collect, history
  <1> QED
    BY <1>1, <1>2, <1>3, <1>4, <1>5, <1>6, <1>7, <1>8, <1>9, <1>10 DEF Next, Body, Terminated

\* The fields of runBuildPhase keep their types in every behaviour.
THEOREM TypeCorrect == Spec => []TypeOK
  BY InitTypes, StepTypes, PTL DEF Spec

-----------------------------------------------------------------------------
\* A sequence of markers that is bracketed.
Bracketed(s) ==
  /\ s # <<>> => Opens(s[1])
  /\ \A i \in 1..(Len(s) - 1) : Follows(s[i], s[i + 1])

\* One marker more keeps the bracketing when it fits the last one.
LEMMA OneMore ==
  ASSUME NEW s \in Seq(Marker), NEW m \in Marker, Bracketed(s),
         s = <<>> => Opens(m),
         s # <<>> => Follows(s[Len(s)], m),
         NEW t, t = Append(s, m)
  PROVE  /\ t \in Seq(Marker) /\ t # <<>> /\ t[Len(t)] = m
         /\ Bracketed(t)
  <1>1. Len(t) = Len(s) + 1 /\ t[Len(t)] = m /\ t # <<>> /\ t \in Seq(Marker)
    OBVIOUS
  <1>2. \A i \in 1..Len(s) : t[i] = s[i]
    OBVIOUS
  <1>3. Opens(t[1])
    <2>1. CASE s = <<>>
      BY <1>1, <2>1
    <2>2. CASE s # <<>>
      <3>1. t[1] = s[1]
        BY <1>2, <2>2
      <3> QED
        BY <2>2, <3>1 DEF Bracketed
    <2> QED
      BY <2>1, <2>2
  <1>4. ASSUME NEW i \in 1..(Len(t) - 1) PROVE Follows(t[i], t[i + 1])
    <2>1. CASE i = Len(s)
      <3>1. s # <<>> /\ t[i] = s[Len(s)] /\ t[i + 1] = m
        BY <1>1, <1>2, <2>1
      <3> QED
        BY <3>1
    <2>2. CASE i # Len(s)
      <3>1. i \in 1..(Len(s) - 1)
        BY <1>1, <2>2
      <3>2. t[i] = s[i] /\ t[i + 1] = s[i + 1]
        BY <1>2, <3>1
      <3> QED
        BY <3>1, <3>2 DEF Bracketed
    <2> QED
      BY <2>1, <2>2
  <1> QED
    BY <1>1, <1>3, <1>4 DEF Bracketed

\* The END_PHASE of the open phase fits the markers so far.
LEMMA EndFits ==
  ASSUME Inv, NEW x \in Results, buildPhase # NoPhase,
         NEW t, t = Append(marks, End(buildPhase, x))
  PROVE  /\ t \in Seq(Marker) /\ t # <<>> /\ t[Len(t)].kind = "END"
         /\ Bracketed(t)
  <1> DEFINE e == End(buildPhase, x)
  <1>1. e \in Marker /\ e.kind = "END" /\ e.phase = buildPhase
    BY DEF Inv, TypeOK, End, Marker
  <1>2. marks \in Seq(Marker) /\ Bracketed(marks)
    BY DEF Inv, TypeOK, MarkersBracket, Bracketed
  <1>3. marks = <<>> => Opens(e)
    BY <1>1 DEF Inv, Open, Opens
  <1>4. marks # <<>> => Follows(marks[Len(marks)], e)
    BY <1>1 DEF Inv, Open, Follows, Opens
  <1>5. t = Append(marks, e)
    OBVIOUS
  <1> HIDE DEF e
  <1> QED
    BY <1>1, <1>2, <1>3, <1>4, <1>5, OneMore

\* Starting a phase keeps the bracketing (setBuildPhase).
LEMMA StartBrackets ==
  ASSUME Inv, NEW p \in Phases, SetBuildPhase(p)
  PROVE  Open' /\ MarkersBracket'
  <1> USE PhasesAssumption
  <1> DEFINE s == IF buildPhase = NoPhase THEN marks
                  ELSE Append(marks, End(buildPhase, "UNKNOWN"))
             b == Start(p)
  <1>1. b \in Marker /\ b.kind = "START" /\ b.phase = p
    BY DEF Start, Marker
  <1>2. marks \in Seq(Marker) /\ p # NoPhase /\ buildPhase' = p
    BY DEF Inv, TypeOK, SetBuildPhase
  <1>3. CASE buildPhase = p
    BY <1>2, <1>3 DEF Inv, Open, MarkersBracket, SetBuildPhase
  <1>4. CASE buildPhase # p
    <2>1. s \in Seq(Marker) /\ Bracketed(s) /\ (s # <<>> => s[Len(s)].kind = "END")
      <3>1. CASE buildPhase = NoPhase
        BY <1>2, <3>1 DEF Inv, Open, MarkersBracket, Bracketed
      <3>2. CASE buildPhase # NoPhase
        <4>1. s = Append(marks, End(buildPhase, "UNKNOWN")) /\ "UNKNOWN" \in Results
          BY <3>2 DEF Results
        <4> HIDE DEF s
        <4> QED
          BY <3>2, <4>1, EndFits
      <3> QED
        BY <3>1, <3>2
    <2>2. marks' = s \o MarkStart(p)
      BY <1>4 DEF SetBuildPhase
    <2> HIDE DEF s
    <2>3. CASE p \in Unmarked
      <3>1. marks' = s
        BY <2>1, <2>2, <2>3 DEF MarkStart
      <3> QED
        BY <1>2, <2>1, <2>3, <3>1 DEF Open, MarkersBracket, Bracketed
    <2>4. CASE p \notin Unmarked
      <3>1. marks' = Append(s, b)
        BY <1>1, <2>1, <2>2, <2>4 DEF MarkStart
      <3>2. Opens(b) /\ (s # <<>> => Follows(s[Len(s)], b))
        BY <1>1, <2>1 DEF Opens, Follows
      <3> HIDE DEF b
      <3>3. marks' # <<>> /\ marks'[Len(marks')] = b /\ Bracketed(marks')
        BY <1>1, <2>1, <3>1, <3>2, OneMore
      <3> QED
        BY <1>1, <1>2, <2>4, <3>3 DEF Open, MarkersBracket, Bracketed
    <2> QED
      BY <2>3, <2>4
  <1> QED
    BY <1>3, <1>4

\* Ending the open phase keeps the bracketing (endCurrentBuildPhaseAsync).
LEMMA EndBrackets ==
  ASSUME Inv, NEW x \in Results, buildPhase # NoPhase, EndPhase(x)
  PROVE  Open' /\ MarkersBracket'
  <1>1. marks' = Append(marks, End(buildPhase, x)) /\ buildPhase' = NoPhase
    BY DEF EndPhase
  <1>2. marks' # <<>> /\ marks'[Len(marks')].kind = "END" /\ Bracketed(marks')
    BY <1>1, EndFits
  <1> QED
    BY <1>1, <1>2 DEF Open, MarkersBracket, Bracketed

\* The invariant holds initially.
LEMMA InitInv == Init => Inv
  BY InitTypes DEF Init, Inv, Open, MarkersBracket

\* Only starting and ending a phase touch the markers and the open phase.
LEMMA StepInv == Inv /\ [Next]_vars => Inv'
  <1> SUFFICES ASSUME Inv, [Next]_vars PROVE Open' /\ MarkersBracket'
    BY StepTypes DEF Inv
  <1>1. ASSUME UNCHANGED <<buildPhase, marks>> PROVE Open' /\ MarkersBracket'
    BY <1>1 DEF Inv, Open, MarkersBracket
  <1>2. ASSUME NEW r \in Runners, Enter(r) PROVE Open' /\ MarkersBracket'
    <2>1. PICK k \in (at[r] + 1)..Len(Plan[r]) : SetBuildPhase(Plan[r][k])
      BY <1>2 DEF Enter
    <2>2. Plan[r] \in Seq(Phases) /\ at[r] \in Nat
      BY PhasesAssumption DEF Inv, TypeOK
    <2>3. k \in 1..Len(Plan[r])
      BY <2>1, <2>2
    <2> QED
      BY <2>1, <2>2, <2>3, StartBrackets
  <1>3. ASSUME NEW r \in Runners, Finish(r) PROVE Open' /\ MarkersBracket'
    <2>1. CASE buildPhase = NoPhase
      BY <1>1, <1>3, <2>1 DEF Finish, context
    <2>2. CASE buildPhase # NoPhase
      <3>1. result[r] \in Results
        BY DEF Inv, TypeOK
      <3> QED
        BY <1>3, <2>2, <3>1, EndBrackets DEF Finish
    <2> QED
      BY <2>1, <2>2
  <1>4. ASSUME NEW r \in Runners, Leave(r) \/ Body(r) \/ HandleError(r)
        PROVE  UNCHANGED <<buildPhase, marks>>
    BY <1>4 DEF Leave, Body, MarkSkipped, MarkHasWarnings, SetEnv, BodyReturns, BodyThrows,
                HandleError, context
  <1>5. ASSUME NEW r \in Runners, CollectEnv(r), ~Finish(r)
        PROVE  UNCHANGED <<buildPhase, marks>>
    BY <1>5 DEF CollectEnv, List, StartRemoving, ReadFile, FileGone, RemoveFile, context
  <1>6. CASE UNCHANGED vars
    BY <1>1, <1>6 DEF vars, context
  <1> QED
    BY <1>1, <1>2, <1>3, <1>4, <1>5, <1>6 DEF Next, Terminated

-----------------------------------------------------------------------------
(* No phase is left open.                                                   *)

\* r will end the phase that is open: all that can stop it on its way is a file
\* of its list that is gone.
WillEnd(r) ==
  \/ pc[r] \in {"body", "handling", "list", "remove"}
  \/ pc[r] = "read" /\ \A n \in todo[r] : dir[n] # 0

\* Whenever a phase is open some runner will end it: who removes a file from
\* under another runner ends the phase in its stead.
SomeoneEnds == buildPhase = NoPhase \/ \E r \in Runners : WillEnd(r)

LEMMA StepEnds ==
  ASSUME TypeOK, SomeoneEnds, [Next]_vars
  PROVE  SomeoneEnds'
  <1>1. SUFFICES ASSUME buildPhase' # NoPhase
                 PROVE  \E r \in Runners : WillEnd(r)'
    BY DEF SomeoneEnds
  <1>2. ASSUME NEW r \in Runners, Enter(r) PROVE WillEnd(r)'
    BY <1>2 DEF Enter, WillEnd, TypeOK
  <1>3. ASSUME NEW r \in Runners, Finish(r) PROVE FALSE
    BY <1>1, <1>3 DEF Finish, EndPhase, context
  <1>4. ASSUME NEW r \in Runners, NEW n \in Names, RemoveFile(r, n) PROVE WillEnd(r)'
    BY <1>4 DEF RemoveFile, WillEnd
  <1>5. ASSUME NEW q \in Runners, WillEnd(q), NEW r \in Runners,
               \/ Leave(r) \/ Body(r) \/ HandleError(r) \/ List(r) \/ StartRemoving(r)
               \/ \E n \in Names : ReadFile(r, n) \/ FileGone(r, n),
               buildPhase' = buildPhase, buildPhase # NoPhase
        PROVE  WillEnd(q)'
    <2>1. CASE q # r
      <3>1. pc'[q] = pc[q] /\ todo'[q] = todo[q]
        BY <1>5, <2>1 DEF Leave, Body, MarkSkipped, MarkHasWarnings, SetEnv, BodyReturns,
             BodyThrows, HandleError, Close, Thrown, List, StartRemoving, ReadFile, FileGone,
             collect, TypeOK
      <3>2. ASSUME NEW n \in Names, dir[n] # 0 PROVE dir'[n] # 0
        BY <1>5, <3>2 DEF Leave, Body, MarkSkipped, MarkHasWarnings, SetEnv, BodyReturns,
             BodyThrows, HandleError, List, StartRemoving, ReadFile, FileGone, files, TypeOK
      <3>3. todo[q] \subseteq Names
        BY DEF TypeOK
      <3> QED
        BY <1>5, <3>1, <3>2, <3>3 DEF WillEnd
    <2>2. CASE q = r
      <3>1. CASE Leave(r)
        BY <1>5, <2>2, <3>1 DEF Leave, WillEnd
      <3>2. CASE Body(r)
        BY <1>5, <3>2, <2>2 DEF Body, MarkSkipped, MarkHasWarnings, SetEnv, BodyReturns,
             BodyThrows, Close, WillEnd, TypeOK
      <3>3. CASE HandleError(r)
        BY <1>5, <3>3, <2>2 DEF HandleError, Close, WillEnd, TypeOK
      <3>4. CASE List(r)
        BY <3>4, <2>2 DEF List, files, WillEnd, TypeOK
      <3>5. CASE StartRemoving(r)
        BY <3>5, <2>2 DEF StartRemoving, WillEnd, TypeOK
      <3>6. ASSUME NEW n \in Names, ReadFile(r, n) PROVE WillEnd(r)'
        BY <1>5, <3>6, <2>2 DEF ReadFile, files, WillEnd, TypeOK
      <3>7. ASSUME NEW n \in Names, FileGone(r, n) PROVE FALSE
        BY <1>5, <3>7, <2>2 DEF FileGone, WillEnd
      <3> QED
        BY <1>5, <2>2, <3>1, <3>2, <3>3, <3>4, <3>5, <3>6, <3>7
    <2> QED
      BY <2>1, <2>2
  <1>6. CASE UNCHANGED vars
    BY <1>1, <1>6 DEF SomeoneEnds, WillEnd, vars, context, files, collect
  <1>7. ASSUME NEW r \in Runners,
               \/ Leave(r) \/ Body(r) \/ HandleError(r) \/ List(r) \/ StartRemoving(r)
               \/ \E n \in Names : ReadFile(r, n) \/ FileGone(r, n)
        PROVE  \E q \in Runners : WillEnd(q)'
    <2>1. buildPhase' = buildPhase
      BY <1>7 DEF Leave, Body, MarkSkipped, MarkHasWarnings, SetEnv, BodyReturns, BodyThrows,
           HandleError, List, StartRemoving, ReadFile, FileGone, context
    <2>2. PICK q \in Runners : WillEnd(q)
      BY <1>1, <2>1 DEF SomeoneEnds
    <2> QED
      BY <1>1, <1>5, <1>7, <2>1, <2>2
  <1> QED
    BY <1>2, <1>3, <1>4, <1>6, <1>7 DEF Next, Terminated, CollectEnv

\* For every number of concurrent runners the log shows each phase started
\* and then ended before the next start, and no phase is left open in the end.
THEOREM LogIsWellFormed == Spec => []LogWellFormed
  <1>1. Init => SomeoneEnds
    BY DEF Init, SomeoneEnds
  <1>2. Inv /\ SomeoneEnds /\ [Next]_vars => SomeoneEnds'
    BY StepEnds DEF Inv
  <1>3. Inv /\ SomeoneEnds => LogWellFormed
    BY DEF Inv, SomeoneEnds, WillEnd, LogWellFormed, LogClosed, Terminated
  <1> QED
    BY <1>1, <1>2, <1>3, InitInv, StepInv, PTL DEF Spec

-----------------------------------------------------------------------------
(* What a phase hands over, as long as no other runner has begun.           *)

\* What r stored under n is in the file, or was merged, unless it was stored over.
Held(r, n) == stored[r][n] <= (IF dir[n] # 0 THEN dir[n] ELSE env[n])

\* A runner that is alone finds nothing of its earlier phases but their variables,
\* and its phase is the one that is open.
Own(r) ==
  /\ pc[r] \in {"idle", "over"} =>
       /\ buildPhase = NoPhase /\ ~skipped /\ ~warned
       /\ Reached(r) /\ \A n \in Names : dir[n] = 0
  /\ pc[r] \notin {"idle", "over"} => buildPhase = Plan[r][at[r]] /\ buildPhase # NoPhase
  /\ pc[r] = "body" =>
       /\ skipped <=> "skip" \in did[r]
       /\ warned <=> "warn" \in did[r]
       /\ "throw" \notin did[r]
  /\ pc[r] = "handling" => "throw" \in did[r]
  /\ pc[r] \in {"list", "read", "remove"} => result[r] = Deserved(r)
  /\ pc[r] \in {"body", "handling", "list"} => \A n \in Names : Held(r, n)
  /\ pc[r] = "read" => \A n \in Names :
       /\ got[r][n] # 0 => stored[r][n] <= got[r][n] /\ n \notin todo[r]
       /\ got[r][n] = 0 => Held(r, n) /\ (n \in todo[r] <=> dir[n] # 0)
  /\ pc[r] = "remove" => \A n \in Names :
       /\ got[r][n] # 0 => stored[r][n] <= got[r][n] /\ (dir[n] = 0 \/ n \in todo[r])
       /\ got[r][n] = 0 => stored[r][n] <= env[n] /\ dir[n] = 0

OwnInv ==
  /\ \A q \in Runners : at[q] = 0 => pc[q] \in {"idle", "over"}
  /\ \A r \in Runners : Alone(r) => Own(r)

LEMMA InitOwn == Init => OwnInv
  BY DEF Init, OwnInv, Own, Reached, None

\* A runner that has not begun does nothing but begin, or be over.
LEMMA OthersRest ==
  ASSUME TypeOK, OwnInv, [Next]_vars, NEW r \in Runners, Alone(r)'
  PROVE  /\ Alone(r)
         /\ \/ UNCHANGED <<context, files, history, pc[r], at[r], result[r], failed[r], todo[r], got[r]>>
            \/ Enter(r) \/ Leave(r) \/ Body(r) \/ HandleError(r) \/ CollectEnv(r)
  <1>1. ASSUME NEW q \in Runners,
               Enter(q) \/ Leave(q) \/ Body(q) \/ HandleError(q) \/ CollectEnv(q)
        PROVE  /\ at' = at \/ Enter(q)
               /\ at'[q] = 0 => at[q] = 0
               /\ \A p \in Runners \ {q} : at'[p] = at[p]
    <2>1. CASE Enter(q)
      <3>1. PICK k \in (at[q] + 1)..Len(Plan[q]) : at' = [at EXCEPT ![q] = k]
        BY <2>1 DEF Enter
      <3>2. at \in [Runners -> Nat] /\ k # 0
        BY <3>1 DEF TypeOK
      <3> QED BY <2>1, <3>1, <3>2
    <2>2. CASE ~Enter(q)
      BY <1>1, <2>2 DEF Leave, Body, MarkSkipped, MarkHasWarnings, SetEnv, BodyReturns, BodyThrows,
         HandleError, CollectEnv, List, StartRemoving, Finish, ReadFile, FileGone, RemoveFile
    <2> QED BY <2>1, <2>2
  <1>2. Alone(r)
    <2>1. ASSUME NEW p \in Runners, at'[p] = 0 PROVE at[p] = 0
      BY <1>1, <2>1 DEF Next, Terminated, vars
    <2> QED BY <2>1 DEF Alone
  <1>3. ASSUME NEW q \in Runners, q # r,
               Enter(q) \/ Leave(q) \/ Body(q) \/ HandleError(q) \/ CollectEnv(q)
        PROVE  UNCHANGED <<context, files, history, pc[r], at[r], result[r], failed[r], todo[r], got[r]>>
    <2>1. at[q] = 0 /\ at'[q] = 0
      BY <1>2, <1>3 DEF Alone
    <2>2. pc[q] \in {"idle", "over"}
      BY <2>1 DEF OwnInv
    <2>3. ~Enter(q)
      <3> SUFFICES ASSUME Enter(q) PROVE FALSE OBVIOUS
      <3>1. PICK k \in (at[q] + 1)..Len(Plan[q]) : at' = [at EXCEPT ![q] = k]
        BY DEF Enter
      <3>2. at \in [Runners -> Nat] /\ k # 0
        BY <3>1 DEF TypeOK
      <3> QED BY <2>1, <3>1, <3>2
    <2>4. Leave(q)
      BY <1>3, <2>2, <2>3 DEF Body, MarkSkipped, MarkHasWarnings, SetEnv, BodyReturns, BodyThrows,
         HandleError, CollectEnv, List, StartRemoving, Finish, ReadFile, FileGone, RemoveFile
    <2> QED BY <1>3, <2>4 DEF Leave, collect, TypeOK
  <1> QED BY <1>2, <1>3 DEF Next, Terminated, vars, collect

\* A step that changes nothing of r keeps what it has.
LEMMA RestKeeps ==
  ASSUME NEW r \in Runners, Own(r),
         UNCHANGED <<context, files, history, pc[r], at[r], result[r], failed[r], todo[r], got[r]>>
  PROVE  Own(r)'
  <1>1. Reached(r)' <=> Reached(r)
    BY DEF Reached, history, files
  <1>2. Deserved(r)' = Deserved(r)
    BY DEF Deserved, history
  <1>3. \A n \in Names : Held(r, n)' <=> Held(r, n)
    BY DEF Held, history, files
  <1>4. UNCHANGED <<buildPhase, skipped, warned, env, dir, stored, did>>
    BY DEF context, files, history
  <1> QED BY <1>1, <1>2, <1>3, <1>4 DEF Own

LEMMA EnterOwns ==
  ASSUME TypeOK, NEW r \in Runners, Own(r), Enter(r)
  PROVE  Own(r)'
  <1>1. PICK k \in (at[r] + 1)..Len(Plan[r]) :
          at' = [at EXCEPT ![r] = k] /\ SetBuildPhase(Plan[r][k])
    BY DEF Enter
  <1>2. k \in 1..Len(Plan[r]) /\ Plan[r] \in Seq(Phases)
    <2>1. at[r] \in Nat /\ Plan[r] \in Seq(Phases) BY PhasesAssumption DEF TypeOK
    <2> QED BY <1>1, <2>1
  <1>3. Plan[r][k] \in Phases /\ Plan[r][k] # NoPhase
    BY <1>2, PhasesAssumption
  <1>4. /\ pc'[r] = "body" /\ did'[r] = {} /\ at'[r] = k /\ buildPhase' = Plan[r][k]
        /\ UNCHANGED <<skipped, warned, env, dir, stored>>
    BY <1>1 DEF Enter, SetBuildPhase, files, TypeOK
  <1>5. ~skipped /\ ~warned /\ Reached(r) /\ \A n \in Names : dir[n] = 0
    BY DEF Own, Enter
  <1>6. \A n \in Names : Held(r, n)'
    BY <1>4, <1>5 DEF Held, Reached
  <1> QED BY <1>3, <1>4, <1>5, <1>6 DEF Own

LEMMA BodyOwns ==
  ASSUME TypeOK, NEW r \in Runners, Own(r), Body(r) \/ HandleError(r)
  PROVE  Own(r)'
  <1>1. CASE MarkSkipped(r) \/ MarkHasWarnings(r)
    <2>1. /\ pc[r] = "body" /\ UNCHANGED <<buildPhase, env, dir, pc, at, stored>>
      BY <1>1 DEF MarkSkipped, MarkHasWarnings, files
    <2>2. /\ (skipped' <=> "skip" \in did'[r]) /\ (warned' <=> "warn" \in did'[r])
          /\ "throw" \notin did'[r]
      BY <1>1, <2>1 DEF MarkSkipped, MarkHasWarnings, Own, TypeOK
    <2>3. \A n \in Names : Held(r, n)'
      BY <2>1 DEF Own, Held
    <2> QED BY <2>1, <2>2, <2>3 DEF Own
  <1>2. ASSUME NEW m \in Names, SetEnv(r, m) PROVE Own(r)'
    <2>1. /\ pc[r] = "body" /\ UNCHANGED <<buildPhase, skipped, warned, env, pc, at, did>>
          /\ writes' = writes + 1 /\ writes \in Nat
      BY <1>2, PhasesAssumption DEF SetEnv, context, TypeOK
    <2>2. ASSUME NEW n \in Names PROVE Held(r, n)'
      <3>1. CASE n = m
        <4>1. dir'[n] = writes' /\ stored'[r][n] = writes'
          BY <1>2, <3>1 DEF SetEnv, TypeOK
        <4> QED BY <2>1, <4>1 DEF Held
      <3>2. CASE n # m
        <4>1. dir'[n] = dir[n] /\ stored'[r][n] = stored[r][n]
          BY <1>2, <3>2 DEF SetEnv, TypeOK
        <4> QED BY <2>1, <4>1 DEF Held, Own
      <3> QED BY <3>1, <3>2
    <2> QED BY <2>1, <2>2 DEF Own
  <1>3. CASE BodyReturns(r)
    <2>1. /\ pc[r] = "body" /\ pc'[r] = "list" /\ result'[r] = Resolve
          /\ UNCHANGED <<buildPhase, env, dir, at, stored, did>>
      BY <1>3 DEF BodyReturns, Close, context, files, history, Own, TypeOK
    <2>2. Deserved(r)' = Resolve
      BY <2>1 DEF Deserved, Resolve, Own
    <2>3. \A n \in Names : Held(r, n)'
      BY <2>1 DEF Own, Held
    <2> QED BY <2>1, <2>2, <2>3 DEF Own
  <1>4. CASE BodyThrows(r)
    <2>1. /\ pc[r] = "body" /\ pc'[r] = "handling" /\ "throw" \in did'[r]
          /\ UNCHANGED <<buildPhase, env, dir, at, stored>>
      BY <1>4 DEF BodyThrows, context, files, TypeOK
    <2>2. \A n \in Names : Held(r, n)'
      BY <2>1 DEF Own, Held
    <2> QED BY <2>1, <2>2 DEF Own
  <1>5. CASE HandleError(r)
    <2>1. /\ pc[r] = "handling" /\ pc'[r] = "list" /\ result'[r] = "FAIL"
          /\ UNCHANGED <<buildPhase, env, dir, at, stored, did>>
      BY <1>5 DEF HandleError, Close, context, files, history, Own, TypeOK
    <2>2. Deserved(r)' = "FAIL"
      BY <2>1 DEF Deserved, Own
    <2>3. \A n \in Names : Held(r, n)'
      BY <2>1 DEF Own, Held
    <2> QED BY <2>1, <2>2, <2>3 DEF Own
  <1> QED BY <1>1, <1>2, <1>3, <1>4, <1>5 DEF Body

LEMMA CollectOwns ==
  ASSUME TypeOK, NEW r \in Runners, Own(r), CollectEnv(r)
  PROVE  Own(r)'
  <1>1. CASE List(r)
    <2>1. /\ pc[r] = "list" /\ pc'[r] = "read" /\ got'[r] = None
          /\ todo'[r] = {n \in Names : dir[n] # 0}
          /\ UNCHANGED <<buildPhase, env, dir, at, result, stored, did>>
      BY <1>1 DEF List, context, files, history, TypeOK
    <2>2. Deserved(r)' = Deserved(r) BY <2>1 DEF Deserved
    <2>3. \A n \in Names : Held(r, n)' BY <2>1 DEF Own, Held
    <2> QED BY <2>1, <2>2, <2>3 DEF Own, None
  <1>2. ASSUME NEW m \in Names, ReadFile(r, m) PROVE Own(r)'
    <2>1. /\ pc[r] = "read" /\ m \in todo[r] /\ dir[m] # 0
          /\ todo'[r] = todo[r] \ {m} /\ got'[r] = [got[r] EXCEPT ![m] = dir[m]]
          /\ UNCHANGED <<buildPhase, env, dir, pc, at, result, stored, did>>
      BY <1>2 DEF ReadFile, context, files, history, TypeOK
    <2>2. Deserved(r)' = Deserved(r) BY <2>1 DEF Deserved
    <2>3. ASSUME NEW n \in Names
          PROVE  /\ got'[r][n] # 0 => stored'[r][n] <= got'[r][n] /\ n \notin todo'[r]
                 /\ got'[r][n] = 0 => Held(r, n)' /\ (n \in todo'[r] <=> dir'[n] # 0)
      <3>1. /\ got[r][n] # 0 => stored[r][n] <= got[r][n] /\ n \notin todo[r]
            /\ got[r][n] = 0 => Held(r, n) /\ (n \in todo[r] <=> dir[n] # 0)
        BY <2>1 DEF Own
      <3>2. CASE n = m
        <4>1. got'[r][n] = dir[n] /\ got[r][n] = 0 /\ n \notin todo'[r]
          BY <2>1, <3>1, <3>2 DEF TypeOK
        <4> QED BY <2>1, <3>1, <3>2, <4>1 DEF Held
      <3>3. CASE n # m
        <4>1. got'[r][n] = got[r][n] /\ (n \in todo'[r] <=> n \in todo[r])
          BY <2>1, <3>3 DEF TypeOK
        <4> QED BY <2>1, <3>1, <4>1 DEF Held
      <3> QED BY <3>2, <3>3
    <2> QED BY <2>1, <2>2, <2>3 DEF Own
  <1>3. ASSUME NEW m \in Names, FileGone(r, m) PROVE FALSE
    BY <1>3 DEF FileGone, Own
  <1>4. CASE StartRemoving(r)
    <2>1. /\ pc[r] = "read" /\ pc'[r] = "remove" /\ todo[r] = {}
          /\ todo'[r] = {n \in Names : got[r][n] # 0}
          /\ UNCHANGED <<buildPhase, env, dir, at, result, got, stored, did>>
      BY <1>4 DEF StartRemoving, context, files, history, TypeOK
    <2>2. Deserved(r)' = Deserved(r) BY <2>1 DEF Deserved
    <2>3. ASSUME NEW n \in Names
          PROVE  /\ got[r][n] # 0 => stored[r][n] <= got[r][n] /\ n \in todo'[r]
                 /\ got[r][n] = 0 => stored[r][n] <= env[n] /\ dir[n] = 0
      BY <2>1 DEF Own, Held
    <2> QED BY <2>1, <2>2, <2>3 DEF Own
  <1>5. ASSUME NEW m \in Names, RemoveFile(r, m) PROVE Own(r)'
    <2>1. /\ pc[r] = "remove" /\ todo'[r] = todo[r] \ {m} /\ dir' = [dir EXCEPT ![m] = 0]
          /\ UNCHANGED <<buildPhase, env, pc, at, result, got, stored, did>>
      BY <1>5 DEF RemoveFile, context, history, TypeOK
    <2>2. Deserved(r)' = Deserved(r) BY <2>1 DEF Deserved
    <2>3. \A n \in Names : /\ n = m => dir'[n] = 0
                           /\ n # m => dir'[n] = dir[n] /\ (n \in todo'[r] <=> n \in todo[r])
      BY <2>1 DEF TypeOK
    <2> QED BY <2>1, <2>2, <2>3 DEF Own
  <1>6. CASE Finish(r)
    <2>1. /\ pc[r] = "remove" /\ todo[r] = {} /\ buildPhase # NoPhase
      BY <1>6 DEF Finish, Own
    <2>2. /\ buildPhase' = NoPhase /\ ~skipped' /\ ~warned' /\ pc'[r] = "idle"
          /\ UNCHANGED <<dir, stored>>
          /\ env' = [n \in Names |-> IF got[r][n] # 0 THEN got[r][n] ELSE env[n]]
      BY <1>6, <2>1 DEF Finish, EndPhase, Merge, history, TypeOK
    <2>3. \A n \in Names : dir'[n] = 0 /\ stored'[r][n] <= env'[n]
      BY <2>1, <2>2 DEF Own
    <2> QED BY <2>2, <2>3 DEF Own, Reached
  <1> QED BY <1>1, <1>2, <1>3, <1>4, <1>5, <1>6 DEF CollectEnv

LEMMA StepOwn == TypeOK /\ OwnInv /\ [Next]_vars => OwnInv'
  <1> SUFFICES ASSUME TypeOK, OwnInv, [Next]_vars PROVE OwnInv'
    OBVIOUS
  <1>1. ASSUME NEW r \in Runners, Alone(r)' PROVE Own(r)'
    <2>1. Own(r) BY <1>1, OthersRest DEF OwnInv
    <2>2. CASE Leave(r)
      <3>1. pc[r] = "idle" /\ pc'[r] = "over" /\ UNCHANGED <<context, files, history>>
        BY <2>2 DEF Leave, TypeOK
      <3>2. Reached(r)' <=> Reached(r) BY <3>1 DEF Reached, history, files
      <3> QED BY <2>1, <3>1, <3>2 DEF Own, context, files
    <2> QED BY <1>1, <2>1, <2>2, OthersRest, RestKeeps, EnterOwns, BodyOwns, CollectOwns
  <1>2. ASSUME NEW q \in Runners, at'[q] = 0 PROVE pc'[q] \in {"idle", "over"}
    <2>1. CASE UNCHANGED vars BY <1>2, <2>1 DEF OwnInv, vars
    <2>2. ASSUME NEW r \in Runners,
                 Enter(r) \/ Leave(r) \/ Body(r) \/ HandleError(r) \/ CollectEnv(r)
          PROVE  pc'[q] \in {"idle", "over"}
      <3>1. CASE q # r
        <4>1. pc'[q] = pc[q] /\ at'[q] = at[q]
          BY <2>2, <3>1 DEF Enter, Leave, Body, MarkSkipped, MarkHasWarnings, SetEnv, BodyReturns,
             BodyThrows, HandleError, Close, Thrown, CollectEnv, List, StartRemoving, Finish, ReadFile,
             FileGone, RemoveFile, TypeOK
        <4> QED BY <1>2, <4>1 DEF OwnInv
      <3>2. CASE q = r
        <4>1. ~Enter(r)
          <5> SUFFICES ASSUME Enter(r) PROVE FALSE OBVIOUS
          <5>1. PICK k \in (at[r] + 1)..Len(Plan[r]) : at' = [at EXCEPT ![r] = k] BY DEF Enter
          <5>2. at \in [Runners -> Nat] /\ k # 0 BY <5>1 DEF TypeOK
          <5> QED BY <1>2, <3>2, <5>1, <5>2
        <4>2. at'[q] = at[q]
          BY <2>2, <4>1 DEF Leave, Body, MarkSkipped, MarkHasWarnings, SetEnv, BodyReturns,
             BodyThrows, HandleError, CollectEnv, List, StartRemoving, Finish, ReadFile,
             FileGone, RemoveFile
        <4>3. pc[q] \in {"idle", "over"} BY <1>2, <4>2 DEF OwnInv
        <4>4. Leave(r)
          BY <2>2, <3>2, <4>1, <4>3 DEF Body, MarkSkipped, MarkHasWarnings, SetEnv, BodyReturns,
             BodyThrows, HandleError, CollectEnv, List, StartRemoving, Finish, ReadFile,
             FileGone, RemoveFile
        <4> QED BY <3>2, <4>4 DEF Leave, TypeOK
      <3> QED BY <3>1, <3>2
    <2> QED BY <2>1, <2>2 DEF Next, Terminated
  <1> QED BY <1>1, <1>2 DEF OwnInv

\* As long as the on-cancel hook has not begun, every phase of every builder ends
\* with the result its own body earned, and starts with all the variables stored in
\* the phases before it (runBuildPhase, collectAndUpdateEnvVariablesAsync).
THEOREM PhasesHandOverCleanly == Spec => PhasesHandOver
  <1>1. ASSUME TypeOK, OwnInv, [Next]_vars
        PROVE  [\A r \in Runners : Alone(r) => OwnResult(r) /\ EnvReaches(r)]_vars
    <2> SUFFICES ASSUME NEW r \in Runners, Alone(r), vars' # vars
                 PROVE  OwnResult(r) /\ EnvReaches(r)
      BY DEF OwnResult, EnvReaches
    <2>1. Own(r) BY <1>1 DEF OwnInv
    <2>2. ASSUME NEW q \in Runners, q # r,
                 Enter(q) \/ Leave(q) \/ Body(q) \/ HandleError(q) \/ CollectEnv(q)
          PROVE  pc'[r] = pc[r] /\ at'[r] = at[r]
      BY <1>1, <2>2 DEF Enter, Leave, Body, MarkSkipped, MarkHasWarnings, SetEnv, BodyReturns,
         BodyThrows, HandleError, Close, Thrown, CollectEnv, List, StartRemoving, Finish, ReadFile,
         FileGone, RemoveFile, TypeOK
    <2>3. OwnResult(r)
      <3> SUFFICES ASSUME pc[r] = "remove", pc'[r] = "idle", marks' # marks
                   PROVE  marks'[Len(marks')] = End(Plan[r][at[r]], Deserved(r))
        BY DEF OwnResult
      <3>1. Finish(r)
        <4>1. PICK q \in Runners : Enter(q) \/ Leave(q) \/ Body(q) \/ HandleError(q) \/ CollectEnv(q)
          BY <1>1 DEF Next, Terminated
        <4>2. q = r
          BY <2>2, <4>1
        <4>3. CASE Enter(r) \/ Leave(r) \/ Body(r) \/ HandleError(r)
          BY <4>3 DEF Enter, Leave, Body, MarkSkipped, MarkHasWarnings, SetEnv, BodyReturns,
             BodyThrows, HandleError
        <4>4. CASE CollectEnv(r)
          BY <4>4 DEF CollectEnv, List, StartRemoving, ReadFile, FileGone, RemoveFile, context
        <4> QED BY <4>1, <4>2, <4>3, <4>4
      <3>2. marks' = Append(marks, End(buildPhase, result[r])) /\ marks \in Seq(Marker)
        BY <1>1, <3>1 DEF Finish, EndPhase, context, TypeOK
      <3>3. marks'[Len(marks')] = End(buildPhase, result[r])
        <4> DEFINE m == End(buildPhase, result[r])
        <4>1. marks' = Append(marks, m) BY <3>2
        <4> HIDE DEF m
        <4>2. Len(marks') = Len(marks) + 1 /\ Append(marks, m)[Len(marks) + 1] = m
          BY <3>2, <4>1
        <4> QED BY <4>1, <4>2 DEF m
      <3> QED BY <2>1, <3>3 DEF Own
    <2>4. EnvReaches(r)
      <3> SUFFICES ASSUME at'[r] # at[r] PROVE Reached(r)
        BY DEF EnvReaches
      <3>1. Enter(r)
        <4>1. PICK q \in Runners : Enter(q) \/ Leave(q) \/ Body(q) \/ HandleError(q) \/ CollectEnv(q)
          BY <1>1 DEF Next, Terminated
        <4>2. q = r
          BY <2>2, <4>1
        <4>3. CASE Leave(r) \/ Body(r) \/ HandleError(r)
          BY <4>3 DEF Leave, Body, MarkSkipped, MarkHasWarnings, SetEnv, BodyReturns, BodyThrows,
             HandleError
        <4>4. CASE CollectEnv(r)
          BY <4>4 DEF CollectEnv, List, StartRemoving, Finish, ReadFile, FileGone, RemoveFile
        <4> QED BY <4>1, <4>2, <4>3, <4>4
      <3> QED BY <2>1, <3>1 DEF Own, Enter
    <2> QED BY <2>3, <2>4
  <1>2. TypeOK /\ OwnInv /\ [Next]_vars =>
          [\A r \in Runners : Alone(r) => OwnResult(r) /\ EnvReaches(r)]_vars
    BY <1>1
  <1> QED BY <1>2, InitOwn, StepOwn, TypeCorrect, PTL DEF Spec, PhasesHandOver

=============================================================================
