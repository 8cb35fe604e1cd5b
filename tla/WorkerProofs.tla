---------------------------- MODULE WorkerProofs ----------------------------
(***************************************************************************)
(* Type correctness of Worker, and its three safety invariants: the one      *)
(* socket the worker answers on is every live socket it accepted, a build has *)
(* one result told, after its logs, and a connected launcher knows the state. *)
(*                                                                          *)
(* IInv says more than OneLauncherServed because of the late onClose: it      *)
(* clears BuildService.ws when it runs, so it must be known that a queue      *)
(* holds at most one, that its socket is closed, and that the service still   *)
(* holds that socket and no newer one.  BuildAlone ties what is queued and     *)
(* told to the build's result and to its logs; Knows follows the last thing   *)
(* said to the connected launcher through its queue, and needs each ABORT to   *)
(* be in one place, so that no finishAbort begins twice.                      *)
(***************************************************************************)
EXTENDS Worker, FiniteSetTheorems, TLAPS

\* A queue holds the close handler; it holds it once.
HasClose(q) == \E i \in 1..Len(q) : q[i].kind = "onClose"
Once(q) == \A i, j \in 1..Len(q) :
             q[i].kind = "onClose" /\ q[j].kind = "onClose" => i = j

CloseOnce ==
  \A c \in Conns : /\ Once(queue[c])
                   /\ HasClose(queue[c]) => conn[c] = "closed"
Held ==
  ~shouldCloseWorker =>
    \A c \in Conns :
      conn[c] \in {"open", "dead", "closing"} \/ HasClose(queue[c]) => ws = c
OutcomeKnown ==
  \A t \in Tasks : pc[t] \in {"hook", "flush", "cleanUp", "check", "over"}
                     => outcome[t] \in Results

IInv == TypeOK /\ CloseOnce /\ Held /\ OutcomeKnown

-----------------------------------------------------------------------------
(* Queues.                                                                 *)

\* What an entry carries, by its kind.
LEMMA EntryParts ==
  ASSUME NEW e \in Entries
  PROVE  /\ e.kind \in {"receive", "send", "onClose"}
         /\ e.kind = "receive" => e.letter \in Letters
         /\ e.kind = "send" => e.status \in Statuses
<1>1. CASE e \in [kind : {"receive"}, letter : Letters]  BY <1>1
<1>2. CASE e \in [kind : {"send"}, status : Statuses]  BY <1>2
<1>3. CASE e \in [kind : {"onClose"}]  BY <1>3
<1> QED  BY <1>1, <1>2, <1>3 DEF Entries

LEMMA EntryKinds ==
  /\ \A m \in Letters : Receive(m) \in Entries /\ Receive(m).kind # "onClose"
  /\ \A s \in Statuses : Send(s) \in Entries /\ Send(s).kind # "onClose"
  /\ OnClose \in Entries /\ OnClose.kind = "onClose"
BY DEF Entries, Receive, Send, OnClose

\* Appending anything else leaves the close handlers of a queue alone.
LEMMA AppendOther ==
  ASSUME NEW q \in Seq(Entries), NEW e \in Entries, e.kind # "onClose"
  PROVE  /\ Append(q, e) \in Seq(Entries)
         /\ Once(q) => Once(Append(q, e))
         /\ HasClose(Append(q, e)) <=> HasClose(q)
<1> DEFINE r == Append(q, e)
<1>1. /\ r \in Seq(Entries) /\ Len(r) = Len(q) + 1 /\ Len(q) \in Nat
      /\ \A i \in 1..Len(q) : r[i] = q[i]
      /\ r[Len(q) + 1] = e
  OBVIOUS
<1> HIDE DEF r
<1>2. \A i \in 1..Len(r) : r[i].kind = "onClose" => i \in 1..Len(q)
  BY <1>1
<1>3. Once(q) => Once(r)  BY <1>1, <1>2 DEF Once
<1>4. HasClose(r) <=> HasClose(q)  BY <1>1, <1>2 DEF HasClose
<1> QED  BY <1>1, <1>3, <1>4 DEF r

LEMMA AppendClose ==
  ASSUME NEW q \in Seq(Entries), ~HasClose(q)
  PROVE  Append(q, OnClose) \in Seq(Entries) /\ Once(Append(q, OnClose))
<1> DEFINE r == Append(q, OnClose)
<1>1. /\ r \in Seq(Entries) /\ Len(r) = Len(q) + 1 /\ Len(q) \in Nat
      /\ \A i \in 1..Len(q) : r[i] = q[i]
  BY EntryKinds
<1> HIDE DEF r
<1>2. \A i \in 1..Len(r) : r[i].kind = "onClose" => i = Len(q) + 1
  BY <1>1 DEF HasClose
<1> QED  BY <1>1, <1>2 DEF Once, r

\* Running the head of a queue: no handler appears, and the only one is gone.
LEMMA TailQueue ==
  ASSUME NEW q \in Seq(Entries), q # <<>>, Once(q)
  PROVE  /\ Tail(q) \in Seq(Entries) /\ Head(q) \in Entries
         /\ Once(Tail(q))
         /\ HasClose(Tail(q)) => HasClose(q)
         /\ Head(q).kind = "onClose" => HasClose(q) /\ ~HasClose(Tail(q))
<1> DEFINE r == Tail(q)
<1>1. /\ r \in Seq(Entries) /\ Head(q) \in Entries /\ Head(q) = q[1]
      /\ Len(q) \in Nat \ {0} /\ Len(r) = Len(q) - 1
      /\ \A i \in 1..Len(r) : r[i] = q[i + 1]
  OBVIOUS
<1> HIDE DEF r
<1>2. \A i \in 1..Len(r) : i + 1 \in 1..Len(q)  BY <1>1
<1>3. Once(r)
  <2> SUFFICES ASSUME NEW i \in 1..Len(r), NEW j \in 1..Len(r),
                      r[i].kind = "onClose", r[j].kind = "onClose"
               PROVE  i = j
    BY DEF Once
  <2>1. i + 1 = j + 1  BY <1>1, <1>2 DEF Once
  <2> QED  BY <2>1
<1>4. HasClose(r) => HasClose(q)  BY <1>1, <1>2 DEF HasClose
<1>5. ASSUME Head(q).kind = "onClose" PROVE HasClose(q) /\ ~HasClose(r)
  <2>1. 1 \in 1..Len(q) /\ q[1].kind = "onClose"  BY <1>1, <1>5
  <2>2. \A i \in 1..Len(r) : r[i].kind # "onClose"
    BY <1>1, <1>2, <2>1 DEF Once
  <2> QED  BY <2>1, <2>2 DEF HasClose
<1> QED  BY <1>1, <1>3, <1>4, <1>5 DEF r

\* ws.send on queues qs.
LEMMA TellQueues ==
  ASSUME NEW qs \in [Conns -> Seq(Entries)], NEW s \in Statuses,
         ws \in Conns \cup {None}, Tell(qs, s)
  PROVE  /\ queue' \in [Conns -> Seq(Entries)]
         /\ \A d \in Conns : /\ Once(qs[d]) => Once(queue'[d])
                             /\ HasClose(queue'[d]) <=> HasClose(qs[d])
<1>1. CASE ws = None  BY <1>1 DEF Tell
<1>2. CASE ws # None
  <2>1. ws \in Conns /\ queue' = [qs EXCEPT ![ws] = Append(@, Send(s))]
    BY <1>2 DEF Tell
  <2>2. /\ Append(qs[ws], Send(s)) \in Seq(Entries)
        /\ Once(qs[ws]) => Once(Append(qs[ws], Send(s)))
        /\ HasClose(Append(qs[ws], Send(s))) <=> HasClose(qs[ws])
    BY <2>1, EntryKinds, AppendOther
  <2> QED  BY <2>1, <2>2
<1> QED  BY <1>1, <1>2

\* Taking the head of one queue.
LEMMA RestQueues ==
  ASSUME TypeOK, CloseOnce, NEW c \in Conns, queue[c] # <<>>
  PROVE  /\ Rest(c) \in [Conns -> Seq(Entries)]
         /\ Head(queue[c]) \in Entries
         /\ \A d \in Conns : /\ Once(Rest(c)[d])
                             /\ HasClose(Rest(c)[d]) => HasClose(queue[d])
         /\ Head(queue[c]).kind = "onClose"
              => HasClose(queue[c]) /\ ~HasClose(Rest(c)[c])
<1>1. queue[c] \in Seq(Entries) /\ Once(queue[c])  BY DEF TypeOK, CloseOnce
<1>2. Rest(c) = [queue EXCEPT ![c] = Tail(queue[c])]  BY DEF Rest
<1> QED  BY <1>1, <1>2, TailQueue DEF TypeOK, CloseOnce

-----------------------------------------------------------------------------
(* Steps that leave the sockets and the service's hold on them alone.       *)

LEMMA SameHold ==
  ASSUME IInv, queue' \in [Conns -> Seq(Entries)],
         \A d \in Conns : /\ Once(queue'[d])
                          /\ HasClose(queue'[d]) => HasClose(queue[d]),
         conn' = conn, ws' = ws, shouldCloseWorker' = shouldCloseWorker
  PROVE  CloseOnce' /\ Held'
<1>1. CloseOnce'  BY DEF IInv, CloseOnce
<1>2. Held'  BY DEF IInv, Held
<1> QED  BY <1>1, <1>2

LEMMA SameQueue ==
  ASSUME IInv, UNCHANGED <<queue, conn, ws, shouldCloseWorker>>
  PROVE  CloseOnce' /\ Held'
BY SameHold DEF IInv, TypeOK, CloseOnce

LEMMA TaskFacts ==
  /\ "build" \in Tasks /\ Aborts \subseteq Tasks /\ Aborts \subseteq Letters
  /\ Results \subseteq Statuses /\ None \notin Results /\ None \notin Statuses
BY WorkerAssumption DEF Tasks, Aborts, Statuses, Results

\* Recording a result.
LEMMA FinishStep ==
  ASSUME IInv, NEW t \in Tasks, NEW r \in Results, NEW p \in PCs,
         Finish(t, r, p)
  PROVE  /\ status' \in Statuses /\ replaced' \in BOOLEAN
         /\ pc' \in [Tasks -> PCs] /\ outcome' \in [Tasks -> Results \cup {None}]
         /\ OutcomeKnown'
<1>1. status' \in Statuses /\ replaced' \in BOOLEAN
  BY TaskFacts DEF Finish, SetStatus, IInv, TypeOK
<1>2. pc' \in [Tasks -> PCs] /\ outcome' \in [Tasks -> Results \cup {None}]
  BY DEF Finish, GoTo, IInv, TypeOK
<1>3. OutcomeKnown'
  BY DEF Finish, GoTo, IInv, TypeOK, OutcomeKnown
<1> QED  BY <1>1, <1>2, <1>3

\* Reporting a result.
LEMMA ReportStep ==
  ASSUME IInv, NEW t \in Tasks, pc[t] \in {"flush", "cleanUp"}, Report(t),
         UNCHANGED <<conn, ws, shouldCloseWorker>>
  PROVE  /\ queue' \in [Conns -> Seq(Entries)]
         /\ pc' \in [Tasks -> PCs] /\ outcome' \in [Tasks -> Results \cup {None}]
         /\ CloseOnce' /\ Held' /\ OutcomeKnown'
<1>1. outcome[t] \in Statuses /\ Tell(queue, outcome[t])
  BY TaskFacts DEF IInv, OutcomeKnown, Report
<1>2. /\ queue' \in [Conns -> Seq(Entries)]
      /\ \A d \in Conns : /\ Once(queue'[d])
                          /\ HasClose(queue'[d]) => HasClose(queue[d])
  BY <1>1, TellQueues DEF IInv, TypeOK, CloseOnce
<1>3. CloseOnce' /\ Held'  BY <1>2, SameHold
<1>4. /\ pc' \in [Tasks -> PCs] /\ outcome' \in [Tasks -> Results \cup {None}]
      /\ OutcomeKnown'
  BY DEF Report, GoTo, IInv, TypeOK, OutcomeKnown, PCs
<1> QED  BY <1>2, <1>3, <1>4

LEMMA TaskStepInv ==
  ASSUME IInv, NEW t \in Tasks, TaskStep(t)
  PROVE  IInv'
<1> USE TaskFacts
<1>1. CASE t = "build" /\ LoggerReady
  <2>1. CloseOnce' /\ Held'
    BY <1>1, SameQueue DEF LoggerReady, sockets
  <2>2. CASE logs' = "open" /\ GoTo("build", "context")
             /\ UNCHANGED <<status, replaced, outcome>>
    BY <1>1, <2>1, <2>2
    DEF LoggerReady, GoTo, IInv, TypeOK, OutcomeKnown, PCs, sockets
  <2>3. CASE Finish("build", "error", "flush") /\ UNCHANGED logs
    BY <1>1, <2>1, <2>3, FinishStep
    DEF LoggerReady, IInv, TypeOK, PCs, Results, sockets
  <2> QED  BY <1>1, <2>2, <2>3 DEF LoggerReady
<1>2. CASE t = "build" /\ ContextReady
  <2>1. CloseOnce' /\ Held'
    BY <1>2, SameQueue DEF ContextReady, sockets
  <2>2. CASE GoTo("build", "building") /\ UNCHANGED <<status, replaced, outcome>>
    BY <1>2, <2>1, <2>2
    DEF ContextReady, GoTo, IInv, TypeOK, OutcomeKnown, PCs, sockets
  <2>3. CASE Finish("build", "error", "flush")
    BY <1>2, <2>1, <2>3, FinishStep
    DEF ContextReady, IInv, TypeOK, PCs, Results, sockets
  <2> QED  BY <1>2, <2>2, <2>3 DEF ContextReady
<1>3. CASE t = "build" /\ BuildEnds
  <2>1. CloseOnce' /\ Held'
    BY <1>3, SameQueue DEF BuildEnds, sockets
  <2>2. PICK r \in {"success", "error"} : Finish("build", r, "flush")
    BY <1>3 DEF BuildEnds
  <2> QED
    BY <1>3, <2>1, <2>2, FinishStep
    DEF BuildEnds, IInv, TypeOK, PCs, Results, sockets
<1>4. CASE t \in Aborts /\ Abort(t)
  <2>1. CloseOnce' /\ Held'
    BY <1>4, SameQueue DEF Abort, sockets
  <2>2. PICK p \in {"flush", "hook"} : Finish(t, "aborted", p)
    BY <1>4 DEF Abort
  <2> QED
    BY <1>4, <2>1, <2>2, FinishStep
    DEF Abort, IInv, TypeOK, PCs, Results, sockets
<1>5. CASE t \in Aborts /\ HookEnds(t)
  <2>1. CloseOnce' /\ Held'
    BY <1>5, SameQueue DEF HookEnds, sockets, service
  <2> QED
    BY <1>5, <2>1
    DEF HookEnds, At, GoTo, IInv, TypeOK, OutcomeKnown, PCs, sockets, service,
        history
<1>6. CASE CleanUpLogs(t)
  <2>1. CASE /\ logs' = "cleaning" /\ GoTo(t, "cleanUp")
             /\ UNCHANGED <<queue, outcome>>
    <3>1. CloseOnce' /\ Held'
      BY <1>6, <2>1, SameQueue DEF CleanUpLogs, sockets, service
    <3> QED
      BY <1>6, <2>1, <3>1
      DEF CleanUpLogs, At, GoTo, IInv, TypeOK, OutcomeKnown, PCs, sockets,
          service, history
  <2>2. CASE Report(t) /\ UNCHANGED logs
    BY <1>6, <2>2, ReportStep
    DEF CleanUpLogs, At, IInv, TypeOK, sockets, service, history
  <2> QED  BY <1>6, <2>1, <2>2 DEF CleanUpLogs
<1>7. CASE LogsCleaned(t)
  BY <1>7, ReportStep
  DEF LogsCleaned, At, IInv, TypeOK, sockets, service, history
<1>8. CASE LogsCleanUpThrows(t)
  <2>1. CloseOnce' /\ Held'
    BY <1>8, SameQueue DEF LogsCleanUpThrows, sockets
  <2>2. CASE Finish(t, "error", "flush") /\ UNCHANGED process
    BY <1>8, <2>1, <2>2, FinishStep
    DEF LogsCleanUpThrows, IInv, TypeOK, PCs, Results, sockets
  <2>3. CASE process' = "crashed" /\ UNCHANGED <<status, replaced, tasks>>
    BY <1>8, <2>1, <2>3
    DEF LogsCleanUpThrows, IInv, TypeOK, OutcomeKnown, sockets, tasks
  <2> QED  BY <1>8, <2>2, <2>3 DEF LogsCleanUpThrows
<1>9. CASE HangCheck(t)
  <2>1. CloseOnce' /\ Held'
    BY <1>9, SameQueue DEF HangCheck, sockets, service
  <2> QED
    BY <1>9, <2>1
    DEF HangCheck, At, GoTo, IInv, TypeOK, OutcomeKnown, PCs, sockets, service,
        history
<1> QED
  BY <1>1, <1>2, <1>3, <1>4, <1>5, <1>6, <1>7, <1>8, <1>9 DEF TaskStep

-----------------------------------------------------------------------------
(* Steps of the sockets.                                                   *)

LEMMA CloseEventInv ==
  ASSUME IInv, NEW c \in Conns, conn[c] \in {"open", "dead", "closing"},
         CloseEvent(c), UNCHANGED alive
  PROVE  IInv'
<1>1. queue[c] \in Seq(Entries) /\ ~HasClose(queue[c])
  BY DEF IInv, TypeOK, CloseOnce
<1>2. /\ queue' = [queue EXCEPT ![c] = Append(queue[c], OnClose)]
      /\ conn' = [conn EXCEPT ![c] = "closed"]
      /\ Append(queue[c], OnClose) \in Seq(Entries)
      /\ Once(Append(queue[c], OnClose))
  BY <1>1, AppendClose DEF CloseEvent
<1>3. TypeOK'
  BY <1>2 DEF CloseEvent, IInv, TypeOK, ConnStates, service, tasks, history
<1>4. CloseOnce'  BY <1>2 DEF IInv, TypeOK, CloseOnce
<1>5. Held'  BY <1>2 DEF CloseEvent, IInv, TypeOK, Held, service
<1>6. OutcomeKnown'  BY DEF CloseEvent, IInv, OutcomeKnown, tasks
<1> QED  BY <1>3, <1>4, <1>5, <1>6 DEF IInv

LEMMA SocketStepInv ==
  ASSUME IInv, NEW c \in Conns, SocketStep(c)
  PROVE  IInv'
<1>1. CASE Connect(c)
  <2>1. CASE ws # None
    <3>1. TypeOK' /\ OutcomeKnown'
      BY <1>1, <2>1
      DEF Connect, IInv, TypeOK, OutcomeKnown, ConnStates, tasks, history
    <3>2. CloseOnce'  BY <1>1, <2>1 DEF Connect, IInv, TypeOK, CloseOnce
    <3>3. Held'  BY <1>1, <2>1 DEF Connect, IInv, TypeOK, Held
    <3> QED  BY <3>1, <3>2, <3>3 DEF IInv
  <2>2. CASE ws = None
    <3>1. TypeOK' /\ OutcomeKnown'
      BY <1>1, <2>2
      DEF Connect, IInv, TypeOK, OutcomeKnown, ConnStates, tasks, history
    <3>2. CloseOnce'  BY <1>1, <2>2 DEF Connect, IInv, TypeOK, CloseOnce
    <3>3. Held'
      BY <1>1, <2>2, WorkerAssumption
      DEF Connect, IInv, TypeOK, Held, CloseOnce
    <3> QED  BY <3>1, <3>2, <3>3 DEF IInv
  <2> QED  BY <2>1, <2>2
<1>2. CASE LauncherVanishes(c)
  <2>1. TypeOK' /\ OutcomeKnown'
    BY <1>2
    DEF LauncherVanishes, IInv, TypeOK, OutcomeKnown, ConnStates, service,
        tasks, history
  <2>2. CloseOnce'  BY <1>2 DEF LauncherVanishes, IInv, TypeOK, CloseOnce
  <2>3. Held'  BY <1>2 DEF LauncherVanishes, IInv, TypeOK, Held, service
  <2> QED  BY <2>1, <2>2, <2>3 DEF IInv
<1>3. CASE LauncherCloses(c)  BY <1>3, CloseEventInv DEF LauncherCloses
<1>4. CASE CloseCompletes(c)  BY <1>4, CloseEventInv DEF CloseCompletes
<1>5. CASE SocketError(c)
  <2>1. <<>> \in Seq(Entries) /\ Once(<<>>) /\ ~HasClose(<<>>)
    BY DEF Once, HasClose
  <2>2. TypeOK' /\ OutcomeKnown'
    BY <1>5, <2>1
    DEF SocketError, IInv, TypeOK, OutcomeKnown, ConnStates, service, tasks,
        history
  <2>3. CloseOnce'  BY <1>5, <2>1 DEF SocketError, IInv, TypeOK, CloseOnce
  <2>4. Held'  BY <1>5, <2>1 DEF SocketError, IInv, TypeOK, Held, service
  <2> QED  BY <2>2, <2>3, <2>4 DEF IInv
<1>6. CASE PingTick(c)
  <2>1. CASE CloseEvent(c) /\ UNCHANGED alive
    BY <1>6, <2>1, CloseEventInv DEF PingTick
  <2>2. CASE /\ alive[c] /\ alive' = [alive EXCEPT ![c] = FALSE]
             /\ UNCHANGED <<conn, queue, service, logs, tasks, hangReported,
                            process, unsent, history>>
    <3>1. CloseOnce' /\ Held'  BY <2>2, SameQueue DEF service
    <3> QED
      BY <2>2, <3>1
      DEF IInv, TypeOK, OutcomeKnown, service, tasks, history
  <2> QED  BY <1>6, <2>1, <2>2 DEF PingTick
<1>7. CASE Pong(c)
  <2>1. CloseOnce' /\ Held'  BY <1>7, SameQueue DEF Pong, service
  <2> QED
    BY <1>7, <2>1 DEF Pong, IInv, TypeOK, OutcomeKnown, service, tasks, history
<1>8. ASSUME NEW m \in Letters, LauncherSends(c, m) PROVE IInv'
  <2>1. queue' = [queue EXCEPT ![c] = Append(queue[c], Receive(m))]
    BY <1>8 DEF LauncherSends
  <2>2. /\ Append(queue[c], Receive(m)) \in Seq(Entries)
        /\ Once(queue[c]) => Once(Append(queue[c], Receive(m)))
        /\ HasClose(Append(queue[c], Receive(m))) <=> HasClose(queue[c])
    BY AppendOther, EntryKinds DEF IInv, TypeOK
  <2>3. CloseOnce' /\ Held'
    <3>1. /\ queue' \in [Conns -> Seq(Entries)]
          /\ \A d \in Conns : /\ Once(queue'[d])
                              /\ HasClose(queue'[d]) => HasClose(queue[d])
      BY <2>1, <2>2 DEF IInv, TypeOK, CloseOnce
    <3> QED  BY <1>8, <3>1, SameHold DEF LauncherSends, sockets, service
  <2> QED
    BY <1>8, <2>1, <2>2, <2>3
    DEF LauncherSends, IInv, TypeOK, OutcomeKnown, sockets, service, tasks,
        history
<1> QED
  BY <1>1, <1>2, <1>3, <1>4, <1>5, <1>6, <1>7, <1>8 DEF SocketStep

-----------------------------------------------------------------------------
(* Steps of a queue.                                                       *)

\* The queues when the entry at the head of c's has run and said nothing.
LEMMA QuietRun ==
  ASSUME IInv, NEW c \in Conns, queue[c] # <<>>, queue' = Rest(c)
  PROVE  /\ queue' \in [Conns -> Seq(Entries)]
         /\ \A d \in Conns : /\ Once(queue'[d])
                             /\ HasClose(queue'[d]) => HasClose(queue[d])
BY RestQueues DEF IInv

LEMMA RunMessageInv ==
  ASSUME IInv, NEW c \in Conns, queue[c] # <<>>, RunMessage(c)
  PROVE  IInv'
<1> DEFINE m == Head(queue[c]).letter
<1>1. m \in Letters /\ HandleMessage(c, m)
  BY RestQueues, EntryParts DEF IInv, RunMessage
<1>2. UNCHANGED <<alive, logs, hangReported, process, unsent, heard, told>>
  BY DEF RunMessage
<1> HIDE DEF m
<1>3. CASE StartBuild(c, m)
  <2>1. CloseOnce' /\ Held'
    BY <1>3, QuietRun, SameHold DEF StartBuild
  <2>2. queue' \in [Conns -> Seq(Entries)]  BY <1>3, QuietRun DEF StartBuild
  <2>3. status' \in Statuses /\ started' \in BOOLEAN /\ replaced' \in BOOLEAN
    BY <1>3 DEF StartBuild, SetStatus, IInv, TypeOK, Statuses
  <2>4. pc' = pc \/ pc' = [pc EXCEPT !["build"] = "setUp"]
    BY <1>3 DEF StartBuild
  <2>5. pc' \in [Tasks -> PCs]  BY <2>4 DEF IInv, TypeOK, PCs
  <2>6. OutcomeKnown'
    BY <1>3, <2>4 DEF StartBuild, IInv, TypeOK, OutcomeKnown
  <2>7. TypeOK'
    BY <1>2, <1>3, <2>2, <2>3, <2>5 DEF StartBuild, IInv, TypeOK
  <2> QED  BY <2>1, <2>6, <2>7 DEF IInv
<1>4. CASE SyncLauncherState(c, m)
  <2>1. /\ queue' \in [Conns -> Seq(Entries)]
        /\ \A d \in Conns : /\ Once(queue'[d])
                            /\ HasClose(queue'[d]) => HasClose(queue[d])
    <3>1. CASE queue' = Rest(c)  BY <3>1, QuietRun
    <3>2. CASE Tell(Rest(c), status)
      BY <3>2, TellQueues, RestQueues DEF IInv, TypeOK
    <3> QED  BY <1>4, <3>1, <3>2 DEF SyncLauncherState
  <2>2. CloseOnce' /\ Held'
    BY <1>4, <2>1, SameHold DEF SyncLauncherState, service
  <2> QED
    BY <1>2, <1>4, <2>1, <2>2
    DEF SyncLauncherState, IInv, TypeOK, OutcomeKnown, service, tasks
<1>5. CASE CloseWorker(c)
  <2>1. /\ queue' \in [Conns -> Seq(Entries)]
        /\ \A d \in Conns : /\ Once(queue'[d])
                            /\ HasClose(queue'[d]) => HasClose(queue[d])
    BY <1>5, QuietRun DEF CloseWorker
  <2>2. conn' \in [Conns -> ConnStates]
    BY <1>5 DEF CloseWorker, IInv, TypeOK, ConnStates
  <2>3. CloseOnce'
    BY <1>5, <2>1 DEF CloseWorker, IInv, TypeOK, CloseOnce
  <2>4. Held'  BY <1>5 DEF CloseWorker, Held
  <2> QED
    BY <1>2, <1>5, <2>1, <2>2, <2>3, <2>4
    DEF CloseWorker, IInv, TypeOK, OutcomeKnown, tasks
<1>6. CASE m \in Aborts /\ FinishAbort(c, m)
  <2>1. CloseOnce' /\ Held'
    BY <1>6, QuietRun, SameHold DEF FinishAbort, service
  <2>2. queue' \in [Conns -> Seq(Entries)]  BY <1>6, QuietRun DEF FinishAbort
  <2>3. pc' = pc \/ pc' = [pc EXCEPT ![m] = "xcodeLogs"]
    BY <1>6 DEF FinishAbort
  <2>4. pc' \in [Tasks -> PCs]  BY <2>3 DEF IInv, TypeOK, PCs
  <2>5. OutcomeKnown'
    BY <1>6, <2>3 DEF FinishAbort, IInv, TypeOK, OutcomeKnown
  <2>6. TypeOK'
    BY <1>2, <1>6, <2>2, <2>4 DEF FinishAbort, IInv, TypeOK, service
  <2> QED  BY <2>1, <2>5, <2>6 DEF IInv
<1> QED  BY <1>1, <1>3, <1>4, <1>5, <1>6 DEF HandleMessage

LEMMA DrainInv ==
  ASSUME IInv, NEW c \in Conns, Drain(c)
  PROVE  IInv'
<1>1. CASE RunMessage(c)  BY <1>1, RunMessageInv DEF Drain
<1>2. CASE RunSend(c)
  <2> DEFINE s == Head(queue[c]).status
  <2>1. s \in Statuses
    BY <1>2, RestQueues, EntryParts DEF Drain, RunSend, IInv
  <2>2. CloseOnce' /\ Held' /\ queue' \in [Conns -> Seq(Entries)]
    BY <1>2, QuietRun, SameHold DEF Drain, RunSend, sockets, service
  <2>3. heard' \in [Conns -> Statuses \cup {None}] /\ told' \subseteq Results
    BY <1>2, <2>1 DEF RunSend, IInv, TypeOK
  <2> QED
    BY <1>2, <2>2, <2>3
    DEF RunSend, IInv, TypeOK, OutcomeKnown, sockets, service, tasks
<1>3. CASE RunOnClose(c)
  <2>1. /\ queue[c] # <<>> /\ queue' = Rest(c)
        /\ HasClose(queue[c]) /\ ~HasClose(Rest(c)[c])
    BY <1>3, RestQueues DEF Drain, RunOnClose, IInv
  <2>2. /\ queue' \in [Conns -> Seq(Entries)]
        /\ \A d \in Conns : /\ Once(queue'[d])
                            /\ HasClose(queue'[d]) => HasClose(queue[d])
    BY <2>1, QuietRun
  <2>3. CloseOnce'
    BY <1>3, <2>2 DEF RunOnClose, IInv, CloseOnce, sockets
  <2>4. Held'
    <3>1. CASE shouldCloseWorker  BY <1>3, <3>1 DEF RunOnClose, Held
    <3>2. CASE ~shouldCloseWorker
      <4>1. ws = c /\ conn[c] = "closed"
        BY <2>1, <3>2 DEF IInv, Held, CloseOnce
      <4>2. \A d \in Conns :
              ~(conn[d] \in {"open", "dead", "closing"} \/ HasClose(queue'[d]))
        BY <2>1, <2>2, <3>2, <4>1 DEF IInv, Held
      <4> QED  BY <1>3, <4>2 DEF RunOnClose, Held, sockets
    <3> QED  BY <3>1, <3>2
  <2> QED
    BY <1>3, <2>2, <2>3, <2>4
    DEF RunOnClose, IInv, TypeOK, OutcomeKnown, sockets, tasks, history
<1> QED  BY <1>1, <1>2, <1>3 DEF Drain

-----------------------------------------------------------------------------

LEMMA InitInv == Init => IInv
<1> SUFFICES ASSUME Init PROVE IInv  OBVIOUS
<1>1. <<>> \in Seq(Entries) /\ Once(<<>>) /\ ~HasClose(<<>>)
  BY DEF Once, HasClose
<1>2. TypeOK
  BY <1>1 DEF Init, TypeOK, ConnStates, PCs, Statuses
<1>3. CloseOnce /\ Held /\ OutcomeKnown
  BY <1>1 DEF Init, CloseOnce, Held, OutcomeKnown
<1> QED  BY <1>2, <1>3 DEF IInv

LEMMA StepInv == IInv /\ [Next]_vars => IInv'
<1> SUFFICES ASSUME IInv, [Next]_vars PROVE IInv'  OBVIOUS
<1>1. CASE Next
  <2>1. ASSUME NEW c \in Conns, SocketStep(c) PROVE IInv'
    BY <2>1, SocketStepInv
  <2>2. ASSUME NEW c \in Conns, Drain(c) PROVE IInv'  BY <2>2, DrainInv
  <2>3. ASSUME NEW t \in Tasks, TaskStep(t) PROVE IInv'  BY <2>3, TaskStepInv
  <2> QED  BY <1>1, <2>1, <2>2, <2>3 DEF Next
<1>2. CASE UNCHANGED vars
  <2>1. CloseOnce' /\ Held'
    BY <1>2, SameQueue DEF vars, sockets, service
  <2> QED
    BY <1>2, <2>1
    DEF vars, IInv, TypeOK, OutcomeKnown, sockets, service, tasks, history
<1> QED  BY <1>1, <1>2

LEMMA Invariance == Spec => []IInv
BY InitInv, StepInv, PTL DEF Spec

\* Every variable of the worker keeps its type: what a queue holds can be run,
\* and every result that is reported has been recorded.
THEOREM TypeCorrect == Spec => []TypeOK
<1>1. IInv => TypeOK  BY DEF IInv
<1> QED  BY <1>1, Invariance, PTL

\* The worker answers on every live socket it accepted, so there is one: no
\* connection is let in beside another, and the onClose of a socket that is
\* gone never clears the one that replaced it.
THEOREM ServesOneLauncher == Spec => []OneLauncherServed
<1>1. IInv => OneLauncherServed  BY DEF IInv, Held, OneLauncherServed
<1> QED  BY <1>1, Invariance, PTL

-----------------------------------------------------------------------------
(* One result, told when its logs are complete.                            *)

IsSend(e) == e.kind = "send"
NoAbort   == \A a \in Aborts : pc[a] = "idle"

\* Every result still to be sent is r.
OneResult(q, r) == \A i \in 1..Len(q) :
                     IsSend(q[i]) /\ q[i].status \in Results => q[i].status = r

\* A build that no ABORT has reached yet: its logs and its result.
LogsFollow ==
  /\ pc["build"] \in {"idle", "setUp"} => logs = "absent"
  /\ logs = "cleaning" => pc["build"] = "cleanUp"
  /\ process = "up" /\ pc["build"] = "cleanUp" => logs = "cleaning"
  /\ pc["build"] \in {"check", "over"} => logs # "open"

ResultFollows ==
  /\ pc["build"] \in {"idle", "setUp", "context", "building"} => outcome["build"] = None
  /\ logs # "failed" =>
       /\ status \in Results => status = outcome["build"]
       /\ told \subseteq {outcome["build"]}
       /\ \A c \in Conns : OneResult(queue[c], outcome["build"])

StartedOnce == pc["build"] = "idle" <=> ~started

BuildAlone == StartedOnce /\ (NoAbort => LogsFollow /\ ResultFollows)

LEMMA OneAppend ==
  ASSUME NEW q \in Seq(Entries), NEW e \in Entries, NEW r, OneResult(q, r),
         IsSend(e) /\ e.status \in Results => e.status = r
  PROVE  OneResult(Append(q, e), r)
<1> DEFINE s == Append(q, e)
<1>1. /\ Len(s) = Len(q) + 1 /\ Len(q) \in Nat
      /\ \A i \in 1..Len(q) : s[i] = q[i]
      /\ s[Len(q) + 1] = e
  OBVIOUS
<1> HIDE DEF s
<1>2. \A i \in 1..Len(s) : i \in 1..Len(q) \/ i = Len(q) + 1  BY <1>1
<1>3. OneResult(s, r)  BY <1>1, <1>2 DEF OneResult
<1> QED  BY <1>3 DEF s

LEMMA OneTail ==
  ASSUME NEW q \in Seq(Entries), q # <<>>, NEW r, OneResult(q, r)
  PROVE  /\ OneResult(Tail(q), r)
         /\ IsSend(Head(q)) /\ Head(q).status \in Results => Head(q).status = r
<1> DEFINE s == Tail(q)
<1>1. /\ Head(q) = q[1] /\ Len(q) \in Nat \ {0} /\ Len(s) = Len(q) - 1
      /\ \A i \in 1..Len(s) : s[i] = q[i + 1]
  OBVIOUS
<1> HIDE DEF s
<1>2. 1 \in 1..Len(q) /\ \A i \in 1..Len(s) : i + 1 \in 1..Len(q)  BY <1>1
<1>3. OneResult(s, r)  BY <1>1, <1>2 DEF OneResult
<1> QED  BY <1>1, <1>2, <1>3 DEF OneResult, s

\* ws.send of the one result, or of no result.
LEMMA OneTell ==
  ASSUME NEW qs \in [Conns -> Seq(Entries)], NEW s \in Statuses, NEW r,
         ws \in Conns \cup {None}, Tell(qs, s), s \in Results => s = r,
         \A d \in Conns : OneResult(qs[d], r)
  PROVE  \A d \in Conns : OneResult(queue'[d], r)
<1>1. CASE ws = None  BY <1>1 DEF Tell
<1>2. CASE ws # None
  <2>1. ws \in Conns /\ queue' = [qs EXCEPT ![ws] = Append(@, Send(s))]
    BY <1>2 DEF Tell
  <2>2. Send(s) \in Entries /\ Send(s).status = s  BY EntryKinds DEF Send
  <2>3. OneResult(Append(qs[ws], Send(s)), r)  BY <2>1, <2>2, OneAppend
  <2> QED  BY <2>1, <2>3
<1> QED  BY <1>1, <1>2

\* Taking the head of one queue.
LEMMA OneRest ==
  ASSUME TypeOK, NEW c \in Conns, queue[c] # <<>>, NEW r,
         \A d \in Conns : OneResult(queue[d], r)
  PROVE  \A d \in Conns : OneResult(Rest(c)[d], r)
<1>1. Rest(c) = [queue EXCEPT ![c] = Tail(queue[c])]  BY DEF Rest
<1>2. OneResult(Tail(queue[c]), r)  BY OneTail DEF TypeOK
<1> QED  BY <1>1, <1>2 DEF TypeOK

\* What the sockets do to the queues: they bring no result.
LEMMA SocketQueues ==
  ASSUME IInv, NEW c \in Conns, SocketStep(c), NEW r,
         \A d \in Conns : OneResult(queue[d], r)
  PROVE  \A d \in Conns : OneResult(queue'[d], r)
<1>1. CASE queue' = queue  BY <1>1
<1>2. CASE CloseEvent(c)
  <2>1. OneResult(Append(queue[c], OnClose), r)
    BY EntryKinds, OneAppend DEF IsSend, OnClose, IInv, TypeOK
  <2> QED  BY <1>2, <2>1 DEF CloseEvent, IInv, TypeOK
<1>3. CASE SocketError(c)
  <2>1. OneResult(<<>>, r)  BY DEF OneResult
  <2> QED  BY <1>3, <2>1 DEF SocketError, IInv, TypeOK
<1>4. ASSUME NEW m \in Letters, LauncherSends(c, m)
      PROVE  \A d \in Conns : OneResult(queue'[d], r)
  <2>1. ~IsSend(Receive(m))  BY DEF IsSend, Receive
  <2>2. OneResult(Append(queue[c], Receive(m)), r)
    BY <2>1, EntryKinds, OneAppend DEF IInv, TypeOK
  <2> QED  BY <1>4, <2>2 DEF LauncherSends, IInv, TypeOK
<1> QED
  BY <1>1, <1>2, <1>3, <1>4
  DEF SocketStep, Connect, LauncherVanishes, LauncherCloses, CloseCompletes, PingTick, Pong

\* The rest of what the sockets do.
LEMMA SocketKeeps ==
  ASSUME NEW c \in Conns, SocketStep(c)
  PROVE  UNCHANGED <<status, started, shouldCloseWorker, logs, pc, outcome, process, history>>
BY DEF SocketStep, Connect, LauncherVanishes, LauncherCloses, CloseCompletes, CloseEvent,
   SocketError, PingTick, Pong, LauncherSends, service, tasks, history

\* A step that touches neither the build nor its logs.
LEMMA BuildAside ==
  ASSUME BuildAlone, NoAbort' => NoAbort,
         UNCHANGED <<started, logs, process, status, told, outcome>>,
         pc'["build"] = pc["build"],
         \A r : (\A d \in Conns : OneResult(queue[d], r)) => \A d \in Conns : OneResult(queue'[d], r)
  PROVE  BuildAlone'
BY DEF BuildAlone, StartedOnce, LogsFollow, ResultFollows

\* While the build has no result, there is none to tell.
LEMMA NoResultYet ==
  ASSUME TypeOK, NEW r, NEW c \in Conns, OneResult(queue[c], None)
  PROVE  OneResult(queue[c], r)
BY TaskFacts DEF OneResult

\* The build's result, of LoggerReady, ContextReady and BuildEnds.
LEMMA BuildFinishes ==
  ASSUME IInv, BuildAlone, pc["build"] \in {"setUp", "context", "building"},
         NEW r \in Results, Finish("build", r, "flush"),
         UNCHANGED <<queue, started, logs, process, told>>
  PROVE  BuildAlone'
<1>1. /\ pc' = [pc EXCEPT !["build"] = "flush"]
      /\ outcome' = [outcome EXCEPT !["build"] = r] /\ status' = r
  BY DEF Finish, GoTo, SetStatus
<1>2. pc'["build"] = "flush" /\ outcome'["build"] = r /\ (NoAbort' => NoAbort)
  BY <1>1, TaskFacts, WorkerAssumption DEF IInv, TypeOK, NoAbort, Aborts
<1>3. StartedOnce'  BY <1>2 DEF BuildAlone, StartedOnce
<1>4. ASSUME NoAbort' PROVE LogsFollow' /\ ResultFollows'
  <2>1. LogsFollow /\ ResultFollows  BY <1>2, <1>4 DEF BuildAlone
  <2>2. LogsFollow'  BY <1>2, <2>1 DEF LogsFollow
  <2>3. outcome["build"] = None  BY <2>1 DEF ResultFollows
  <2>4. logs # "failed" => told = {}
    BY <2>1, <2>3, TaskFacts DEF ResultFollows, IInv, TypeOK
  <2>5. logs # "failed" => \A c \in Conns : OneResult(queue[c], r)
    BY <2>1, <2>3, NoResultYet DEF ResultFollows, IInv
  <2> QED  BY <1>1, <1>2, <2>2, <2>4, <2>5 DEF ResultFollows
<1> QED  BY <1>3, <1>4 DEF BuildAlone

\* The report of the build.
LEMMA BuildReports ==
  ASSUME IInv, BuildAlone, pc["build"] \in {"flush", "cleanUp"}, Report("build"),
         UNCHANGED <<started, process, status, told, ws>>,
         logs' # "open", logs' = "cleaning" => NoAbort /\ pc["build"] = "flush" /\ logs = "cleaning",
         logs' # "failed" => logs # "failed"
  PROVE  BuildAlone'
<1>1. /\ pc' = [pc EXCEPT !["build"] = "check"] /\ outcome' = outcome
      /\ Tell(queue, outcome["build"])
  BY DEF Report, GoTo
<1>2. pc'["build"] = "check" /\ (NoAbort' => NoAbort)
  BY <1>1, TaskFacts, WorkerAssumption DEF IInv, TypeOK, NoAbort, Aborts
<1>3. StartedOnce'  BY <1>2 DEF BuildAlone, StartedOnce
<1>4. ASSUME NoAbort' PROVE LogsFollow' /\ ResultFollows'
  <2>1. LogsFollow /\ ResultFollows  BY <1>2, <1>4 DEF BuildAlone
  <2>2. LogsFollow'  BY <1>2, <2>1 DEF LogsFollow
  <2>3. outcome["build"] \in Statuses
    BY TaskFacts DEF IInv, OutcomeKnown
  <2>4. ASSUME logs' # "failed"
        PROVE  \A d \in Conns : OneResult(queue'[d], outcome["build"])
    BY <1>1, <2>1, <2>3, <2>4, OneTell DEF ResultFollows, IInv, TypeOK
  <2> QED  BY <1>1, <1>2, <2>1, <2>2, <2>4 DEF ResultFollows
<1> QED  BY <1>3, <1>4 DEF BuildAlone

LEMMA TaskAlone ==
  ASSUME IInv, BuildAlone, process = "up", NEW t \in Tasks, TaskStep(t)
  PROVE  BuildAlone'
<1> USE DEF At, GoTo
<1>1. CASE t # "build"
  <2>1. t \in Aborts /\ pc[t] # "idle" /\ started' = started
    BY <1>1
    DEF Tasks, TaskStep, Abort, HookEnds, CleanUpLogs, LogsCleaned, LogsCleanUpThrows, HangCheck,
        service
  <2>2. \E p \in PCs \ {"idle"} : pc' = [pc EXCEPT ![t] = p] \/ pc' = pc
    BY <1>1, <2>1
    DEF TaskStep, Abort, HookEnds, CleanUpLogs, LogsCleaned, LogsCleanUpThrows, HangCheck, PCs,
        Finish, Report, tasks
  <2>3. pc'[t] # "idle" /\ pc'["build"] = pc["build"]
    BY <1>1, <2>1, <2>2, TaskFacts DEF IInv, TypeOK
  <2> QED  BY <2>1, <2>3 DEF BuildAlone, StartedOnce, NoAbort
<1>2. CASE t = "build" /\ LoggerReady
  <2>1. CASE Finish("build", "error", "flush") /\ UNCHANGED logs
    BY <1>2, <2>1, BuildFinishes DEF LoggerReady, Results
  <2>2. CASE /\ logs' = "open" /\ pc' = [pc EXCEPT !["build"] = "context"]
             /\ UNCHANGED <<status, replaced, outcome>>
    <3>1. pc'["build"] = "context" /\ (NoAbort' => NoAbort)
      BY <2>2, TaskFacts, WorkerAssumption DEF IInv, TypeOK, NoAbort, Aborts
    <3>2. /\ UNCHANGED <<queue, started, process, told, status, outcome>>
          /\ pc["build"] = "setUp" /\ logs' = "open"
      BY <1>2, <2>2 DEF LoggerReady
    <3>3. ASSUME NoAbort' PROVE LogsFollow' /\ ResultFollows'
      <4>1. LogsFollow /\ ResultFollows  BY <3>1, <3>3 DEF BuildAlone
      <4> QED  BY <3>1, <3>2, <4>1 DEF LogsFollow, ResultFollows
    <3> QED  BY <3>1, <3>2, <3>3 DEF BuildAlone, StartedOnce
  <2> QED  BY <1>2, <2>1, <2>2 DEF LoggerReady
<1>3. CASE t = "build" /\ ContextReady
  <2>1. CASE Finish("build", "error", "flush")
    BY <1>3, <2>1, BuildFinishes DEF ContextReady, Results
  <2>2. CASE /\ pc' = [pc EXCEPT !["build"] = "building"]
             /\ UNCHANGED <<status, replaced, outcome>>
    <3>1. pc'["build"] = "building" /\ (NoAbort' => NoAbort)
      BY <2>2, TaskFacts, WorkerAssumption DEF IInv, TypeOK, NoAbort, Aborts
    <3>2. /\ UNCHANGED <<queue, started, logs, process, told, status, outcome>>
          /\ pc["build"] = "context"
      BY <1>3, <2>2 DEF ContextReady
    <3> QED  BY <3>1, <3>2 DEF BuildAlone, StartedOnce, LogsFollow, ResultFollows
  <2> QED  BY <1>3, <2>1, <2>2 DEF ContextReady
<1>4. CASE t = "build" /\ BuildEnds
  BY <1>4, BuildFinishes DEF BuildEnds, Results
<1>5. CASE t = "build" /\ CleanUpLogs(t)
  <2>1. CASE Report(t) /\ logs # "open" /\ UNCHANGED logs
    <3>1. CASE NoAbort
      BY <1>5, <2>1, <3>1, BuildReports DEF CleanUpLogs, BuildAlone, sockets, service, history
    <3>2. CASE ~NoAbort
      <4>1. pc'["build"] = "check" /\ ~NoAbort'
        BY <1>5, <2>1, <3>2, TaskFacts, WorkerAssumption
        DEF Report, IInv, TypeOK, NoAbort, Aborts
      <4> QED  BY <1>5, <4>1 DEF CleanUpLogs, BuildAlone, StartedOnce, service
    <3> QED  BY <3>1, <3>2
  <2>2. CASE /\ logs = "open" /\ logs' = "cleaning"
             /\ pc' = [pc EXCEPT !["build"] = "cleanUp"] /\ UNCHANGED <<queue, outcome>>
    <3>1. pc'["build"] = "cleanUp" /\ (NoAbort' => NoAbort)
      BY <2>2, TaskFacts, WorkerAssumption DEF IInv, TypeOK, NoAbort, Aborts
    <3>2. UNCHANGED <<queue, started, process, told, status, outcome>> /\ pc["build"] = "flush"
      BY <1>5, <2>2 DEF CleanUpLogs, service, history
    <3> QED  BY <2>2, <3>1, <3>2 DEF BuildAlone, StartedOnce, LogsFollow, ResultFollows
  <2> QED  BY <1>5, <2>1, <2>2 DEF CleanUpLogs
<1>6. CASE t = "build" /\ LogsCleaned(t)
  <2>1. CASE NoAbort
    <3>1. logs = "cleaning"
      BY <1>6, <2>1 DEF LogsCleaned, BuildAlone, LogsFollow
    <3> QED  BY <1>6, <3>1, BuildReports DEF LogsCleaned, sockets, service, history
  <2>2. CASE ~NoAbort
    <3>1. pc'["build"] = "check" /\ ~NoAbort'
      BY <1>6, <2>2, TaskFacts, WorkerAssumption
      DEF LogsCleaned, Report, IInv, TypeOK, NoAbort, Aborts
    <3> QED  BY <1>6, <3>1 DEF LogsCleaned, BuildAlone, StartedOnce, service
  <2> QED  BY <2>1, <2>2
<1>7. CASE t = "build" /\ LogsCleanUpThrows(t)
  <2>1. logs' = "failed" /\ pc["build"] = "cleanUp" /\ UNCHANGED started
    BY <1>7 DEF LogsCleanUpThrows
  <2>2. \/ pc' = [pc EXCEPT !["build"] = "flush"]
        \/ pc' = pc /\ process' = "crashed"
    BY <1>7 DEF LogsCleanUpThrows, Finish, tasks
  <2>3. \/ pc'["build"] = "flush"
        \/ pc'["build"] = "cleanUp" /\ process' = "crashed"
    BY <2>1, <2>2, TaskFacts DEF IInv, TypeOK
  <2> QED  BY <2>1, <2>3 DEF BuildAlone, StartedOnce, LogsFollow, ResultFollows
<1>8. CASE t = "build" /\ HangCheck(t)
  <2>1. pc'["build"] = "over" /\ pc["build"] = "check" /\ (NoAbort' => NoAbort)
    BY <1>8, TaskFacts, WorkerAssumption DEF HangCheck, IInv, TypeOK, NoAbort, Aborts
  <2>2. UNCHANGED <<queue, started, logs, told, status, outcome>>
    BY <1>8 DEF HangCheck, service, history
  <2> QED  BY <2>1, <2>2 DEF BuildAlone, StartedOnce, LogsFollow, ResultFollows
<1> QED
  BY <1>1, <1>2, <1>3, <1>4, <1>5, <1>6, <1>7, <1>8, TaskFacts, WorkerAssumption DEF TaskStep

LEMMA DrainAlone ==
  ASSUME IInv, BuildAlone, NEW c \in Conns, Drain(c)
  PROVE  BuildAlone'
<1>0. /\ queue[c] # <<>>
      /\ \A r : (\A d \in Conns : OneResult(queue[d], r))
                  => \A d \in Conns : OneResult(Rest(c)[d], r)
  BY OneRest DEF Drain, IInv
<1>1. CASE RunMessage(c)
  <2> DEFINE m == Head(queue[c]).letter
  <2>1. m \in Letters /\ HandleMessage(c, m)
    BY <1>0, <1>1, RestQueues, EntryParts DEF IInv, RunMessage
  <2>2. UNCHANGED <<logs, process, told>>
    BY <1>1 DEF RunMessage
  <2> HIDE DEF m
  <2>3. CASE StartBuild(c, m)
    <3>1. queue' = Rest(c) /\ outcome' = outcome
      BY <2>3 DEF StartBuild
    <3>2. CASE UNCHANGED <<started, status, replaced, pc>>
      BY <1>0, <2>2, <3>1, <3>2, BuildAside DEF NoAbort
    <3>3. CASE /\ ~started /\ started' = TRUE /\ SetStatus("in-progress")
               /\ pc' = [pc EXCEPT !["build"] = "setUp"]
      <4>1. pc["build"] = "idle" /\ pc'["build"] = "setUp" /\ (NoAbort' => NoAbort)
        BY <3>3, TaskFacts, WorkerAssumption
        DEF IInv, TypeOK, NoAbort, Aborts, BuildAlone, StartedOnce
      <4>2. status' = "in-progress" /\ "in-progress" \notin Results
        BY <3>3 DEF SetStatus, Results
      <4>3. ASSUME NoAbort' PROVE LogsFollow' /\ ResultFollows'
        <5>1. LogsFollow /\ ResultFollows  BY <4>1, <4>3 DEF BuildAlone
        <5>2. LogsFollow'  BY <2>2, <4>1, <5>1 DEF LogsFollow
        <5>3. ResultFollows'
          BY <1>0, <2>2, <3>1, <4>1, <4>2, <5>1 DEF ResultFollows
        <5> QED  BY <5>2, <5>3
      <4> QED  BY <3>3, <4>1, <4>3 DEF BuildAlone, StartedOnce
    <3> QED  BY <2>3, <3>2, <3>3 DEF StartBuild
  <2>4. CASE SyncLauncherState(c, m)
    <3>1. UNCHANGED <<started, status, pc, outcome>>
      BY <2>4 DEF SyncLauncherState, service, tasks
    <3>2. CASE queue' = Rest(c)
      BY <1>0, <2>2, <3>1, <3>2, BuildAside DEF NoAbort
    <3>3. CASE Tell(Rest(c), status)
      <4>1. StartedOnce'  BY <3>1 DEF BuildAlone, StartedOnce
      <4>2. ASSUME NoAbort' PROVE LogsFollow' /\ ResultFollows'
        <5>1. LogsFollow /\ ResultFollows  BY <3>1, <4>2 DEF BuildAlone, NoAbort
        <5>2. LogsFollow'  BY <2>2, <3>1, <5>1 DEF LogsFollow
        <5>3. ASSUME logs # "failed"
              PROVE  \A d \in Conns : OneResult(queue'[d], outcome["build"])
          <6>1. /\ status \in Statuses /\ ws \in Conns \cup {None}
                /\ Rest(c) \in [Conns -> Seq(Entries)]
            BY <1>0, RestQueues DEF IInv, TypeOK
          <6>2. /\ \A d \in Conns : OneResult(Rest(c)[d], outcome["build"])
                /\ status \in Results => status = outcome["build"]
            BY <1>0, <5>1, <5>3 DEF ResultFollows
          <6> QED  BY <3>3, <6>1, <6>2, OneTell
        <5> QED  BY <2>2, <3>1, <5>1, <5>2, <5>3 DEF ResultFollows
      <4> QED  BY <4>1, <4>2 DEF BuildAlone
    <3> QED  BY <2>4, <3>2, <3>3 DEF SyncLauncherState
  <2>5. CASE CloseWorker(c)
    BY <1>0, <2>2, <2>5, BuildAside DEF CloseWorker, NoAbort, tasks
  <2>6. CASE m \in Aborts /\ FinishAbort(c, m)
    <3>1. pc' = pc \/ pc' = [pc EXCEPT ![m] = "xcodeLogs"]
      BY <2>6 DEF FinishAbort
    <3>2. m # "build"  BY <2>1, WorkerAssumption
    <3>3. pc'["build"] = pc["build"] /\ (NoAbort' => NoAbort)
      BY <2>6, <3>1, <3>2, TaskFacts DEF IInv, TypeOK, NoAbort
    <3> QED  BY <1>0, <2>2, <2>6, <3>3, BuildAside DEF FinishAbort, service
  <2> QED  BY <2>1, <2>3, <2>4, <2>5, <2>6 DEF HandleMessage
<1>2. CASE RunSend(c)
  <2> DEFINE s == Head(queue[c]).status
  <2>1. /\ UNCHANGED <<started, logs, process, status, pc, outcome>>
        /\ queue' = Rest(c) /\ told' \subseteq told \cup ({s} \cap Results)
    BY <1>2 DEF RunSend, service, tasks
  <2>2. IsSend(Head(queue[c]))  BY <1>2 DEF RunSend, IsSend
  <2>3. StartedOnce'  BY <2>1 DEF BuildAlone, StartedOnce
  <2>4. ASSUME NoAbort' PROVE LogsFollow' /\ ResultFollows'
    <3>1. LogsFollow /\ ResultFollows  BY <2>1, <2>4 DEF BuildAlone, NoAbort
    <3>2. LogsFollow'  BY <2>1, <3>1 DEF LogsFollow
    <3>3. ASSUME logs # "failed" PROVE s \in Results => s = outcome["build"]
      BY <1>0, <2>2, <3>1, <3>3, OneTail DEF ResultFollows, IInv, TypeOK
    <3> HIDE DEF s
    <3> QED  BY <1>0, <2>1, <3>1, <3>2, <3>3 DEF ResultFollows
  <2> QED  BY <2>3, <2>4 DEF BuildAlone
<1>3. CASE RunOnClose(c)
  <2>1. /\ UNCHANGED <<started, logs, status, told, pc, outcome>>
        /\ queue' = Rest(c) /\ (process' = process \/ process' = "exited")
    BY <1>3 DEF RunOnClose, tasks, history
  <2> QED
    BY <1>0, <2>1 DEF BuildAlone, StartedOnce, NoAbort, LogsFollow, ResultFollows
<1> QED  BY <1>1, <1>2, <1>3 DEF Drain

LEMMA StepAlone == IInv /\ BuildAlone /\ [Next]_vars => BuildAlone'
<1> SUFFICES ASSUME IInv, BuildAlone, [Next]_vars PROVE BuildAlone'  OBVIOUS
<1>1. ASSUME NEW c \in Conns, SocketStep(c) PROVE BuildAlone'
  BY <1>1, BuildAside, SocketQueues, SocketKeeps DEF NoAbort, history
<1>2. ASSUME NEW c \in Conns, Drain(c) PROVE BuildAlone'  BY <1>2, DrainAlone
<1>3. ASSUME process = "up", NEW t \in Tasks, TaskStep(t) PROVE BuildAlone'
  BY <1>3, TaskAlone
<1>4. CASE UNCHANGED vars
  BY <1>4
  DEF vars, service, tasks, history, BuildAlone, StartedOnce, NoAbort, LogsFollow, ResultFollows
<1> QED  BY <1>1, <1>2, <1>3, <1>4 DEF Next

LEMMA InitAlone == Init => BuildAlone
BY TaskFacts DEF Init, BuildAlone, StartedOnce, LogsFollow, ResultFollows, OneResult, Results

\* For any number of launchers and of messages: a build that no ABORT has reached
\* is told with one result, whoever is connected, and not before its log sinks
\* are closed, unless they failed to close.
THEOREM TellsOneResult == Spec => []OneResultTold
<1>1. IInv /\ BuildAlone => OneResultTold
  <2> SUFFICES ASSUME IInv, BuildAlone PROVE OneResultTold  OBVIOUS
  <2>1. ASSUME NoAbort, logs # "failed" PROVE Cardinality(told) <= 1
    <3>1. told = {} \/ told = {outcome["build"]}
      BY <2>1 DEF BuildAlone, ResultFollows
    <3>2. Cardinality({}) = 0 /\ Cardinality({outcome["build"]}) = 1
      BY FS_EmptySet, FS_Singleton
    <3> QED  BY <3>1, <3>2
  <2>2. ASSUME NoAbort, pc["build"] \in {"check", "over"}
        PROVE  logs \in {"absent", "clean", "failed"}
    BY <2>2 DEF BuildAlone, LogsFollow, IInv, TypeOK
  <2> QED  BY <2>1, <2>2 DEF OneResultTold, ToldOnce, ToldAfterLogs, NoAbort
<1>2. Spec => []BuildAlone
  BY Invariance, InitAlone, StepAlone, PTL DEF Spec
<1> QED  BY <1>1, <1>2, Invariance, PTL

-----------------------------------------------------------------------------
(* What the launcher that is connected knows.                              *)

\* An ABORT is in one place: with its launcher, in one queue, or handled.
Is(e, m)     == e.kind = "receive" /\ e.letter = m
In(q, m)     == \E i \in 1..Len(q) : Is(q[i], m)
Unique(q, m) == \A i, j \in 1..Len(q) : Is(q[i], m) /\ Is(q[j], m) => i = j

LettersOnce ==
  \A m \in Aborts :
    /\ \A c \in Conns : Unique(queue[c], m)
    /\ \A c, d \in Conns : In(queue[c], m) /\ In(queue[d], m) => c = d
    /\ m \in unsent => \A c \in Conns : ~In(queue[c], m)
    /\ pc[m] # "idle" => m \notin unsent /\ \A c \in Conns : ~In(queue[c], m)

\* What a launcher may have heard last: the state, or anything if a result is
\* about to be told.
Reporting == \E t \in Tasks : pc[t] \in {"hook", "flush", "cleanUp"}
Sayable   == IF Reporting THEN Statuses \cup {None} ELSE {None, "new", status}

\* The last thing that h, the one heard, and the queue q have to say is in S.
LastSaid(q, h, S) ==
  /\ (\A i \in 1..Len(q) : ~IsSend(q[i])) => h \in S
  /\ \A i \in 1..Len(q) :
       IsSend(q[i]) /\ (\A j \in 1..Len(q) : i < j => ~IsSend(q[j])) => q[i].status \in S

Untouched == \A c \in Conns : conn[c] = "new" => heard[c] = None /\ queue[c] = <<>> /\ ws # c

\* A result that nothing replaced is that of the task that reports it.
ResultKept ==
  ~replaced => /\ ~started => status # "in-progress"
               /\ \A t \in Tasks : outcome[t] \in Results => status = outcome[t]

Informed ==
  process = "up" /\ ~replaced =>
    \A c \in Conns : ws = c /\ conn[c] = "open" => LastSaid(queue[c], heard[c], Sayable)

LEMMA LettersAppend ==
  ASSUME NEW q \in Seq(Entries), NEW e \in Entries, NEW m
  PROVE  /\ ~Is(e, m) => /\ Unique(q, m) => Unique(Append(q, e), m)
                         /\ In(Append(q, e), m) => In(q, m)
         /\ ~In(q, m) => Unique(Append(q, e), m)
<1> DEFINE s == Append(q, e)
<1>1. /\ Len(s) = Len(q) + 1 /\ Len(q) \in Nat
      /\ \A i \in 1..Len(q) : s[i] = q[i]
      /\ s[Len(q) + 1] = e
  OBVIOUS
<1> HIDE DEF s
<1>2. \A i \in 1..Len(s) : i \in 1..Len(q) \/ i = Len(q) + 1  BY <1>1
<1>3. ASSUME ~Is(e, m) PROVE \A i \in 1..Len(s) : Is(s[i], m) => i \in 1..Len(q)
  BY <1>1, <1>2, <1>3
<1>4. ~Is(e, m) => (Unique(q, m) => Unique(s, m))  BY <1>1, <1>3 DEF Unique
<1>5. ~Is(e, m) => (In(s, m) => In(q, m))  BY <1>1, <1>3 DEF In
<1>6. ~In(q, m) => Unique(s, m)  BY <1>1, <1>2 DEF In, Unique
<1> QED  BY <1>4, <1>5, <1>6 DEF s

LEMMA LettersTail ==
  ASSUME NEW q \in Seq(Entries), q # <<>>, NEW m, Unique(q, m)
  PROVE  /\ Unique(Tail(q), m)
         /\ In(Tail(q), m) => In(q, m)
         /\ Is(Head(q), m) => In(q, m) /\ ~In(Tail(q), m)
<1> DEFINE s == Tail(q)
<1>1. /\ Head(q) = q[1] /\ Len(q) \in Nat \ {0} /\ Len(s) = Len(q) - 1
      /\ \A i \in 1..Len(s) : s[i] = q[i + 1]
  OBVIOUS
<1> HIDE DEF s
<1>2. 1 \in 1..Len(q) /\ \A i \in 1..Len(s) : i + 1 \in 1..Len(q) /\ i + 1 # 1
  BY <1>1
<1>3. Unique(s, m)
  <2> SUFFICES ASSUME NEW i \in 1..Len(s), NEW j \in 1..Len(s), Is(s[i], m), Is(s[j], m)
               PROVE  i = j
    BY DEF Unique
  <2>1. i + 1 = j + 1  BY <1>1, <1>2 DEF Unique
  <2> QED  BY <2>1
<1>4. In(s, m) => In(q, m)  BY <1>1, <1>2 DEF In
<1>5. ASSUME Is(Head(q), m) PROVE In(q, m) /\ ~In(s, m)
  BY <1>1, <1>2, <1>5 DEF In, Unique
<1> QED  BY <1>3, <1>4, <1>5 DEF s

\* The queues qs become rs, and no ABORT more is in them.
Fewer(qs, rs) ==
  \A m \in Aborts, d \in Conns : /\ Unique(qs[d], m) => Unique(rs[d], m)
                                 /\ In(rs[d], m) => In(qs[d], m)

LEMMA FewerTell ==
  ASSUME NEW qs \in [Conns -> Seq(Entries)], NEW s \in Statuses,
         ws \in Conns \cup {None}, Tell(qs, s)
  PROVE  Fewer(qs, queue')
<1>1. CASE ws = None  BY <1>1 DEF Tell, Fewer
<1>2. CASE ws # None
  <2>1. ws \in Conns /\ queue' = [qs EXCEPT ![ws] = Append(@, Send(s))]
    BY <1>2 DEF Tell
  <2>2. Send(s) \in Entries /\ \A m : ~Is(Send(s), m)  BY EntryKinds DEF Send, Is
  <2>3. \A m : /\ Unique(qs[ws], m) => Unique(Append(qs[ws], Send(s)), m)
               /\ In(Append(qs[ws], Send(s)), m) => In(qs[ws], m)
    BY <2>1, <2>2, LettersAppend
  <2> QED  BY <2>1, <2>3 DEF Fewer
<1> QED  BY <1>1, <1>2

LEMMA FewerRest ==
  ASSUME TypeOK, LettersOnce, NEW c \in Conns, queue[c] # <<>>
  PROVE  /\ Fewer(queue, Rest(c))
         /\ \A m \in Aborts : Is(Head(queue[c]), m) =>
              In(queue[c], m) /\ ~In(Rest(c)[c], m)
<1>1. Rest(c) = [queue EXCEPT ![c] = Tail(queue[c])] /\ queue[c] \in Seq(Entries)
  BY DEF Rest, TypeOK
<1>2. \A m \in Aborts : /\ Unique(Tail(queue[c]), m)
                        /\ In(Tail(queue[c]), m) => In(queue[c], m)
                        /\ Is(Head(queue[c]), m) => In(queue[c], m) /\ ~In(Tail(queue[c]), m)
  BY <1>1, LettersTail DEF LettersOnce
<1> QED  BY <1>1, <1>2 DEF Fewer, TypeOK

LEMMA FewerKeeps ==
  ASSUME LettersOnce, Fewer(queue, queue'), unsent' = unsent,
         \A m \in Aborts : pc'[m] # "idle" => pc[m] # "idle"
  PROVE  LettersOnce'
BY DEF LettersOnce, Fewer, Aborts

\* A task that has begun stays so, and no step but FinishAbort begins one.
LEMMA TaskLetters ==
  ASSUME IInv, NEW t \in Tasks, TaskStep(t)
  PROVE  /\ \A m \in Aborts : pc'[m] # "idle" => pc[m] # "idle"
         /\ unsent' = unsent
<1>1. pc[t] # "idle"
  BY DEF TaskStep, LoggerReady, ContextReady, BuildEnds, Abort, HookEnds, CleanUpLogs,
     LogsCleaned, LogsCleanUpThrows, HangCheck, At
<1>2. \E p \in PCs : pc' = [pc EXCEPT ![t] = p] \/ pc' = pc
  BY DEF TaskStep, LoggerReady, ContextReady, BuildEnds, Abort, HookEnds, CleanUpLogs,
     LogsCleaned, LogsCleanUpThrows, HangCheck, Finish, Report, GoTo, PCs, tasks
<1>3. unsent' = unsent
  BY DEF TaskStep, LoggerReady, ContextReady, BuildEnds, Abort, HookEnds, CleanUpLogs,
     LogsCleaned, LogsCleanUpThrows, HangCheck
<1> QED  BY <1>1, <1>2, <1>3, TaskFacts DEF IInv, TypeOK

\* What a task does to the queues: nothing, or it reports its result.
LEMMA TaskQueues ==
  ASSUME IInv, NEW t \in Tasks, TaskStep(t)
  PROVE  \/ queue' = queue
         \/ Report(t) /\ pc[t] \in {"flush", "cleanUp"} /\ outcome[t] \in Results
BY DEF TaskStep, LoggerReady, ContextReady, BuildEnds, Abort, HookEnds, CleanUpLogs,
   LogsCleaned, LogsCleanUpThrows, HangCheck, At, IInv, OutcomeKnown

LEMMA SocketLetters ==
  ASSUME IInv, LettersOnce, NEW c \in Conns, SocketStep(c)
  PROVE  LettersOnce'
<1>0. pc' = pc  BY SocketKeeps
<1>1. CASE UNCHANGED <<queue, unsent>>  BY <1>0, <1>1 DEF LettersOnce
<1>2. CASE CloseEvent(c)
  <2>1. \A m : ~Is(OnClose, m)  BY DEF Is, OnClose
  <2>2. \A m : /\ Unique(queue[c], m) => Unique(Append(queue[c], OnClose), m)
               /\ In(Append(queue[c], OnClose), m) => In(queue[c], m)
    BY <2>1, EntryKinds, LettersAppend DEF IInv, TypeOK
  <2>3. Fewer(queue, queue')
    BY <1>2, <2>2 DEF CloseEvent, Fewer, IInv, TypeOK
  <2> QED  BY <1>0, <1>2, <2>3, FewerKeeps DEF CloseEvent
<1>3. CASE SocketError(c)
  <2>1. \A m : Unique(<<>>, m) /\ ~In(<<>>, m)  BY DEF Unique, In
  <2>2. Fewer(queue, queue')
    BY <1>3, <2>1 DEF SocketError, Fewer, IInv, TypeOK
  <2> QED  BY <1>0, <1>3, <2>2, FewerKeeps DEF SocketError
<1>4. ASSUME NEW l \in Letters, LauncherSends(c, l) PROVE LettersOnce'
  <2>1. /\ l \in unsent /\ unsent' = unsent \ {l}
        /\ queue' = [queue EXCEPT ![c] = Append(queue[c], Receive(l))]
        /\ queue[c] \in Seq(Entries) /\ Receive(l) \in Entries
    BY <1>4, EntryKinds DEF LauncherSends, IInv, TypeOK
  <2>2. \A d \in Conns \ {c} : queue'[d] = queue[d]
    BY <2>1 DEF IInv, TypeOK
  <2>3. queue'[c] = Append(queue[c], Receive(l))  BY <2>1 DEF IInv, TypeOK
  <2>4. ASSUME NEW m \in Aborts \ {l}
        PROVE  /\ Unique(queue[c], m) => Unique(queue'[c], m)
               /\ In(queue'[c], m) => In(queue[c], m)
    <3>1. ~Is(Receive(l), m)  BY DEF Is, Receive
    <3> QED  BY <2>1, <2>3, <3>1, LettersAppend
  <2>5. l \in Aborts => Unique(queue'[c], l)
    BY <2>1, <2>3, LettersAppend DEF LettersOnce
  <2>6. SUFFICES ASSUME NEW m \in Aborts
        PROVE  /\ \A d \in Conns : Unique(queue'[d], m)
               /\ \A d, e \in Conns : In(queue'[d], m) /\ In(queue'[e], m) => d = e
               /\ m \in unsent' => \A d \in Conns : ~In(queue'[d], m)
               /\ pc'[m] # "idle" => m \notin unsent' /\ \A d \in Conns : ~In(queue'[d], m)
    BY DEF LettersOnce, Aborts
  <2>7. CASE m = l
    BY <1>0, <2>1, <2>2, <2>5, <2>7 DEF LettersOnce
  <2>8. CASE m # l
    <3>1. \A d \in Conns : Unique(queue'[d], m) /\ (In(queue'[d], m) => In(queue[d], m))
      BY <2>2, <2>4, <2>8 DEF LettersOnce
    <3> QED  BY <1>0, <2>1, <3>1 DEF LettersOnce
  <2> QED  BY <2>7, <2>8
<1> QED
  BY <1>1, <1>2, <1>3, <1>4
  DEF SocketStep, Connect, LauncherVanishes, LauncherCloses, CloseCompletes, PingTick, Pong

LEMMA DrainLetters ==
  ASSUME IInv, LettersOnce, NEW c \in Conns, Drain(c)
  PROVE  LettersOnce'
<1>0. /\ queue[c] # <<>> /\ Fewer(queue, Rest(c))
      /\ \A m \in Aborts : Is(Head(queue[c]), m) => In(queue[c], m) /\ ~In(Rest(c)[c], m)
  BY FewerRest DEF Drain, IInv
<1>1. CASE RunMessage(c)
  <2> DEFINE m == Head(queue[c]).letter
  <2>1. /\ m \in Letters /\ HandleMessage(c, m) /\ Is(Head(queue[c]), m)
        /\ unsent' = unsent
    BY <1>0, <1>1, RestQueues, EntryParts DEF IInv, RunMessage, Is
  <2> HIDE DEF m
  <2>2. CASE StartBuild(c, m)
    <3>1. pc' = pc \/ pc' = [pc EXCEPT !["build"] = "setUp"]
      BY <2>2 DEF StartBuild
    <3>2. \A a \in Aborts : pc'[a] = pc[a]
      <4>1. \A a \in Aborts : a \in Tasks /\ a # "build"
        BY TaskFacts, WorkerAssumption
      <4>2. pc \in [Tasks -> PCs]  BY DEF IInv, TypeOK
      <4> QED  BY <3>1, <4>1, <4>2
    <3> QED  BY <1>0, <2>1, <2>2, <3>2, FewerKeeps DEF StartBuild
  <2>3. CASE SyncLauncherState(c, m)
    <3>1. pc' = pc  BY <2>3 DEF SyncLauncherState, tasks
    <3>2. CASE queue' = Rest(c)  BY <1>0, <2>1, <3>1, <3>2, FewerKeeps
    <3>3. CASE Tell(Rest(c), status)
      <4>1. Fewer(Rest(c), queue')
        BY <1>0, <3>3, RestQueues, FewerTell DEF IInv, TypeOK
      <4>2. Fewer(queue, queue')  BY <1>0, <4>1 DEF Fewer
      <4> QED  BY <2>1, <3>1, <4>2, FewerKeeps
    <3> QED  BY <2>3, <3>2, <3>3 DEF SyncLauncherState
  <2>4. CASE CloseWorker(c)
    BY <1>0, <2>1, <2>4, FewerKeeps DEF CloseWorker, tasks
  <2>5. CASE m \in Aborts /\ FinishAbort(c, m)
    <3>1. queue' = Rest(c) /\ (pc' = pc \/ pc' = [pc EXCEPT ![m] = "xcodeLogs"])
      BY <2>5 DEF FinishAbort
    <3>2. \A a \in Aborts \ {m} : pc'[a] = pc[a]
      <4>1. Aborts \subseteq Tasks  BY TaskFacts
      <4>2. pc \in [Tasks -> PCs]  BY DEF IInv, TypeOK
      <4> QED  BY <3>1, <4>1, <4>2
    <3>3. m \notin unsent /\ \A d \in Conns : ~In(queue'[d], m)
      BY <1>0, <2>1, <2>5, <3>1 DEF LettersOnce, Fewer
    <3> QED  BY <1>0, <2>1, <3>1, <3>2, <3>3 DEF LettersOnce, Fewer, Aborts
  <2> QED  BY <2>1, <2>2, <2>3, <2>4, <2>5 DEF HandleMessage
<1>2. CASE RunSend(c)
  BY <1>0, <1>2, FewerKeeps DEF RunSend, tasks
<1>3. CASE RunOnClose(c)
  BY <1>0, <1>3, FewerKeeps DEF RunOnClose, tasks
<1> QED  BY <1>1, <1>2, <1>3 DEF Drain

LEMMA StepLetters == IInv /\ LettersOnce /\ [Next]_vars => LettersOnce'
<1> SUFFICES ASSUME IInv, LettersOnce, [Next]_vars PROVE LettersOnce'  OBVIOUS
<1>1. ASSUME NEW t \in Tasks, TaskStep(t) PROVE LettersOnce'
  <2>1. CASE queue' = queue  BY <1>1, <2>1, TaskLetters, FewerKeeps DEF Fewer
  <2>2. CASE Report(t) /\ outcome[t] \in Results
    <3>1. Fewer(queue, queue')
      BY <2>2, TaskFacts, FewerTell DEF Report, IInv, TypeOK
    <3> QED  BY <1>1, <3>1, TaskLetters, FewerKeeps
  <2> QED  BY <1>1, <2>1, <2>2, TaskQueues
<1>2. CASE UNCHANGED vars  BY <1>2, FewerKeeps DEF vars, tasks, Fewer
<1> QED  BY <1>1, <1>2, SocketLetters, DrainLetters DEF Next

LEMMA InitLetters == Init => LettersOnce
<1>1. \A m : Unique(<<>>, m) /\ ~In(<<>>, m)  BY DEF Unique, In
<1> QED  BY <1>1, TaskFacts DEF Init, LettersOnce

LEMMA LastAppend ==
  ASSUME NEW q \in Seq(Entries), NEW e \in Entries, NEW h, NEW S
  PROVE  /\ ~IsSend(e) /\ LastSaid(q, h, S) => LastSaid(Append(q, e), h, S)
         /\ IsSend(e) /\ e.status \in S => LastSaid(Append(q, e), h, S)
<1> DEFINE s == Append(q, e)
<1>1. /\ Len(s) = Len(q) + 1 /\ Len(q) \in Nat
      /\ \A i \in 1..Len(q) : s[i] = q[i] /\ i \in 1..Len(s) /\ i < Len(s)
      /\ s[Len(s)] = e /\ Len(s) \in 1..Len(s)
  OBVIOUS
<1> HIDE DEF s
<1>2. \A i \in 1..Len(s) : i \in 1..Len(q) \/ i = Len(s)  BY <1>1
<1>3. ASSUME ~IsSend(e), LastSaid(q, h, S) PROVE LastSaid(s, h, S)
  <2>1. ASSUME \A i \in 1..Len(s) : ~IsSend(s[i]) PROVE h \in S
    BY <1>1, <1>3, <2>1 DEF LastSaid
  <2>2. ASSUME NEW i \in 1..Len(s), IsSend(s[i]),
               \A j \in 1..Len(s) : i < j => ~IsSend(s[j])
        PROVE  s[i].status \in S
    <3>1. i \in 1..Len(q) /\ s[i] = q[i]  BY <1>1, <1>2, <1>3, <2>2
    <3>2. \A j \in 1..Len(q) : i < j => ~IsSend(q[j])  BY <1>1, <2>2
    <3> QED  BY <1>3, <2>2, <3>1, <3>2 DEF LastSaid
  <2> QED  BY <2>1, <2>2 DEF LastSaid
<1>4. ASSUME IsSend(e), e.status \in S PROVE LastSaid(s, h, S)
  <2>1. ~\A i \in 1..Len(s) : ~IsSend(s[i])  BY <1>1, <1>4
  <2>2. ASSUME NEW i \in 1..Len(s), \A j \in 1..Len(s) : i < j => ~IsSend(s[j])
        PROVE  i = Len(s)
    BY <1>1, <1>2, <1>4, <2>2
  <2> QED  BY <1>1, <1>4, <2>1, <2>2 DEF LastSaid
<1> QED  BY <1>3, <1>4 DEF s

LEMMA LastTail ==
  ASSUME NEW q \in Seq(Entries), q # <<>>, NEW h, NEW S, LastSaid(q, h, S)
  PROVE  LastSaid(Tail(q), IF IsSend(Head(q)) THEN Head(q).status ELSE h, S)
<1> DEFINE s == Tail(q)
           g == IF IsSend(Head(q)) THEN Head(q).status ELSE h
<1>1. /\ Head(q) = q[1] /\ Len(q) \in Nat \ {0} /\ Len(s) = Len(q) - 1
      /\ \A i \in 1..Len(s) : s[i] = q[i + 1] /\ i + 1 \in 1..Len(q)
      /\ 1 \in 1..Len(q)
  OBVIOUS
<1> HIDE DEF s
<1>2. \A j \in 1..Len(q) : j = 1 \/ (j - 1 \in 1..Len(s) /\ s[j - 1] = q[j])
  <2> SUFFICES ASSUME NEW j \in 1..Len(q), j # 1
               PROVE  j - 1 \in 1..Len(s) /\ s[j - 1] = q[j]
    OBVIOUS
  <2>1. j - 1 \in 1..Len(s) /\ (j - 1) + 1 = j  BY <1>1
  <2> QED  BY <1>1, <2>1
<1>3. ASSUME \A i \in 1..Len(s) : ~IsSend(s[i]) PROVE g \in S
  <2>1. \A j \in 1..Len(q) : j # 1 => ~IsSend(q[j])  BY <1>2, <1>3
  <2>2. CASE IsSend(q[1])
    <3>1. \A j \in 1..Len(q) : 1 < j => ~IsSend(q[j])  BY <2>1
    <3> QED  BY <1>1, <2>2, <3>1 DEF LastSaid
  <2>3. CASE ~IsSend(q[1])  BY <1>1, <2>1, <2>3 DEF LastSaid
  <2> QED  BY <2>2, <2>3
<1>4. ASSUME NEW i \in 1..Len(s), IsSend(s[i]), \A j \in 1..Len(s) : i < j => ~IsSend(s[j])
      PROVE  s[i].status \in S
  <2>1. \A j \in 1..Len(q) : i + 1 < j => ~IsSend(q[j])
    <3> SUFFICES ASSUME NEW j \in 1..Len(q), i + 1 < j PROVE ~IsSend(q[j])
      OBVIOUS
    <3>1. j # 1 /\ i < j - 1  BY <1>1
    <3> QED  BY <1>2, <1>4, <3>1
  <2> QED  BY <1>1, <1>4, <2>1 DEF LastSaid
<1> HIDE DEF g
<1>5. LastSaid(s, g, S)  BY <1>3, <1>4 DEF LastSaid
<1> QED  BY <1>5 DEF s, g

LEMMA LastMore ==
  ASSUME NEW q, NEW h, NEW S, NEW T, S \subseteq T, LastSaid(q, h, S)
  PROVE  LastSaid(q, h, T)
BY DEF LastSaid

\* ws.send: what it sends is the last thing that the launcher hears.
LEMMA LastTell ==
  ASSUME NEW qs \in [Conns -> Seq(Entries)], NEW s \in Statuses,
         ws \in Conns, Tell(qs, s), NEW h, NEW S, s \in S
  PROVE  LastSaid(queue'[ws], h, S)
<1>1. queue' = [qs EXCEPT ![ws] = Append(@, Send(s))]
  BY WorkerAssumption DEF Tell
<1>2. Send(s) \in Entries /\ IsSend(Send(s)) /\ Send(s).status = s
  BY EntryKinds DEF Send, IsSend
<1>3. LastSaid(Append(qs[ws], Send(s)), h, S)  BY <1>2, LastAppend
<1> QED  BY <1>1, <1>3

\* A step after which no launcher is newly connected, nor anything newly sent to
\* the one that is, and what may be said remains so.
LEMMA InformedAside ==
  ASSUME Informed, process = "up", replaced => replaced',
         process' = "up" /\ ~replaced' => Sayable \subseteq Sayable',
         \A c \in Conns : ws' = c /\ conn'[c] = "open" =>
           /\ ws = c /\ conn[c] = "open"
           /\ \A S : LastSaid(queue[c], heard[c], S) => LastSaid(queue'[c], heard'[c], S)
  PROVE  Informed'
<1> SUFFICES ASSUME process' = "up", ~replaced', NEW c \in Conns, ws' = c, conn'[c] = "open"
             PROVE  LastSaid(queue'[c], heard'[c], Sayable')
  BY DEF Informed
<1>1. LastSaid(queue'[c], heard'[c], Sayable)  BY DEF Informed
<1> QED  BY <1>1, LastMore

\* Whatever may be said is a status, or nothing said at all.
LEMMA SayableTypes == TypeOK => Sayable \subseteq Statuses \cup {None}
BY DEF Sayable, TypeOK, Statuses

LEMMA SocketInformed ==
  ASSUME IInv, Untouched, Informed, process = "up", NEW c \in Conns, SocketStep(c)
  PROVE  Untouched' /\ Informed'
<1>0. /\ UNCHANGED <<status, pc, process, heard, replaced>>
      /\ \A d \in Conns : queue[d] \in Seq(Entries)
  BY SocketKeeps DEF history, IInv, TypeOK
<1>1. Sayable' = Sayable  BY <1>0 DEF Sayable, Reporting
<1>2. CASE Connect(c)
  <2>1. CASE ws # None
    <3>1. /\ UNCHANGED <<ws, queue>> /\ conn' = [conn EXCEPT ![c] = "refused"]
      BY <1>2, <2>1 DEF Connect
    <3> QED
      BY <1>0, <1>1, <3>1, InformedAside DEF Untouched, IInv, TypeOK
  <2>2. CASE ws = None
    <3>1. /\ queue' = queue /\ ws' = c /\ conn[c] = "new"
          /\ conn' = [conn EXCEPT ![c] = "open"]
      BY <1>2, <2>2 DEF Connect
    <3>2. LastSaid(queue'[c], heard'[c], Sayable')
      BY <1>0, <1>1, <3>1 DEF Untouched, LastSaid, Sayable
    <3> QED  BY <1>0, <3>1, <3>2 DEF Untouched, Informed, IInv, TypeOK
  <2> QED  BY <2>1, <2>2
<1>3. CASE CloseEvent(c) /\ conn[c] # "new"
  <2>1. /\ ws' = ws /\ conn' = [conn EXCEPT ![c] = "closed"]
        /\ \A d \in Conns \ {c} : queue'[d] = queue[d]
    BY <1>3 DEF CloseEvent, service, IInv, TypeOK
  <2> QED  BY <1>0, <1>1, <1>3, <2>1, InformedAside DEF Untouched, IInv, TypeOK
<1>4. CASE SocketError(c)
  <2>1. /\ ws' = ws /\ conn' = [conn EXCEPT ![c] = "closing"] /\ conn[c] = "open"
        /\ \A d \in Conns \ {c} : queue'[d] = queue[d]
    BY <1>4 DEF SocketError, service, IInv, TypeOK
  <2> QED  BY <1>0, <1>1, <2>1, InformedAside DEF Untouched, IInv, TypeOK
<1>5. CASE UNCHANGED <<queue, ws>> /\ (conn' = conn \/ (conn[c] # "new" /\ conn' = [conn EXCEPT ![c] = "dead"]))
  BY <1>0, <1>1, <1>5, InformedAside DEF Untouched, IInv, TypeOK
<1>6. ASSUME NEW m \in Letters, LauncherSends(c, m) PROVE Untouched' /\ Informed'
  <2>1. /\ UNCHANGED <<conn, ws>> /\ conn[c] # "new"
        /\ queue' = [queue EXCEPT ![c] = Append(queue[c], Receive(m))]
    BY <1>6 DEF LauncherSends, sockets, service
  <2>2. ~IsSend(Receive(m))  BY DEF IsSend, Receive
  <2>3. \A S : LastSaid(queue[c], heard[c], S) => LastSaid(Append(queue[c], Receive(m)), heard[c], S)
    BY <1>0, <2>2, EntryKinds, LastAppend
  <2>4. \A d \in Conns : \A S : LastSaid(queue[d], heard[d], S) => LastSaid(queue'[d], heard'[d], S)
    BY <1>0, <2>1, <2>3 DEF IInv, TypeOK
  <2>5. Informed'  BY <1>0, <1>1, <2>1, <2>4, InformedAside
  <2>6. Untouched'  BY <1>0, <2>1 DEF Untouched, IInv, TypeOK
  <2> QED  BY <2>5, <2>6
<1> QED
  BY <1>2, <1>3, <1>4, <1>5, <1>6
  DEF SocketStep, LauncherVanishes, LauncherCloses, CloseCompletes, PingTick, Pong, service

LEMMA UntouchedAside ==
  ASSUME Untouched, ws' = ws \/ ws' = None,
         \A d \in Conns : conn'[d] = "new" => /\ conn[d] = "new" /\ heard'[d] = heard[d]
                                              /\ queue'[d] = queue[d]
  PROVE  Untouched'
BY WorkerAssumption DEF Untouched

\* ws.send reaches no socket but the one that the service answers on.
LEMMA TellOne ==
  ASSUME NEW qs \in [Conns -> Seq(Entries)], NEW s, Tell(qs, s), NEW d \in Conns, d # ws
  PROVE  queue'[d] = qs[d]
BY DEF Tell

\* Recording a result is safe for what is known of it: either nothing was
\* recorded before, or a result is replaced.
LEMMA FinishKept ==
  ASSUME IInv, ResultKept, NEW t \in Tasks, NEW r \in Results, NEW p, Finish(t, r, p)
  PROVE  ResultKept'
<1> SUFFICES ASSUME ~replaced' PROVE /\ ~started' => status' # "in-progress"
                                     /\ \A u \in Tasks : outcome'[u] \in Results => status' = outcome'[u]
  BY DEF ResultKept
<1>1. ~replaced /\ status \notin Results /\ status' = r
  BY DEF Finish, SetStatus
<1>2. \A u \in Tasks : outcome[u] \notin Results  BY <1>1 DEF ResultKept
<1>3. outcome' = [outcome EXCEPT ![t] = r] /\ outcome \in [Tasks -> Results \cup {None}]
  BY DEF Finish, IInv, TypeOK
<1>4. \A u \in Tasks : outcome'[u] \in Results => u = t  BY <1>2, <1>3
<1>5. r # "in-progress"  BY DEF Results
<1> QED  BY <1>1, <1>3, <1>4, <1>5

LEMMA FinishReports ==
  ASSUME IInv, NEW t \in Tasks, NEW r \in Results, NEW p \in {"hook", "flush"}, Finish(t, r, p)
  PROVE  Reporting' /\ (replaced => replaced')
<1>1. pc' = [pc EXCEPT ![t] = p] /\ pc \in [Tasks -> PCs]  BY DEF Finish, GoTo, IInv, TypeOK
<1>2. pc'[t] = p  BY <1>1
<1> QED  BY <1>2 DEF Reporting, Finish, SetStatus

\* What a task does: nothing that a launcher could notice, a result recorded or
\* yet to report, or the report.
LEMMA TaskKinds ==
  ASSUME IInv, ResultKept, NEW t \in Tasks, TaskStep(t)
  PROVE  /\ UNCHANGED <<conn, ws, heard>> /\ (replaced => replaced') /\ ResultKept'
         /\ \/ queue' = queue /\ (process' # "up" \/ Reporting')
            \/ queue' = queue /\ status' = status /\ (Reporting => Reporting')
            \/ /\ Report(t) /\ outcome[t] \in Results
               /\ UNCHANGED <<status, replaced>>
<1> USE TaskFacts
<1>0. UNCHANGED <<conn, ws, heard, started>>
  BY DEF TaskStep, LoggerReady, ContextReady, BuildEnds, Abort, HookEnds, CleanUpLogs,
     LogsCleaned, LogsCleanUpThrows, HangCheck, sockets, service, history
<1>1. ASSUME NEW r \in Results, NEW p \in {"hook", "flush"}, Finish(t, r, p), queue' = queue
      PROVE  /\ (replaced => replaced') /\ ResultKept' /\ Reporting'
  BY <1>1, FinishKept, FinishReports
<1>2. ASSUME NEW p \in PCs, pc[t] \notin {"hook", "flush", "cleanUp"}, GoTo(t, p),
             UNCHANGED <<queue, status, replaced, outcome>>
      PROVE  (replaced => replaced') /\ ResultKept' /\ (Reporting => Reporting')
  BY <1>0, <1>2 DEF ResultKept, Reporting, GoTo, IInv, TypeOK
<1>3. ASSUME NEW p \in {"flush", "cleanUp"}, GoTo(t, p),
             UNCHANGED <<queue, status, replaced, outcome>>
      PROVE  (replaced => replaced') /\ ResultKept' /\ Reporting'
  <2>1. pc'[t] = p  BY <1>3 DEF GoTo, IInv, TypeOK
  <2> QED  BY <1>0, <1>3, <2>1 DEF ResultKept, Reporting
<1>4. ASSUME Report(t), pc[t] \in {"flush", "cleanUp"}, UNCHANGED <<status, replaced>>
      PROVE  (replaced => replaced') /\ ResultKept' /\ outcome[t] \in Results
  BY <1>0, <1>4 DEF ResultKept, Report, IInv, OutcomeKnown
<1>5. CASE t = "build" /\ LoggerReady
  BY <1>0, <1>1, <1>2, <1>5 DEF LoggerReady, At, PCs, Results
<1>6. CASE t = "build" /\ ContextReady
  BY <1>0, <1>1, <1>2, <1>6 DEF ContextReady, At, PCs, Results
<1>7. CASE t = "build" /\ BuildEnds
  <2>1. PICK r \in {"success", "error"} : Finish("build", r, "flush")
    BY <1>7 DEF BuildEnds
  <2> QED  BY <1>0, <1>1, <1>7, <2>1 DEF BuildEnds, Results
<1>8. CASE t \in Aborts /\ Abort(t)
  <2>1. PICK p \in {"flush", "hook"} : Finish(t, "aborted", p)
    BY <1>8 DEF Abort
  <2> QED  BY <1>0, <1>1, <1>8, <2>1 DEF Abort, Results
<1>9. CASE t \in Aborts /\ HookEnds(t)
  BY <1>0, <1>3, <1>9 DEF HookEnds, service, history
<1>10. CASE CleanUpLogs(t)
  BY <1>0, <1>3, <1>4, <1>10 DEF CleanUpLogs, At, service, history
<1>11. CASE LogsCleaned(t)
  BY <1>0, <1>4, <1>11 DEF LogsCleaned, At, service, history
<1>12. CASE LogsCleanUpThrows(t)
  <2>1. CASE Finish(t, "error", "flush")
    BY <1>0, <1>1, <1>12, <2>1 DEF LogsCleanUpThrows, Results
  <2>2. CASE process' = "crashed" /\ UNCHANGED <<status, replaced, tasks>>
    BY <1>0, <1>12, <2>2 DEF LogsCleanUpThrows, tasks, ResultKept
  <2> QED  BY <1>12, <2>1, <2>2 DEF LogsCleanUpThrows
<1>13. CASE HangCheck(t)
  BY <1>0, <1>2, <1>13 DEF HangCheck, At, PCs, service, history
<1> QED
  BY <1>5, <1>6, <1>7, <1>8, <1>9, <1>10, <1>11, <1>12, <1>13 DEF TaskStep

LEMMA TaskInformed ==
  ASSUME IInv, ResultKept, Untouched, Informed, process = "up", NEW t \in Tasks, TaskStep(t)
  PROVE  Untouched' /\ Informed'
<1>1. /\ UNCHANGED <<conn, ws, heard>> /\ (replaced => replaced')
  BY TaskKinds
<1>2. CASE queue' = queue /\ (process' # "up" \/ Reporting')
  <2>1. process' = "up" => Sayable \subseteq Sayable'
    BY <1>2, SayableTypes DEF Sayable, IInv
  <2> QED  BY <1>1, <1>2, <2>1, InformedAside, UntouchedAside
<1>3. CASE queue' = queue /\ status' = status /\ (Reporting => Reporting')
  <2>1. Sayable \subseteq Sayable'
    BY <1>3, SayableTypes DEF Sayable, IInv
  <2> QED  BY <1>1, <1>3, <2>1, InformedAside, UntouchedAside
<1>4. CASE Report(t) /\ outcome[t] \in Results /\ UNCHANGED <<status, replaced>>
  <2>1. Tell(queue, outcome[t]) /\ queue \in [Conns -> Seq(Entries)] /\ outcome[t] \in Statuses
    BY <1>4, TaskFacts DEF Report, IInv, TypeOK
  <2>2. \A d \in Conns : conn'[d] = "new" => queue'[d] = queue[d]
    BY <1>1, <2>1, TellOne DEF Untouched
  <2>3. Untouched'  BY <1>1, <2>2, UntouchedAside
  <2>4. SUFFICES ASSUME ~replaced', NEW c \in Conns, ws' = c
                 PROVE  LastSaid(queue'[c], heard'[c], Sayable')
    BY <2>3 DEF Informed
  <2>5. outcome[t] = status  BY <1>4, <2>4 DEF ResultKept
  <2>6. outcome[t] \in Sayable'  BY <1>4, <2>1, <2>5 DEF Sayable
  <2> QED  BY <1>1, <2>1, <2>4, <2>6, LastTell
<1> QED  BY <1>2, <1>3, <1>4, TaskKinds

\* A step of drainQueue takes its socket's head away, and may answer.
LEMMA RestInformed ==
  ASSUME IInv, NEW c \in Conns, queue[c] # <<>>
  PROVE  /\ \A d \in Conns \ {c} : Rest(c)[d] = queue[d]
         /\ \A h, S : LastSaid(queue[c], h, S) =>
              LastSaid(Rest(c)[c], IF IsSend(Head(queue[c])) THEN Head(queue[c]).status ELSE h, S)
<1>1. queue[c] \in Seq(Entries) /\ Rest(c) = [queue EXCEPT ![c] = Tail(queue[c])]
  BY DEF IInv, TypeOK, Rest
<1> QED  BY <1>1, LastTail DEF IInv, TypeOK

LEMMA MessageInformed ==
  ASSUME IInv, LettersOnce, ResultKept, Untouched, Informed, process = "up",
         NEW c \in Conns, queue[c] # <<>>, RunMessage(c)
  PROVE  ResultKept' /\ Untouched' /\ Informed'
<1> DEFINE m == Head(queue[c]).letter
<1>1. /\ m \in Letters /\ HandleMessage(c, m) /\ Is(Head(queue[c]), m)
      /\ ~IsSend(Head(queue[c])) /\ UNCHANGED <<heard, process>>
  BY RestQueues, EntryParts DEF IInv, RunMessage, Is, IsSend
<1>2. \A d \in Conns : /\ \A S : LastSaid(queue[d], heard[d], S) => LastSaid(Rest(c)[d], heard[d], S)
                       /\ conn[d] = "new" => d # c /\ d # ws /\ Rest(c)[d] = queue[d]
  BY <1>1, RestInformed DEF Untouched
<1>3. \A a \in Aborts : Is(Head(queue[c]), a) => In(queue[c], a)
  BY FewerRest DEF IInv
<1> HIDE DEF m
<1>4. CASE StartBuild(c, m)
  <2>1. queue' = Rest(c) /\ UNCHANGED <<conn, ws, outcome>>  BY <1>4 DEF StartBuild
  <2>2. Untouched'  BY <1>1, <1>2, <2>1, UntouchedAside
  <2>3. CASE UNCHANGED <<started, status, replaced, pc>>
    <3>1. ResultKept'  BY <2>1, <2>3 DEF ResultKept
    <3>2. Sayable' = Sayable  BY <2>3 DEF Sayable, Reporting
    <3> QED  BY <1>1, <1>2, <2>1, <2>2, <2>3, <3>1, <3>2, InformedAside
  <2>4. CASE /\ ~started /\ started' = TRUE /\ SetStatus("in-progress")
             /\ pc' = [pc EXCEPT !["build"] = "setUp"]
    <3>1. ~replaced' => /\ ~replaced /\ status \notin Results /\ status # "in-progress"
                        /\ \A t \in Tasks : outcome[t] \notin Results
      BY <2>4 DEF SetStatus, ResultKept
    <3>2. ResultKept'  BY <2>1, <2>4, <3>1 DEF ResultKept
    <3>3. ~replaced' => Sayable \subseteq Sayable'
      <4>1. ~replaced' => ~Reporting  BY <3>1 DEF Reporting, IInv, OutcomeKnown
      <4>2. ~replaced' => status = "new"  BY <3>1 DEF IInv, TypeOK, Statuses
      <4> QED  BY <4>1, <4>2 DEF Sayable, Statuses
    <3>4. replaced => replaced'  BY <2>4 DEF SetStatus
    <3> QED  BY <1>1, <1>2, <2>1, <2>2, <3>2, <3>3, <3>4, InformedAside
  <2> QED  BY <1>4, <2>3, <2>4 DEF StartBuild
<1>5. CASE SyncLauncherState(c, m)
  <2>1. UNCHANGED <<conn, ws, status, started, pc, outcome, replaced>>
    BY <1>5 DEF SyncLauncherState, service, tasks
  <2>2. ResultKept'  BY <2>1 DEF ResultKept
  <2>3. Sayable' = Sayable  BY <2>1 DEF Sayable, Reporting
  <2>4. CASE queue' = Rest(c)
    BY <1>1, <1>2, <2>1, <2>2, <2>3, <2>4, InformedAside, UntouchedAside
  <2>5. CASE Tell(Rest(c), status)
    <3>1. Rest(c) \in [Conns -> Seq(Entries)] /\ status \in Statuses
      BY RestQueues DEF IInv, TypeOK
    <3>2. \A d \in Conns : conn'[d] = "new" => queue'[d] = queue[d]
      BY <1>2, <2>1, <2>5, <3>1, TellOne
    <3>3. Untouched'  BY <1>1, <2>1, <3>2, UntouchedAside
    <3>4. status \in Sayable'  BY <2>3, <3>1 DEF Sayable
    <3>5. \A d \in Conns : ws' = d => LastSaid(queue'[d], heard'[d], Sayable')
      BY <2>1, <2>5, <3>1, <3>4, LastTell
    <3> QED  BY <2>2, <3>3, <3>5 DEF Informed
  <2> QED  BY <1>5, <2>4, <2>5 DEF SyncLauncherState
<1>6. CASE CloseWorker(c)
  <2>1. /\ queue' = Rest(c) /\ ws' = None
        /\ UNCHANGED <<status, started, replaced, outcome>>
        /\ \A d \in Conns : conn'[d] = "new" => conn[d] = "new"
    BY <1>6 DEF CloseWorker, tasks
  <2>2. Untouched'  BY <1>1, <1>2, <2>1, UntouchedAside
  <2>3. ResultKept'  BY <2>1 DEF ResultKept
  <2>4. Informed'  BY <2>1, WorkerAssumption DEF Informed
  <2> QED  BY <2>2, <2>3, <2>4
<1>7. CASE m \in Aborts /\ FinishAbort(c, m)
  <2>1. /\ queue' = Rest(c) /\ UNCHANGED <<conn, ws, status, started, outcome, replaced>>
        /\ pc' = pc \/ pc' = [pc EXCEPT ![m] = "xcodeLogs"]
    BY <1>7 DEF FinishAbort, service
  <2>2. pc[m] = "idle"  BY <1>1, <1>3, <1>7 DEF LettersOnce
  <2>3. Reporting' <=> Reporting
    <3>1. \A t \in Tasks : t # m => pc'[t] = pc[t]
      BY <2>1 DEF IInv, TypeOK
    <3>2. pc'[m] \in {"idle", "xcodeLogs"}
      BY <1>7, <2>1, <2>2, TaskFacts DEF IInv, TypeOK
    <3> QED  BY <2>2, <3>1, <3>2 DEF Reporting
  <2>4. Sayable' = Sayable  BY <2>1, <2>3 DEF Sayable
  <2>5. ResultKept'  BY <2>1 DEF ResultKept
  <2> QED  BY <1>1, <1>2, <2>1, <2>4, <2>5, InformedAside, UntouchedAside
<1> QED  BY <1>1, <1>4, <1>5, <1>6, <1>7 DEF HandleMessage

LEMMA DrainInformed ==
  ASSUME IInv, LettersOnce, ResultKept, Untouched, Informed, process = "up",
         NEW c \in Conns, Drain(c)
  PROVE  ResultKept' /\ Untouched' /\ Informed'
<1>0. queue[c] # <<>>  BY DEF Drain
<1>1. CASE RunMessage(c)  BY <1>0, <1>1, MessageInformed
<1>2. CASE RunSend(c)
  <2>1. /\ UNCHANGED <<conn, ws, status, started, pc, outcome, replaced>>
        /\ queue' = Rest(c) /\ IsSend(Head(queue[c]))
        /\ conn[c] = "open" => heard' = [heard EXCEPT ![c] = Head(queue[c]).status]
        /\ conn[c] # "open" => heard' = heard
    BY <1>2 DEF RunSend, sockets, service, tasks, IsSend
  <2>2. \A d \in Conns \ {c} : queue'[d] = queue[d] /\ heard'[d] = heard[d]
    BY <1>0, <2>1, RestInformed DEF IInv, TypeOK
  <2>3. conn[c] # "new"  BY <1>0 DEF Untouched
  <2>4. conn[c] = "open" =>
          \A S : LastSaid(queue[c], heard[c], S) => LastSaid(queue'[c], heard'[c], S)
    <3> SUFFICES ASSUME conn[c] = "open", NEW S, LastSaid(queue[c], heard[c], S)
                 PROVE  LastSaid(queue'[c], heard'[c], S)
      OBVIOUS
    <3>1. heard'[c] = Head(queue[c]).status  BY <2>1 DEF IInv, TypeOK
    <3> QED  BY <1>0, <2>1, <3>1, RestInformed
  <2>5. Sayable' = Sayable  BY <2>1 DEF Sayable, Reporting
  <2>6. Untouched'  BY <2>1, <2>2, <2>3, UntouchedAside
  <2>7. Informed'  BY <2>1, <2>2, <2>4, <2>5, InformedAside
  <2>8. ResultKept'  BY <2>1 DEF ResultKept
  <2> QED  BY <2>6, <2>7, <2>8
<1>3. CASE RunOnClose(c)
  <2>1. /\ UNCHANGED <<conn, heard, status, started, pc, outcome, replaced>>
        /\ queue' = Rest(c)
        /\ (process' = "exited" /\ ws' = ws) \/ ws' = None
    BY <1>3 DEF RunOnClose, sockets, tasks, history
  <2>2. \A d \in Conns : conn[d] = "new" => queue'[d] = queue[d]
    BY <1>0, <2>1, RestInformed DEF Untouched
  <2>3. Untouched'  BY <2>1, <2>2, UntouchedAside
  <2>4. Informed'  BY <2>1, WorkerAssumption DEF Informed
  <2>5. ResultKept'  BY <2>1 DEF ResultKept
  <2> QED  BY <2>3, <2>4, <2>5
<1> QED  BY <1>1, <1>2, <1>3 DEF Drain

\* What is known of the launcher that is connected, as one invariant.
Knows == LettersOnce /\ Untouched /\ ResultKept /\ Informed

LEMMA StepKnows == IInv /\ Knows /\ [Next]_vars => Knows'
<1> SUFFICES ASSUME IInv, Knows, [Next]_vars PROVE Knows'  OBVIOUS
<1>0. LettersOnce'  BY StepLetters DEF Knows
<1>1. ASSUME process = "up", NEW c \in Conns, SocketStep(c)
      PROVE  Untouched' /\ ResultKept' /\ Informed'
  <2>1. Untouched' /\ Informed'  BY <1>1, SocketInformed DEF Knows
  <2>2. UNCHANGED <<status, started, outcome, replaced>>
    BY <1>1, SocketKeeps DEF history
  <2>3. ResultKept'  BY <2>2 DEF Knows, ResultKept
  <2> QED  BY <2>1, <2>3
<1>2. ASSUME process = "up", NEW c \in Conns, Drain(c)
      PROVE  Untouched' /\ ResultKept' /\ Informed'
  BY <1>2, DrainInformed DEF Knows
<1>3. ASSUME process = "up", NEW t \in Tasks, TaskStep(t)
      PROVE  Untouched' /\ ResultKept' /\ Informed'
  BY <1>3, TaskInformed, TaskKinds DEF Knows
<1>4. CASE UNCHANGED vars
  <2>1. UNCHANGED <<conn, queue, ws, status, started, pc, outcome, process, heard, replaced>>
    BY <1>4 DEF vars, sockets, service, tasks, history
  <2>2. Sayable' = Sayable  BY <2>1 DEF Sayable, Reporting
  <2>3. Informed'  BY <2>1, <2>2 DEF Knows, Informed
  <2>4. Untouched'  BY <2>1 DEF Knows, Untouched
  <2>5. ResultKept'  BY <2>1 DEF Knows, ResultKept
  <2> QED  BY <1>0, <2>3, <2>4, <2>5 DEF Knows
<1> QED  BY <1>0, <1>1, <1>2, <1>3, <1>4 DEF Next, Knows

LEMMA InitKnows == Init => Knows
<1> SUFFICES ASSUME Init PROVE Knows  OBVIOUS
<1>1. LettersOnce  BY InitLetters
<1>2. Untouched  BY WorkerAssumption DEF Init, Untouched
<1>3. ResultKept  BY TaskFacts DEF Init, ResultKept
<1>4. Informed  BY WorkerAssumption DEF Init, Informed
<1> QED  BY <1>1, <1>2, <1>3, <1>4 DEF Knows

\* For any number of launchers and of messages: a launcher that is connected, and
\* for which nothing is on its way, last heard the worker's status, in whichever
\* order its query, the end of the build and its connection came, unless a result
\* was replaced.
THEOREM KnowsTheState == Spec => []LastHeardIsStatus
<1>1. IInv /\ Knows => LastHeardIsStatus
  <2> SUFFICES ASSUME IInv, Knows, NEW c \in Conns, Settled(c),
                      heard[c] \in {"in-progress"} \cup Results, ~replaced
               PROVE  heard[c] = status
    BY DEF LastHeardIsStatus
  <2>1. ~Reporting  BY DEF Settled, Reporting
  <2>2. heard[c] \in Sayable  BY DEF Settled, Knows, Informed, LastSaid
  <2>3. heard[c] \notin {None, "new"}  BY WorkerAssumption DEF Statuses, Results
  <2> QED  BY <2>1, <2>2, <2>3 DEF Sayable
<1>2. Spec => []Knows
  BY Invariance, InitKnows, StepKnows, PTL DEF Spec
<1> QED  BY <1>1, <1>2, Invariance, PTL

=============================================================================
