------------------------ MODULE RemoteLoggerProofs -------------------------
(***************************************************************************)
(* Proofs about RemoteLogger: it keeps its type and loses or repeats no line, *)
(* for any number of overlapping flushes.                                   *)
(*                                                                          *)
(* The invariant adds that the batch under way is still the front of the      *)
(* buffer, whoever else has appended to it, so that cutting as many lines off *)
(* the buffer cuts off those lines.                                         *)
(*                                                                          *)
(* It also publishes a log (PublishedLog), and leaves a complete one, except   *)
(* for what uploads do that overlap before the file is closed.               *)
(***************************************************************************)
EXTENDS RemoteLogger, SequenceTheorems, TLAPS

BatchInFront ==
  /\ Len(inFlight) <= Len(buffer)
  /\ \A i \in 1..Len(inFlight) : inFlight[i] = buffer[i]

IInv == TypeOK /\ BatchInFront /\ NothingLostOrRepeated

\* Three lists of lines join the same way from either end.
LEMMA JoinLines ==
  \A a, b, c \in Seq(Nat) : (a \o b) \o c = a \o (b \o c)
BY ConcatAssociative, SMTT(30)

\* The batch and what came after it are the buffer.
LEMMA BatchAndRest ==
  ASSUME TypeOK, BatchInFront
  PROVE  KeepRest \in Seq(Nat) /\ inFlight \o KeepRest = buffer
<1> DEFINE k == Len(inFlight)
           n == Len(buffer)
<1>1. buffer \in Seq(Nat) /\ inFlight \in Seq(Nat) /\ k \in Nat /\ n \in Nat
      /\ k <= n
  BY DEF TypeOK, BatchInFront
<1>2. \A i \in k + 1 .. n : buffer[i] \in Nat  BY <1>1
<1>3. /\ KeepRest \in Seq(Nat)
      /\ Len(KeepRest) = n - k
      /\ \A i \in 1 .. n - k : KeepRest[i] = buffer[k + i]
  <2>1. /\ KeepRest \in Seq(Nat)
        /\ Len(KeepRest) = (IF k + 1 <= n THEN n - (k + 1) + 1 ELSE 0)
        /\ \A i \in 1 .. n - (k + 1) + 1 : KeepRest[i] = buffer[(k + 1) + i - 1]
    BY <1>1, <1>2, SubSeqProperties DEF KeepRest
  <2> QED  BY <1>1, <2>1
<1>4. /\ inFlight \o KeepRest \in Seq(Nat)
      /\ Len(inFlight \o KeepRest) = n
      /\ \A i \in 1 .. n : (inFlight \o KeepRest)[i] =
                             IF i <= k THEN inFlight[i] ELSE KeepRest[i - k]
  BY <1>1, <1>3, ConcatProperties
<1>5. ASSUME NEW i \in 1 .. n PROVE (inFlight \o KeepRest)[i] = buffer[i]
  <2>1. CASE i <= k
    <3>1. i \in 1 .. k  BY <1>1, <2>1
    <3>2. inFlight[i] = buffer[i]  BY <3>1 DEF BatchInFront
    <3> QED  BY <1>4, <2>1, <3>2
  <2>2. CASE ~(i <= k)
    <3>1. i - k \in 1 .. n - k /\ k + (i - k) = i  BY <1>1, <2>2
    <3>2. KeepRest[i - k] = buffer[k + (i - k)]  BY <1>3, <3>1
    <3>3. (inFlight \o KeepRest)[i] = KeepRest[i - k]  BY <1>4, <2>2
    <3> QED  BY <3>1, <3>2, <3>3
  <2> QED  BY <2>1, <2>2
<1> QED  BY <1>1, <1>3, <1>4, <1>5, SeqEqual

\* What a flush does up to its first await.
LEMMA FlushFacts ==
  ASSUME TypeOK, BatchInFront, NEW f \in Flushes, Flush(f)
  PROVE  /\ pc' \in [Flushes -> PCs]
         /\ waitFor' \in [Flushes -> Flushes \cup {None}]
         /\ inFlight' \in Seq(Nat) /\ writer' \in Flushes \cup {"write", None}
         /\ buffer' = buffer => BatchInFront'
<1>1. CASE UNCHANGED <<inFlight, writer>>
  BY <1>1 DEF Flush, TypeOK, BatchInFront, PCs
<1>2. CASE /\ pc' = [pc EXCEPT ![f] = "write"]
           /\ inFlight' = buffer /\ writer' = f /\ UNCHANGED waitFor
  BY <1>2 DEF TypeOK, BatchInFront, PCs
<1> QED  BY <1>1, <1>2 DEF Flush

\* What the end of an upload changes.
LEMMA SettleFacts ==
  ASSUME TypeOK, NEW f \in Flushes, Settle(f)
  PROVE  /\ pc' \in [Flushes -> PCs] /\ uploadingPromise' = None
         /\ hasChangesToUpload' \in BOOLEAN
BY DEF Settle, After, TypeOK, PCs

\* A line more, at the end of the buffer and perhaps in a batch of its own.
LEMMA WriteInv ==
  ASSUME IInv, Write
  PROVE  IInv'
<1> DEFINE l == Len(accepted) + 1
<1>1. l \in Nat /\ accepted' = Append(accepted, l) /\ buffer' = Append(buffer, l)
  BY DEF Write, IInv, TypeOK
<1>2. /\ buffer' \in Seq(Nat) /\ accepted' \in Seq(Nat)
      /\ Len(buffer') = Len(buffer) + 1
      /\ \A i \in 1..Len(buffer) : buffer'[i] = buffer[i]
  BY <1>1, AppendProperties DEF IInv, TypeOK
<1> HIDE DEF l
<1>3. /\ inFlight' \in Seq(Nat) /\ writer' \in Flushes \cup {"write", None}
      /\ BatchInFront'
  <2>1. CASE inFlight = <<>>
    <3>1. inFlight' = buffer' /\ writer' = "write"  BY <2>1 DEF Write
    <3>2. BatchInFront'  BY <1>2, <3>1 DEF BatchInFront
    <3> QED  BY <1>2, <3>1, <3>2
  <2>2. CASE inFlight # <<>>
    BY <1>2, <2>2, SMTT(30) DEF Write, BatchInFront, IInv, TypeOK
  <2> QED  BY <2>1, <2>2
<1>4. TypeOK'
  BY <1>2, <1>3 DEF Write, IInv, TypeOK, object
<1>5. NothingLostOrRepeated'
  <2>1. file \in Seq(Nat) /\ buffer \in Seq(Nat) /\ accepted \in Seq(Nat)
        /\ <<l>> \in Seq(Nat) /\ file' = file /\ file \o buffer = accepted
    BY <1>1 DEF Write, IInv, TypeOK, NothingLostOrRepeated
  <2>2. buffer' = buffer \o <<l>> /\ accepted' = accepted \o <<l>>
    BY <1>1, <2>1, AppendIsConcat
  <2>3. file \o (buffer \o <<l>>) = (file \o buffer) \o <<l>>
    <3> DEFINE e == <<l>>
    <3>1. file \in Seq(Nat) /\ buffer \in Seq(Nat) /\ e \in Seq(Nat)  BY <2>1
    <3> HIDE DEF e
    <3>2. file \o (buffer \o e) = (file \o buffer) \o e
      BY <3>1, JoinLines, ZenonT(20)
    <3> QED  BY <3>2 DEF e
  <2> QED  BY <2>1, <2>2, <2>3 DEF NothingLostOrRepeated
<1> QED  BY <1>3, <1>4, <1>5 DEF IInv

\* The end of a write cuts off the lines that it wrote.
LEMMA WriteEndsInv ==
  ASSUME IInv, WriteEnds
  PROVE  IInv'
<1>1. /\ inFlight' = <<>> /\ writer' = None /\ (Resume(TRUE) \/ Resume(FALSE))
      /\ UNCHANGED <<uploadingPromise, ticking, waitFor, size, object, accepted,
                     atCleanUp, overlapped>>
  BY DEF WriteEnds
<1>2. pc' \in [Flushes -> PCs]
      /\ handle' \in {"none", "open", "closing", "closed"}
  BY <1>1 DEF Resume, IInv, TypeOK, PCs
<1>3. CASE /\ file' = file \o inFlight /\ buffer' = KeepRest
           /\ hasChangesToUpload' = TRUE /\ UNCHANGED failed
  <2>1. /\ KeepRest \in Seq(Nat) /\ inFlight \o KeepRest = buffer
        /\ file \in Seq(Nat) /\ inFlight \in Seq(Nat)
    BY BatchAndRest DEF IInv, TypeOK
  <2>2. file' \in Seq(Nat) /\ buffer' \in Seq(Nat)
    BY <1>3, <2>1, ConcatProperties
  <2>3. file' \o buffer' = file \o buffer
    <3>1. file' \o buffer' = (file \o inFlight) \o KeepRest  BY <1>3
    <3>2. (file \o inFlight) \o KeepRest = file \o (inFlight \o KeepRest)
      BY <2>1, JoinLines, ZenonT(20)
    <3> QED  BY <2>1, <3>1, <3>2
  <2>4. NothingLostOrRepeated'
    BY <1>1, <2>3 DEF IInv, NothingLostOrRepeated
  <2>5. BatchInFront'  BY <1>1, <2>2 DEF BatchInFront
  <2>6. TypeOK'
    BY <1>1, <1>2, <1>3, <2>2 DEF IInv, TypeOK, object
  <2> QED  BY <2>4, <2>5, <2>6 DEF IInv
<1>4. CASE /\ failed' = (failed \/ handle = "open")
           /\ UNCHANGED <<file, buffer, hasChangesToUpload>>
  <2>1. NothingLostOrRepeated'
    BY <1>1, <1>4 DEF IInv, NothingLostOrRepeated
  <2>2. BatchInFront'  BY <1>1, <1>4 DEF BatchInFront, IInv, TypeOK
  <2>3. TypeOK'
    BY <1>1, <1>2, <1>4 DEF IInv, TypeOK, object
  <2> QED  BY <2>1, <2>2, <2>3 DEF IInv
<1> QED  BY <1>3, <1>4 DEF WriteEnds

\* The other steps neither write to the file nor touch the buffer.
LEMMA OtherSteps ==
  ASSUME IInv, TypeOK', BatchInFront', UNCHANGED <<file, buffer, accepted>>
  PROVE  IInv'
BY DEF IInv, NothingLostOrRepeated

\* The steps of a flush that wait for I/O or start it.
LEMMA FlushSteps ==
  ASSUME IInv, NEW f \in Flushes,
         FlushAgain(f) \/ StartUpload(f) \/ Stat(f) \/ Put(f)
  PROVE  IInv'
<1> USE DEF history, object, writing
<1>1. CASE FlushAgain(f)
  <2>1. TypeOK' /\ BatchInFront'
    BY <1>1, FlushFacts DEF FlushAgain, IInv, TypeOK
  <2> QED  BY <1>1, <2>1, OtherSteps DEF FlushAgain
<1>2. CASE StartUpload(f)
  <2>1. TypeOK'  BY <1>2 DEF StartUpload, IInv, TypeOK, PCs
  <2>2. BatchInFront'  BY <1>2 DEF StartUpload, IInv, BatchInFront
  <2> QED  BY <1>2, <2>1, <2>2, OtherSteps DEF StartUpload
<1>3. CASE Stat(f)
  <2>1. Len(file) \in Nat  BY DEF IInv, TypeOK
  <2>2. TypeOK'  BY <1>3, <2>1 DEF Stat, IInv, TypeOK, PCs
  <2>3. BatchInFront'  BY <1>3 DEF Stat, IInv, BatchInFront
  <2> QED  BY <1>3, <2>2, <2>3, OtherSteps DEF Stat
<1>4. CASE Put(f)
  <2>1. remote' \in Nat /\ torn' \in BOOLEAN /\ failed' \in BOOLEAN
    <3>1. CASE /\ remote' = size[f] /\ torn' \in {FALSE, Len(file) > size[f]}
               /\ UNCHANGED failed
      <4>1. (Len(file) > size[f]) \in BOOLEAN  OBVIOUS
      <4>2. torn' = FALSE \/ torn' = (Len(file) > size[f])  BY <3>1
      <4>3. torn' \in BOOLEAN  BY <4>1, <4>2
      <4> QED  BY <3>1, <4>3 DEF IInv, TypeOK
    <3>2. CASE failed' = TRUE /\ UNCHANGED object
      BY <3>2 DEF IInv, TypeOK
    <3> QED  BY <1>4, <3>1, <3>2 DEF Put
  <2>2. TypeOK'
    BY <1>4, <2>1, SettleFacts DEF Put, IInv, TypeOK
  <2>3. BatchInFront'  BY <1>4 DEF Put, IInv, BatchInFront
  <2> QED  BY <1>4, <2>2, <2>3, OtherSteps DEF Put
<1> QED  BY <1>1, <1>2, <1>3, <1>4

\* Every step keeps the invariant.
LEMMA StepInv == IInv /\ [Next]_vars => IInv'
<1> SUFFICES ASSUME IInv, [Next]_vars PROVE IInv'  OBVIOUS
<1> USE DEF history, object, writing
<1>0. Ticks \subseteq Flushes /\ "init" \in Flushes /\ "cleanUp" \in Flushes
  BY DEF Flushes
<1>1. CASE Open
  <2>1. TypeOK' /\ BatchInFront'
    BY <1>0, <1>1, FlushFacts DEF Open, IInv, TypeOK
  <2> QED  BY <1>1, <2>1, OtherSteps DEF Open
<1>2. CASE Write  BY <1>2, WriteInv
<1>3. CASE WriteEnds  BY <1>3, WriteEndsInv
<1>4. CASE CleanUp
  <2>0. Len(accepted) \in Nat  BY DEF IInv, TypeOK
  <2>1. TypeOK'
    <3>1. pc' \in [Flushes -> PCs] /\ atCleanUp' \in Nat
      BY <1>4, <2>0 DEF CleanUp, IInv, TypeOK, PCs
    <3> QED  BY <1>4, <3>1 DEF CleanUp, IInv, TypeOK
  <2>2. BatchInFront'  BY <1>4 DEF CleanUp, IInv, BatchInFront
  <2> QED  BY <1>4, <2>1, <2>2, OtherSteps DEF CleanUp
<1>5. CASE Drain
  <2>1. pc' \in [Flushes -> PCs]  BY <1>5 DEF Drain, IInv, TypeOK, PCs
  <2>2. TypeOK' /\ BatchInFront'
    <3>1. CASE buffer = <<>>
      BY <1>5, <2>1, <3>1 DEF Drain, IInv, TypeOK, BatchInFront
    <3>2. CASE buffer # <<>>
      BY <1>0, <1>5, <2>1, <3>2 DEF Drain, IInv, TypeOK, BatchInFront
    <3> QED  BY <3>1, <3>2
  <2> QED  BY <1>5, <2>2, OtherSteps DEF Drain
<1>6. CASE Closed
  <2>1. TypeOK' /\ BatchInFront'
    BY <1>0, <1>6, FlushFacts DEF Closed, IInv, TypeOK
  <2> QED  BY <1>6, <2>1, OtherSteps DEF Closed
<1>7. ASSUME NEW f \in Ticks, Tick(f) PROVE IInv'
  <2>1. TypeOK' /\ BatchInFront'
    BY <1>0, <1>7, FlushFacts DEF Tick, IInv, TypeOK
  <2> QED  BY <1>7, <2>1, OtherSteps DEF Tick
<1>8. ASSUME NEW f \in Flushes,
             FlushAgain(f) \/ StartUpload(f) \/ Stat(f) \/ Put(f)
      PROVE  IInv'
  BY <1>8, FlushSteps
<1>9. CASE UNCHANGED vars
  BY <1>9 DEF vars, IInv, TypeOK, BatchInFront, NothingLostOrRepeated
<1> QED
  BY <1>1, <1>2, <1>3, <1>4, <1>5, <1>6, <1>7, <1>8, <1>9 DEF Next

\* Every initial state has it.
LEMMA InitInv == Init => IInv
<1> SUFFICES ASSUME Init PROVE IInv  OBVIOUS
<1>1. <<>> \in Seq(Nat) /\ <<>> \o <<>> = <<>> /\ Len(<<>>) = 0
  BY ConcatEmptySeq
<1>2. TypeOK  BY <1>1 DEF Init, TypeOK, PCs
<1>3. BatchInFront /\ NothingLostOrRepeated
  BY <1>1 DEF Init, BatchInFront, NothingLostOrRepeated
<1> QED  BY <1>2, <1>3 DEF IInv

\* So it holds throughout.
LEMMA Invariance == Spec => []IInv
BY InitInv, StepInv, PTL DEF Spec

\* Every variable of the stream keeps its type.
THEOREM TypeCorrect == Spec => []TypeOK
<1>1. IInv => TypeOK  BY DEF IInv
<1> QED  BY <1>1, Invariance, PTL

\* Every line write() took is on file once, in order, or still buffered, for
\* any number of flushes under way and any failures of writes and uploads.
THEOREM LosesNothing == Spec => []NothingLostOrRepeated
<1>1. IInv => NothingLostOrRepeated  BY DEF IInv, NothingLostOrRepeated
<1> QED  BY <1>1, Invariance, PTL

-----------------------------------------------------------------------------
(* The refinement.  The object never gets shorter while uploads do not overlap *)
(* until the file is closed: those that overlap then are of the whole file.   *)

Working(f)   == pc[f] \in {"write", "gap", "stat", "put"}
Busy(f)      == pc[f] = "again" \/ Working(f)
Uploading(f) == pc[f] \in {"stat", "put"}

\* Until init has returned nothing is written, so no tick has anything to do.
BeforeUse ==
  handle = "none" \/ pc["init"] # "idle" =>
    /\ ~hasChangesToUpload /\ buffer = <<>> /\ inFlight = <<>> /\ pc["cleanUp"] = "idle"
    /\ ~overlapped
    /\ \A f \in Ticks : pc[f] = "idle"

Places ==
  /\ handle = "none" => pc["init"] = "idle"
  /\ pc["init"] \in {"idle", "gap", "stat", "put"}
  /\ \A f \in Ticks : pc[f] = "idle" \/ pc[f] = "wait" \/ Busy(f)
  /\ handle # "closed" => pc["cleanUp"] \in {"idle", "drain", "drainWrite", "close", "thrown"}
  /\ handle = "closed" => pc["cleanUp"] \in {"wait", "again", "gap", "stat", "put", "done"}
  /\ pc["cleanUp"] # "idle" => ~ticking
  /\ \A f \in Flushes \ {"cleanUp"} : pc[f] = "write" <=> writer = f
  /\ writer = "cleanUp" <=> pc["cleanUp"] = "drainWrite"
  /\ writer = None <=> inFlight = <<>>

\* Until the file is closed there is one flush at work, others wait for its upload.
Exclusive ==
  handle # "closed" /\ ~overlapped =>
    /\ \A f, g \in Flushes : Working(f) /\ Working(g) => f = g
    /\ \A f \in Flushes : /\ Uploading(f) <=> uploadingPromise = f
                          /\ pc[f] = "wait" => /\ waitFor[f] = uploadingPromise
                                               /\ uploadingPromise # None

\* Of the uploads of a closed file one that began earlier is alone.
LastOnes ==
  handle = "closed" /\ ~overlapped =>
    \A f, g \in Flushes : pc[f] = "put" /\ size[f] # Len(file) /\ Busy(g) => f = g

Grows ==
  /\ remote <= Len(file)
  /\ \A f \in Flushes : pc[f] = "put" => /\ size[f] <= Len(file)
                                         /\ ~overlapped => remote <= size[f]

PublishInv == BeforeUse /\ Places /\ Exclusive /\ LastOnes /\ Grows

Apart ==
  /\ "init" \in Flushes /\ "cleanUp" \in Flushes /\ "write" \notin Flushes
  /\ \A g \in Ticks : g \in Flushes /\ g # "init" /\ g # "cleanUp"
  /\ \A g \in Flushes : g # None /\ (g \in Ticks \/ g = "init" \/ g = "cleanUp")
  /\ None # "write"

LEMMA NamesApart == Apart
BY LoggerAssumption DEF Apart, Flushes

LEMMA FlushCases ==
  ASSUME TypeOK, NEW f \in Flushes, Flush(f)
  PROVE  /\ \A g \in Flushes \ {f} : pc'[g] = pc[g] /\ waitFor'[g] = waitFor[g]
         /\ \/ /\ ~Forced(f) /\ ~hasChangesToUpload /\ pc'[f] = "idle"
               /\ UNCHANGED <<inFlight, writer>>
            \/ /\ uploadingPromise # None /\ pc'[f] = "wait"
               /\ waitFor'[f] = uploadingPromise /\ UNCHANGED <<inFlight, writer>>
            \/ /\ uploadingPromise = None /\ pc'[f] = "write" /\ CanWrite
               /\ f # "cleanUp" /\ writer' = f /\ inFlight' = buffer
            \/ /\ uploadingPromise = None /\ pc'[f] = "gap"
               /\ UNCHANGED <<inFlight, writer>>
BY DEF Flush, TypeOK

LEMMA OpenPublish ==
  ASSUME TypeOK, PublishInv, Open
  PROVE  PublishInv'
<1>1. /\ handle = "none" /\ handle' = "open" /\ Apart
      /\ UNCHANGED <<buffer, file, hasChangesToUpload, uploadingPromise, size, remote,
                     overlapped>>
  BY NamesApart DEF Open, object, history
<1>2. uploadingPromise = None
  BY <1>1 DEF PublishInv, BeforeUse, Places, Exclusive, TypeOK, Uploading, Apart
<1>3. /\ \A g \in Flushes \ {"init"} : pc'[g] = pc[g] /\ waitFor'[g] = waitFor[g]
      /\ pc'["init"] = "gap" /\ UNCHANGED <<inFlight, writer>>
  BY <1>1, <1>2, FlushCases DEF Open, Forced, CanWrite, Apart
<1>4. BeforeUse'  BY <1>1, <1>3 DEF PublishInv, BeforeUse, Apart
<1>5. Places'  BY <1>1, <1>3 DEF PublishInv, BeforeUse, Places, Busy, Working, Apart
<1>6. Exclusive'
  BY <1>1, <1>2, <1>3 DEF PublishInv, BeforeUse, Exclusive, Busy, Working, Uploading, Apart
<1>7. LastOnes' /\ Grows'  BY <1>1, <1>3 DEF PublishInv, LastOnes, Grows
<1> QED  BY <1>4, <1>5, <1>6, <1>7 DEF PublishInv

LEMMA WritePublish ==
  ASSUME TypeOK, PublishInv, Write
  PROVE  PublishInv'
<1>1. /\ handle # "none" /\ handle # "closed" /\ pc["init"] = "idle" /\ Apart
      /\ UNCHANGED <<handle, file, hasChangesToUpload, uploadingPromise, ticking, pc,
                     waitFor, size, remote, overlapped>>
      /\ \/ inFlight # <<>> /\ UNCHANGED <<inFlight, writer>>
         \/ inFlight = <<>> /\ inFlight' # <<>> /\ writer' = "write"
  <2>1. buffer' # <<>>
    <3>1. Len(buffer') = Len(buffer) + 1 /\ Len(buffer) \in Nat
      BY AppendProperties DEF Write, TypeOK
    <3>2. Len(buffer') # 0  BY <3>1
    <3> QED  BY <3>2
  <2> QED  BY <2>1, NamesApart DEF Write, InUse, object
<1>2. BeforeUse' /\ Exclusive' /\ LastOnes' /\ Grows'
  BY <1>1 DEF PublishInv, BeforeUse, Exclusive, LastOnes, Grows, Busy, Working, Uploading
<1>3. Places'
  BY <1>1 DEF PublishInv, Places, Busy, Working, Apart
<1> QED  BY <1>2, <1>3 DEF PublishInv

LEMMA WriteEndsPublish ==
  ASSUME TypeOK, IInv, PublishInv, WriteEnds
  PROVE  PublishInv'
<1>1. /\ handle # "none" /\ pc["init"] = "idle" /\ Apart
      /\ inFlight # <<>> /\ inFlight' = <<>> /\ writer' = None
      /\ UNCHANGED <<uploadingPromise, ticking, waitFor, size, remote, overlapped>>
      /\ handle' = IF writer = "cleanUp" THEN "closing" ELSE handle
  BY NamesApart DEF WriteEnds, Resume, object, PublishInv, BeforeUse
<1>2. \A f \in Flushes :
        \/ f = writer /\ pc'[f] = IF f = "cleanUp" THEN "close" ELSE "gap"
        \/ f # writer /\ (pc'[f] = pc[f] \/ (pc[f] = "drain" /\ pc'[f] = "thrown"))
  BY DEF WriteEnds, Resume
<1>3. /\ Len(file) \in Nat /\ Len(file') \in Nat /\ Len(file) <= Len(file')
      /\ handle = "closed" => file' = file
  <2>1. Len(file \o inFlight) = Len(file) + Len(inFlight) /\ Len(inFlight) \in Nat /\ Len(file) \in Nat
    BY ConcatProperties DEF TypeOK
  <2>2. file' = file \/ (handle # "closed" /\ file' = file \o inFlight)
    BY DEF WriteEnds
  <2> QED  BY <2>1, <2>2
<1>4. BeforeUse'  BY <1>1, <1>2 DEF BeforeUse, Apart, PublishInv, Places
<1>5. Places'  BY <1>1, <1>2 DEF PublishInv, Places, Busy, Working, Apart
<1>6. Exclusive'
  BY <1>1, <1>2 DEF PublishInv, Exclusive, Places, Busy, Working, Uploading, Apart
<1>7. LastOnes'  BY <1>1, <1>2, <1>3 DEF PublishInv, LastOnes, Places, Busy, Working, Apart
<1>8. Grows'
  <2>1. remote \in Nat /\ \A f \in Flushes : size[f] \in Nat  BY DEF TypeOK
  <2>2. \A f \in Flushes : pc'[f] = "put" => pc[f] = "put"  BY <1>2
  <2> QED  BY <1>1, <1>3, <2>1, <2>2 DEF PublishInv, Grows
<1> QED  BY <1>4, <1>5, <1>6, <1>7, <1>8 DEF PublishInv

LEMMA CleanUpPublish ==
  ASSUME TypeOK, PublishInv, CleanUp \/ Drain
  PROVE  PublishInv'
<1>1. /\ handle # "none" /\ handle # "closed" /\ handle' \in {handle, "closing"}
      /\ pc["init"] = "idle" /\ Apart /\ pc["cleanUp"] \in {"idle", "drain"}
      /\ \A f \in Flushes \ {"cleanUp"} : pc'[f] = pc[f]
      /\ pc'["cleanUp"] \in {"drain", "close", "drainWrite"}
      /\ UNCHANGED <<file, hasChangesToUpload, uploadingPromise, waitFor, size, remote,
                     overlapped>>
      /\ ~ticking'
  <2>1. handle # "none" /\ handle # "closed" /\ pc["init"] = "idle"
    BY DEF CleanUp, Drain, InUse, PublishInv, Places, BeforeUse
  <2>2. pc \in [Flushes -> PCs]  BY DEF TypeOK
  <2>3. pc["cleanUp"] = "drain" => ~ticking  BY DEF PublishInv, Places
  <2> QED  BY <2>1, <2>2, <2>3, NamesApart DEF CleanUp, Drain, object, writing, history, Apart
<1>2. \/ UNCHANGED <<inFlight, writer>> /\ pc'["cleanUp"] # "drainWrite"
      \/ /\ inFlight = <<>> /\ inFlight' # <<>> /\ writer' = "cleanUp"
         /\ pc'["cleanUp"] = "drainWrite"
  BY <1>1 DEF CleanUp, Drain, writing, TypeOK, Apart
<1>3. BeforeUse'  BY <1>1 DEF BeforeUse, Apart
<1>4. Places'  BY <1>1, <1>2 DEF PublishInv, Places, Busy, Working, Apart
<1>5. Exclusive'
  BY <1>1, <1>2 DEF PublishInv, Exclusive, Places, Busy, Working, Uploading, Apart
<1>6. LastOnes' /\ Grows'
  BY <1>1, <1>2 DEF PublishInv, LastOnes, Grows, Apart
<1> QED  BY <1>3, <1>4, <1>5, <1>6 DEF PublishInv

LEMMA ClosedPublish ==
  ASSUME TypeOK, PublishInv, Closed
  PROVE  PublishInv'
<1>1. /\ handle # "none" /\ handle # "closed" /\ handle' = "closed" /\ ~ticking
      /\ pc["init"] = "idle" /\ Apart /\ pc["cleanUp"] = "close" /\ Quiet
      /\ UNCHANGED <<file, hasChangesToUpload, uploadingPromise, ticking, size, remote,
                     overlapped>>
  BY NamesApart DEF Closed, object, history, PublishInv, Places, BeforeUse
<1>2. /\ \A g \in Flushes \ {"cleanUp"} : pc'[g] = pc[g] /\ waitFor'[g] = waitFor[g]
      /\ \/ uploadingPromise # None /\ pc'["cleanUp"] = "wait"
         \/ uploadingPromise = None /\ pc'["cleanUp"] = "gap"
      /\ UNCHANGED <<inFlight, writer>>
  BY <1>1, FlushCases DEF Closed, Forced, Apart
<1>3. BeforeUse'  BY <1>1, <1>2 DEF BeforeUse, Apart
<1>4. Places'  BY <1>1, <1>2 DEF PublishInv, Places, Busy, Working, Apart
<1>5. Exclusive'  BY <1>1 DEF Exclusive
<1>6. LastOnes'
  BY <1>1, <1>2 DEF PublishInv, LastOnes, Exclusive, Busy, Working, Uploading, Apart,
     Quiet
<1>7. Grows'  BY <1>1, <1>2 DEF PublishInv, Grows, Apart
<1> QED  BY <1>3, <1>4, <1>5, <1>6, <1>7 DEF PublishInv

\* A flush of a tick, or one that looks again.  When it goes on to upload and that
\* makes no overlap, no other is at work before the file is closed.
LEMMA FlushPublish ==
  ASSUME TypeOK, PublishInv, NEW f \in Flushes, Flush(f),
         \/ f \in Ticks /\ pc[f] = "idle" /\ handle # "closed" /\ hasChangesToUpload
         \/ pc[f] = "again",
         overlapped' = (overlapped \/ Unnoticed(f)),
         UNCHANGED <<handle, buffer, file, hasChangesToUpload, uploadingPromise,
                     ticking, size, object, accepted, atCleanUp, failed>>
  PROVE  PublishInv'
<1>1. /\ Apart /\ \A g \in Flushes \ {f} : pc'[g] = pc[g] /\ waitFor'[g] = waitFor[g]
      /\ \/ /\ ~Forced(f) /\ pc'[f] = "idle" /\ UNCHANGED <<inFlight, writer>>
         \/ /\ uploadingPromise # None /\ pc'[f] = "wait"
            /\ waitFor'[f] = uploadingPromise /\ UNCHANGED <<inFlight, writer>>
         \/ /\ uploadingPromise = None /\ pc'[f] = "write" /\ CanWrite
            /\ f # "cleanUp" /\ writer' = f /\ inFlight' = buffer
         \/ /\ uploadingPromise = None /\ pc'[f] = "gap"
            /\ UNCHANGED <<inFlight, writer>>
  BY FlushCases, NamesApart
<1>2. /\ handle # "none" /\ pc["init"] = "idle" /\ f # "init"
  BY <1>1 DEF PublishInv, BeforeUse, Places, Apart, Busy, Working
<1>3. writer # f /\ (f = "cleanUp" => pc["cleanUp"] = "again" /\ handle = "closed")
  BY <1>1 DEF PublishInv, Places, Apart
<1>4. UNCHANGED remote  BY DEF object
<1>5. BeforeUse'  BY <1>1, <1>2 DEF BeforeUse, Apart
<1>6. Places'
  BY <1>1, <1>2, <1>3 DEF PublishInv, Places, Busy, Working, Apart, CanWrite, Forced
<1>7. ASSUME ~overlapped', handle # "closed", uploadingPromise = None,
             pc'[f] \in {"write", "gap"}, NEW g \in Flushes, Working(g)
      PROVE  f = g
  <2>1. ~overlapped /\ ~Unnoticed(f)  BY <1>7, Zenon
  <2>2. ~Uploading(g)  BY <1>1, <1>7, <2>1 DEF PublishInv, Exclusive, Apart
  <2>3. Forced(f) \/ hasChangesToUpload  BY <1>7 DEF Flush, TypeOK
  <2>4. pc[g] \in {"write", "gap"}  BY <1>7, <2>2 DEF Working, Uploading
  <2> QED  BY <1>7, <2>1, <2>3, <2>4 DEF Unnoticed
<1>8. overlapped => overlapped'  BY Zenon
<1>9. Exclusive'
  <2> SUFFICES ASSUME handle # "closed", ~overlapped' PROVE Exclusive'
    BY DEF Exclusive
  <2>1. ~overlapped  BY <1>8
  <2> QED
    BY <1>1, <1>2, <1>3, <1>7, <2>1 DEF PublishInv, Exclusive, Busy, Working, Uploading, Apart
<1>10. LastOnes'
  BY <1>1, <1>2, <1>3, <1>8 DEF PublishInv, LastOnes, Busy, Working, Apart
<1>11. Grows'  BY <1>1, <1>4, <1>8 DEF PublishInv, Grows
<1> QED  BY <1>5, <1>6, <1>9, <1>10, <1>11 DEF PublishInv

LEMMA UploadPublish ==
  ASSUME TypeOK, PublishInv, NEW f \in Flushes, StartUpload(f) \/ Stat(f)
  PROVE  PublishInv'
<1>1. /\ Apart /\ \A g \in Flushes \ {f} : pc'[g] = pc[g] /\ size'[g] = size[g]
      /\ UNCHANGED <<handle, inFlight, buffer, writer, file, ticking, waitFor, remote>>
  BY NamesApart DEF StartUpload, Stat, writing, object, TypeOK
<1>2. \/ pc[f] = "gap" /\ pc'[f] = "stat" /\ uploadingPromise' = f /\ ~hasChangesToUpload'
      \/ /\ pc[f] = "stat" /\ pc'[f] = "put" /\ size'[f] = Len(file)
         /\ UNCHANGED <<uploadingPromise, hasChangesToUpload>>
  BY DEF StartUpload, Stat, TypeOK
<1>3. /\ overlapped' => overlapped
      /\ overlapped /\ ~overlapped' => StartUpload(f) /\ ~OthersAtWork(f)
  <2>1. CASE StartUpload(f)  BY <2>1, Zenon DEF StartUpload
  <2>2. CASE Stat(f)  BY <2>2, Zenon DEF Stat, history
  <2> QED  BY <2>1, <2>2
<1>4. ASSUME overlapped, ~overlapped'
      PROVE  /\ \A g \in Flushes \ {f} :
                  pc'[g] \notin {"wait", "again", "write", "gap", "stat", "put"}
             /\ pc'[f] = "stat" /\ uploadingPromise' = f
  BY <1>1, <1>2, <1>3, <1>4 DEF OthersAtWork, StartUpload
<1>5. BeforeUse'  BY <1>1, <1>2, <1>3 DEF PublishInv, BeforeUse, Apart
<1>6. Places'  BY <1>1, <1>2 DEF PublishInv, Places, Busy, Working, Apart
<1>7. Exclusive'
  <2> SUFFICES ASSUME handle # "closed", ~overlapped' PROVE Exclusive'
    BY <1>1 DEF Exclusive
  <2>1. CASE overlapped
    <3>1. \A g \in Flushes : Working(g)' \/ Uploading(g)' \/ pc'[g] = "wait" => g = f
      BY <1>4, <2>1 DEF Working, Uploading
    <3> QED  BY <1>4, <2>1, <3>1 DEF Exclusive, Uploading
  <2>2. CASE ~overlapped
    <3>1. /\ \A g \in Flushes : Working(g) => f = g
          /\ \A g \in Flushes : /\ Uploading(g) <=> uploadingPromise = g
                                /\ pc[g] = "wait" => /\ waitFor[g] = uploadingPromise
                                                     /\ uploadingPromise # None
      BY <1>1, <1>2, <2>2 DEF PublishInv, Exclusive, Working
    <3>2. \A g \in Flushes : Working(g)' => f = g  BY <1>1, <3>1 DEF Working
    <3>3. uploadingPromise' = f  BY <1>2, <3>1 DEF Uploading
    <3>4. \A g \in Flushes : pc[g] = "wait" => waitFor[g] = f /\ g # f
      <4>1. uploadingPromise \in Flushes \cup {None}  BY DEF TypeOK
      <4> QED  BY <1>2, <3>1, <4>1 DEF Uploading, Working
    <3> QED
      BY <1>1, <1>2, <3>1, <3>2, <3>3, <3>4 DEF Exclusive, Working, Uploading, Apart
  <2> QED  BY <2>1, <2>2
<1>8. LastOnes'
  BY <1>1, <1>2, <1>3, <1>4 DEF PublishInv, LastOnes, Busy, Working
<1>9. Len(file) \in Nat  BY DEF TypeOK
<1>10. Grows'  BY <1>1, <1>2, <1>4, <1>9 DEF PublishInv, Grows
<1> QED  BY <1>5, <1>6, <1>7, <1>8, <1>10 DEF PublishInv

LEMMA PutPublish ==
  ASSUME TypeOK, PublishInv, NEW f \in Flushes, Put(f)
  PROVE  PublishInv'
<1>1. /\ Apart /\ Quiet /\ pc[f] = "put" /\ uploadingPromise' = None
      /\ UNCHANGED <<handle, inFlight, buffer, writer, file, ticking,
                     hasChangesToUpload, overlapped>>
      /\ pc'[f] = IF f = "cleanUp" THEN "done" ELSE "idle"
      /\ \A g \in Flushes \ {f} :
           pc'[g] = IF pc[g] = "wait" /\ waitFor[g] = f THEN "again" ELSE pc[g]
      /\ \A g \in Flushes \ {f} : size'[g] = size[g]
      /\ remote' = size[f] \/ remote' = remote
  BY NamesApart DEF Put, Settle, After, writing, object, TypeOK
<1>2. Len(file) \in Nat /\ remote \in Nat /\ \A g \in Flushes : size[g] \in Nat
  BY DEF TypeOK
<1>3. BeforeUse'  BY <1>1 DEF PublishInv, BeforeUse, Places, Apart
<1>4. Places'  BY <1>1 DEF PublishInv, Places, Busy, Working, Apart
<1>5. Exclusive'
  <2> SUFFICES ASSUME handle # "closed", ~overlapped PROVE Exclusive'
    BY <1>1 DEF Exclusive
  <2>1. \A g \in Flushes : Working(g) => f = g
    BY <1>1 DEF PublishInv, Exclusive, Working
  <2>2. uploadingPromise = f  BY <1>1 DEF PublishInv, Exclusive, Uploading
  <2>3. \A g \in Flushes : pc'[g] # "wait"
    BY <1>1, <2>2 DEF PublishInv, Exclusive
  <2>4. \A g \in Flushes : ~Working(g)' /\ ~Uploading(g)'
    BY <1>1, <2>1 DEF Working, Uploading
  <2> QED  BY <1>1, <2>3, <2>4 DEF Exclusive, Apart
<1>6. LastOnes'  BY <1>1 DEF PublishInv, LastOnes, Busy, Working
<1>7. ASSUME ~overlapped, NEW g \in Flushes, g # f, pc[g] = "put"
      PROVE  size[f] <= size[g]
  <2>1. handle = "closed"  BY <1>1, <1>7 DEF PublishInv, Exclusive, Working
  <2>2. size[f] = Len(file) /\ size[g] = Len(file)
    BY <1>1, <1>7, <2>1 DEF PublishInv, LastOnes, Busy, Working
  <2> QED  BY <1>2, <2>2
<1>8. Grows'  BY <1>1, <1>2, <1>7 DEF PublishInv, Grows
<1> QED  BY <1>3, <1>4, <1>5, <1>6, <1>8 DEF PublishInv

LEMMA InitPublish == Init => PublishInv
<1> SUFFICES ASSUME Init PROVE PublishInv  OBVIOUS
<1>1. Apart /\ Len(file) = 0 /\ ~overlapped  BY NamesApart DEF Init
<1>2. BeforeUse /\ Places
  BY <1>1 DEF Init, BeforeUse, Places, Busy, Working, Apart
<1>3. Exclusive /\ LastOnes /\ Grows
  BY <1>1 DEF Init, Exclusive, LastOnes, Grows, Busy, Working, Uploading, Apart
<1> QED  BY <1>2, <1>3 DEF PublishInv

LEMMA StepPublish ==
  ASSUME IInv, PublishInv, [Next]_vars
  PROVE  PublishInv'
<1>0. TypeOK /\ Apart  BY NamesApart DEF IInv
<1>1. CASE Open  BY <1>0, <1>1, OpenPublish
<1>2. CASE Write  BY <1>0, <1>2, WritePublish
<1>3. CASE WriteEnds  BY <1>0, <1>3, WriteEndsPublish
<1>4. CASE CleanUp \/ Drain  BY <1>0, <1>4, CleanUpPublish
<1>5. CASE Closed  BY <1>0, <1>5, ClosedPublish
<1>6. ASSUME NEW f \in Ticks, Tick(f) PROVE PublishInv'
  <2>1. f \in Flushes /\ handle # "closed"
    BY <1>0, <1>6 DEF Tick, Apart, PublishInv, Places
  <2> QED  BY <1>0, <1>6, <2>1, FlushPublish DEF Tick
<1>7. ASSUME NEW f \in Flushes, FlushAgain(f) PROVE PublishInv'
  BY <1>0, <1>7, FlushPublish DEF FlushAgain
<1>8. ASSUME NEW f \in Flushes, StartUpload(f) \/ Stat(f) PROVE PublishInv'
  BY <1>0, <1>8, UploadPublish
<1>9. ASSUME NEW f \in Flushes, Put(f) PROVE PublishInv'
  BY <1>0, <1>9, PutPublish
<1>10. CASE UNCHANGED vars
  BY <1>10 DEF vars, writing, object, history, PublishInv, BeforeUse, Places, Exclusive,
     LastOnes, Grows, Busy, Working, Uploading
<1> QED
  BY <1>1, <1>2, <1>3, <1>4, <1>5, <1>6, <1>7, <1>8, <1>9, <1>10 DEF Next

\* Storing a batch stores the next lines taken.
LEMMA StoresNext ==
  ASSUME IInv, WriteEnds
  PROVE  [Log!Store]_(Log!vars)
<1>1. UNCHANGED <<accepted, remote, overlapped>>  BY DEF WriteEnds, object
<1>2. CASE file' = file  BY <1>1, <1>2 DEF Log!vars
<1>3. CASE file' = file \o inFlight /\ inFlight # <<>>
  <2> DEFINE n == Len(file) + Len(inFlight)
  <2>1. /\ file \in Seq(Nat) /\ inFlight \in Seq(Nat) /\ buffer \in Seq(Nat)
        /\ accepted \in Seq(Nat)
        /\ Len(inFlight) \in Nat /\ Len(file) \in Nat /\ Len(buffer) \in Nat
        /\ Len(inFlight) <= Len(buffer) /\ Len(inFlight) # 0
        /\ \A i \in 1..Len(inFlight) : inFlight[i] = buffer[i]
    BY <1>3, EmptySeq DEF IInv, TypeOK, BatchInFront
  <2>2. /\ Len(accepted) = Len(file) + Len(buffer)
        /\ \A i \in 1 .. Len(file) + Len(buffer) :
             accepted[i] = IF i <= Len(file) THEN file[i] ELSE buffer[i - Len(file)]
    BY <2>1, ConcatProperties DEF IInv, NothingLostOrRepeated
  <2>3. /\ file' \in Seq(Nat) /\ Len(file') = n
        /\ \A i \in 1 .. n :
             file'[i] = IF i <= Len(file) THEN file[i] ELSE inFlight[i - Len(file)]
    BY <1>3, <2>1, ConcatProperties
  <2>4. n \in Len(file) + 1 .. Len(accepted)  BY <2>1, <2>2
  <2>5. \A i \in 1 .. n : file'[i] = accepted[i]
    <3> SUFFICES ASSUME NEW i \in 1 .. n PROVE file'[i] = accepted[i]  OBVIOUS
    <3>1. i \in 1 .. Len(file) + Len(buffer)  BY <2>1
    <3>2. CASE i <= Len(file)  BY <2>2, <2>3, <3>1, <3>2
    <3>3. CASE ~(i <= Len(file))
      <4>1. i - Len(file) \in 1..Len(inFlight)  BY <2>1, <3>3
      <4> QED  BY <2>1, <2>2, <2>3, <3>1, <3>3, <4>1
    <3> QED  BY <3>2, <3>3
  <2>6. file' = SubSeq(accepted, 1, n)
    <3>0. n \in Nat /\ n <= Len(accepted)  BY <2>1, <2>4
    <3>1. n \in Nat /\ \A i \in 1 .. n : accepted[i] \in Nat
      <4> HIDE DEF n
      <4>1. \A i \in 1 .. n : i \in 1..Len(accepted)  BY <3>0
      <4>2. \A i \in 1..Len(accepted) : accepted[i] \in Nat  BY <2>1
      <4> QED  BY <3>0, <4>1, <4>2, ZenonT(30)
    <3>2. /\ SubSeq(accepted, 1, n) \in Seq(Nat) /\ Len(SubSeq(accepted, 1, n)) = n
          /\ \A i \in 1 .. n : SubSeq(accepted, 1, n)[i] = accepted[i]
      <4>1. /\ SubSeq(accepted, 1, n) \in Seq(Nat)
            /\ Len(SubSeq(accepted, 1, n)) = (IF 1 <= n THEN n - 1 + 1 ELSE 0)
            /\ \A i \in 1 .. n - 1 + 1 : SubSeq(accepted, 1, n)[i] = accepted[1 + i - 1]
        BY <2>1, <3>1, SubSeqProperties
      <4> HIDE DEF n
      <4> QED  BY <3>1, <4>1
    <3> HIDE DEF n
    <3> QED  BY <2>3, <2>5, <3>2, SeqEqual
  <2> QED  BY <1>1, <2>4, <2>6 DEF Log!Store
<1> QED  BY <1>2, <1>3 DEF WriteEnds

LEMMA StepMaps ==
  ASSUME IInv, PublishInv, [Next]_vars
  PROVE  [Log!Next]_(Log!vars)
<1>1. CASE Write
  <2>1. /\ UNCHANGED <<file, remote, overlapped>> /\ Len(accepted) + 1 \in 1..MaxLines
        /\ accepted' = Append(accepted, Len(accepted) + 1)
    BY <1>1, LoggerAssumption DEF Write, object, IInv, TypeOK
  <2> QED  BY <2>1 DEF Log!Next, Log!Accept
<1>2. CASE WriteEnds  BY <1>2, StoresNext DEF Log!Next
<1>3. ASSUME NEW f \in Flushes, Put(f) PROVE [Log!Next]_(Log!vars)
  <2>1. /\ UNCHANGED <<file, accepted, overlapped>> /\ pc[f] = "put"
        /\ remote' = size[f] \/ remote' = remote
    BY <1>3 DEF Put, object
  <2>2. remote' \in 0 .. Len(file) /\ (~overlapped => remote' \in remote .. Len(file))
    BY <2>1 DEF PublishInv, Grows, IInv, TypeOK
  <2>3. remote' \in (IF overlapped THEN 0 ELSE remote) .. Len(file)  BY <2>2
  <2> QED  BY <2>1, <2>3 DEF Log!Next, Log!Publish
<1>4. ASSUME NEW f \in Flushes, StartUpload(f) \/ FlushAgain(f) \/ (f \in Ticks /\ Tick(f))
      PROVE  [Log!Next]_(Log!vars)
  <2>1. UNCHANGED <<file, accepted, remote>>
    BY <1>4 DEF StartUpload, FlushAgain, Tick, object
  <2>2. overlapped \in BOOLEAN /\ overlapped' \in BOOLEAN
    BY <1>4, StepInv DEF IInv, TypeOK
  <2>3. overlapped' = overlapped \/ overlapped' = ~overlapped  BY <2>2
  <2> QED  BY <2>1, <2>3 DEF Log!Next, Log!Reorder, Log!vars
<1>5. CASE UNCHANGED <<file, accepted, remote, overlapped>>  BY <1>5 DEF Log!vars
<1>6. CASE Open \/ CleanUp \/ Drain \/ Closed \/ (\E f \in Flushes : Stat(f))
             \/ UNCHANGED vars
  BY <1>5, <1>6 DEF Open, CleanUp, Drain, Closed, Stat, object, history, vars
<1>7. Ticks \subseteq Flushes  BY DEF Flushes
<1> QED  BY <1>1, <1>2, <1>3, <1>4, <1>6, <1>7 DEF Next

\* The stream publishes a log, for any number of lines and of flushes under way,
\* writes and uploads of any length and any failures: what is on file are the lines
\* taken, in order, and the object is a prefix of it that never gets shorter, except
\* while uploads overlap that found none under way.
THEOREM PublishesTheLog == Spec => PublishesLog
<1>1. Init => Log!Init  BY DEF Init, Log!Init
<1>2. IInv /\ PublishInv /\ [Next]_vars => PublishInv'  BY StepPublish
<1>3. IInv /\ PublishInv /\ [Next]_vars => [Log!Next]_(Log!vars)  BY StepMaps
<1> QED
  BY <1>1, <1>2, <1>3, InitPublish, Invariance, PTL DEF Spec, PublishesLog, Log!Spec

-----------------------------------------------------------------------------
(* The final object.                                                       *)

\* cleanUp has written what was in the buffer.
Drained == {"close", "wait", "again", "gap", "stat", "put", "done"}

\* It is over, nothing is being uploaded, and no upload has replaced its own by an
\* older one.
Settled ==
  pc["cleanUp"] = "done" /\ ~overlapped /\ \A f \in Flushes : ~Uploading(f)

\* What cleanUp has to publish is on file when it has written, and in the object
\* when it is over; by then whatever is still to be put is the whole file.
FinalInv ==
  /\ atCleanUp <= Len(accepted)
  /\ pc["cleanUp"] \in {"drain", "drainWrite"} => handle = "open"
  /\ ~failed =>
       /\ pc["cleanUp"] = "drainWrite" => atCleanUp <= Len(file) + Len(inFlight)
       /\ pc["cleanUp"] \in Drained => atCleanUp <= Len(file)
       /\ Settled => atCleanUp <= remote /\ ~torn
  /\ handle = "closed" /\ ~overlapped /\ pc["cleanUp"] # "wait" =>
       \A f \in Flushes : pc[f] = "put" => size[f] = Len(file)

LEMMA Lengths ==
  ASSUME IInv
  PROVE  /\ Len(accepted) = Len(file) + Len(buffer)
         /\ Len(file) \in Nat /\ Len(buffer) \in Nat /\ Len(inFlight) \in Nat
         /\ Len(accepted) \in Nat /\ atCleanUp \in Nat /\ remote \in Nat
         /\ buffer = <<>> => Len(buffer) = 0
BY ConcatProperties DEF IInv, TypeOK, NothingLostOrRepeated

LEMMA WriteEndsFinal ==
  ASSUME IInv, PublishInv, FinalInv, WriteEnds
  PROVE  FinalInv'
<1>1. /\ Apart /\ UNCHANGED <<size, remote, torn, accepted, atCleanUp, overlapped>>
      /\ handle' = IF writer = "cleanUp" THEN "closing" ELSE handle
      /\ ~failed' => ~failed
      /\ \/ handle # "closed" /\ file' = file \o inFlight
         \/ file' = file /\ (~failed' => handle # "open")
  <2>1. CASE UNCHANGED failed /\ handle # "closed" /\ file' = file \o inFlight
    <3>1. ~failed' => ~failed  BY <2>1, Zenon
    <3> QED  BY <2>1, <3>1, NamesApart DEF WriteEnds, Resume, object
  <2>2. CASE failed' = (failed \/ handle = "open") /\ file' = file
    <3>1. ~failed' => ~failed /\ handle # "open"  BY <2>2, Zenon
    <3> QED  BY <2>2, <3>1, NamesApart DEF WriteEnds, Resume, object
  <2> QED  BY <2>1, <2>2 DEF WriteEnds
<1>2. \A f \in Flushes :
        \/ f = writer /\ pc'[f] = IF f = "cleanUp" THEN "close" ELSE "gap"
        \/ f # writer /\ (pc'[f] = pc[f] \/ (pc[f] = "drain" /\ pc'[f] = "thrown"))
  BY DEF WriteEnds, Resume
<1>3. Len(file \o inFlight) = Len(file) + Len(inFlight)
  BY ConcatProperties DEF IInv, TypeOK
<1>4. writer = "cleanUp" <=> pc["cleanUp"] = "drainWrite"
  BY DEF PublishInv, Places
<1>5. /\ handle' = "closed" => handle = "closed" /\ file' = file
      /\ pc["cleanUp"] \in {"drain", "drainWrite"} => handle = "open"
      /\ pc'["cleanUp"] = "drain" => pc["cleanUp"] = "drain"
      /\ pc'["cleanUp"] # "drainWrite"
      /\ pc'["cleanUp"] = "close" \/ pc'["cleanUp"] = pc["cleanUp"] \/ pc'["cleanUp"] = "thrown"
      /\ pc'["cleanUp"] = "wait" <=> pc["cleanUp"] = "wait"
  BY <1>1, <1>2, <1>4 DEF FinalInv, Apart
<1>6. \A f \in Flushes : pc'[f] = "put" => pc[f] = "put"  BY <1>2
<1>7. pc'["cleanUp"] \in {"drain", "drainWrite"} => handle' = "open"
  BY <1>1, <1>4, <1>5
<1>8. ASSUME ~failed', pc'["cleanUp"] \in Drained PROVE atCleanUp <= Len(file')
  <2>1. CASE pc["cleanUp"] = "drainWrite"
    <3>1. handle = "open" /\ atCleanUp <= Len(file) + Len(inFlight)
      BY <1>1, <1>8, <2>1 DEF FinalInv
    <3> QED  BY <1>1, <1>3, <1>8, <3>1
  <2>2. CASE pc["cleanUp"] # "drainWrite"
    <3>1. pc'["cleanUp"] = pc["cleanUp"]
      BY <1>1, <1>2, <1>4, <1>8, <2>2 DEF Drained, Apart
    <3>2. atCleanUp <= Len(file)  BY <1>1, <1>8, <3>1 DEF FinalInv
    <3>3. Len(file) <= Len(file')  BY <1>1, <1>3, Lengths
    <3>4. Len(file') \in Nat  BY <1>1, <1>3, Lengths
    <3> QED  BY <3>2, <3>3, <3>4, Lengths
  <2> QED  BY <2>1, <2>2
<1>9. ~failed' /\ Settled' => atCleanUp <= remote /\ ~torn
  <2>1. \A f \in Flushes : Uploading(f) => pc'[f] = pc[f]
    BY <1>1, <1>2 DEF Uploading, PublishInv, Places, Apart
  <2>2. Settled' => Settled
    BY <1>1, <1>2, <1>5, <2>1 DEF Settled, Uploading, Apart
  <2> QED  BY <1>1, <2>2 DEF FinalInv
<1> QED  BY <1>1, <1>5, <1>6, <1>7, <1>8, <1>9 DEF FinalInv

LEMMA PutFinal ==
  ASSUME IInv, PublishInv, FinalInv, NEW f \in Flushes, Put(f)
  PROVE  FinalInv'
<1>1. /\ Apart /\ pc[f] = "put"
      /\ UNCHANGED <<handle, inFlight, file, accepted, atCleanUp, overlapped>>
      /\ pc'[f] = IF f = "cleanUp" THEN "done" ELSE "idle"
      /\ \A g \in Flushes \ {f} :
           /\ pc'[g] = IF pc[g] = "wait" /\ waitFor[g] = f THEN "again" ELSE pc[g]
           /\ size'[g] = size[g]
      /\ ~failed' => /\ ~failed /\ remote' = size[f]
                     /\ torn' => Len(file) > size[f]
  <2>0. TypeOK  BY DEF IInv
  <2>1. CASE /\ remote' = size[f] /\ torn' \in {FALSE, Len(file) > size[f]}
             /\ UNCHANGED failed
    <3>1. ~failed' => ~failed  BY <2>1, Zenon
    <3>2. torn' => Len(file) > size[f]  BY <2>1, Zenon
    <3> QED  BY <2>0, <2>1, <3>1, <3>2, NamesApart DEF Put, Settle, After, writing, TypeOK
  <2>2. CASE failed' = TRUE
    BY <2>0, <2>2, NamesApart DEF Put, Settle, After, writing, TypeOK
  <2> QED  BY <2>1, <2>2 DEF Put
<1>2. /\ pc["cleanUp"] \in {"drain", "drainWrite"} <=> pc'["cleanUp"] \in {"drain", "drainWrite"}
      /\ pc["cleanUp"] = "drainWrite" <=> pc'["cleanUp"] = "drainWrite"
      /\ pc'["cleanUp"] \in Drained <=> pc["cleanUp"] \in Drained
      /\ \A g \in Flushes : pc'[g] = "put" => pc[g] = "put" /\ g # f
  BY <1>1 DEF Drained, Apart
<1>3. handle = "closed" /\ ~overlapped =>
        (pc'["cleanUp"] # "wait" => \A g \in Flushes : pc'[g] = "put" => size[g] = Len(file))
  <2> SUFFICES ASSUME handle = "closed", ~overlapped, pc'["cleanUp"] # "wait",
                      NEW g \in Flushes, pc'[g] = "put"
               PROVE  size[g] = Len(file)
    OBVIOUS
  <2>1. pc[g] = "put" /\ g # f  BY <1>2
  <2> QED  BY <1>1, <2>1 DEF PublishInv, LastOnes, Busy, Working
<1>4. ASSUME ~failed', Settled' PROVE atCleanUp <= remote' /\ ~torn'
  <2>1. pc["cleanUp"] \in {"put", "done"} /\ ~overlapped
    BY <1>1, <1>4 DEF Settled, Apart
  <2>2. handle = "closed"  BY <2>1 DEF PublishInv, Places
  <2>3. size[f] = Len(file)  BY <1>1, <2>1, <2>2 DEF FinalInv
  <2>4. ~failed /\ remote' = Len(file) /\ ~torn'  BY <1>1, <1>4, <2>3, Lengths
  <2> QED  BY <2>1, <2>4 DEF FinalInv, Drained
<1>5. handle' = "closed" /\ ~overlapped' /\ pc'["cleanUp"] # "wait" =>
        \A g \in Flushes : pc'[g] = "put" => size'[g] = Len(file')
  BY <1>1, <1>2, <1>3
<1> QED  BY <1>1, <1>2, <1>4, <1>5 DEF FinalInv

\* The steps that change neither the file nor the object.
LEMMA OtherFinal ==
  ASSUME IInv, PublishInv, FinalInv,
         UNCHANGED <<file, remote, torn, failed>>,
         Open \/ CleanUp \/ Drain \/ Closed \/ Write
           \/ (\E f \in Ticks : Tick(f))
           \/ (\E f \in Flushes : FlushAgain(f) \/ StartUpload(f) \/ Stat(f))
  PROVE  FinalInv'
<1>0. Apart /\ TypeOK /\ pc \in [Flushes -> PCs]  BY NamesApart DEF IInv, TypeOK
<1>1. CASE Open
  <2>1. /\ handle = "none" /\ handle' = "open"
        /\ UNCHANGED <<accepted, atCleanUp>>
        /\ pc'["cleanUp"] = "idle"
    BY <1>0, <1>1, FlushCases DEF Open, history, PublishInv, BeforeUse, Apart
  <2> QED  BY <2>1 DEF FinalInv, Drained, Settled
<1>2. CASE Write
  <2>1. UNCHANGED <<handle, pc, size, atCleanUp, overlapped>>
        /\ Len(accepted') = Len(accepted) + 1
    BY <1>0, <1>2, AppendProperties DEF Write, TypeOK
  <2>2. pc["cleanUp"] = "drainWrite" => UNCHANGED inFlight
    BY <1>0, <1>2 DEF Write, PublishInv, Places, Apart
  <2> QED  BY <2>1, <2>2, Lengths DEF FinalInv, Settled, Uploading
<1>3. CASE CleanUp
  <2>1. /\ UNCHANGED <<handle, accepted, size>> /\ handle = "open"
        /\ atCleanUp' = Len(accepted) /\ pc'["cleanUp"] = "drain"
    BY <1>0, <1>3 DEF CleanUp, Apart
  <2> QED  BY <2>1, Lengths DEF FinalInv, Drained, Settled
<1>4. CASE Drain
  <2>1. pc["cleanUp"] = "drain" /\ handle = "open" /\ UNCHANGED <<accepted, atCleanUp, size>>
    BY <1>4 DEF Drain, history, FinalInv
  <2>2. CASE buffer = <<>>
    <3>1. handle' = "closing" /\ pc'["cleanUp"] = "close"  BY <1>0, <1>4, <2>2 DEF Drain, Apart
    <3>2. atCleanUp <= Len(file)  BY <2>2, Lengths DEF FinalInv
    <3> QED  BY <2>1, <3>1, <3>2 DEF FinalInv, Settled
  <2>3. CASE buffer # <<>>
    <3>1. /\ handle' = handle /\ pc'["cleanUp"] = "drainWrite" /\ inFlight' = buffer
      BY <1>0, <1>4, <2>3 DEF Drain, Apart
    <3>2. atCleanUp <= Len(file) + Len(buffer)  BY Lengths DEF FinalInv
    <3> QED  BY <2>1, <3>1, <3>2 DEF FinalInv, Drained, Settled
  <2> QED  BY <2>2, <2>3
<1>5. CASE Closed
  <2>1. /\ handle' = "closed" /\ handle # "closed" /\ pc["cleanUp"] = "close"
        /\ UNCHANGED <<accepted, atCleanUp, size, overlapped>>
    BY <1>5 DEF Closed, history, PublishInv, Places
  <2>2. /\ \A g \in Flushes \ {"cleanUp"} : pc'[g] = pc[g]
        /\ \/ uploadingPromise # None /\ pc'["cleanUp"] = "wait"
           \/ uploadingPromise = None /\ pc'["cleanUp"] = "gap"
    BY <1>0, <1>5, FlushCases DEF Closed, Forced, Apart
  <2>3. uploadingPromise = None /\ ~overlapped => \A g \in Flushes : pc[g] # "put"
    BY <1>0, <2>1 DEF PublishInv, Exclusive, Uploading, Apart
  <2> QED  BY <1>0, <2>1, <2>2, <2>3 DEF FinalInv, Drained, Settled, Apart
<1>6. ASSUME NEW f \in Flushes, Flush(f),
             (f \in Ticks /\ pc[f] = "idle") \/ pc[f] = "again",
             overlapped' = (overlapped \/ Unnoticed(f)),
             UNCHANGED <<handle, size, accepted, atCleanUp>>
      PROVE  FinalInv'
  <2>1. ~overlapped' => ~overlapped  BY <1>6, Zenon
  <2>2. /\ f = "init" \/ f = "cleanUp" \/ f \in Ticks
        /\ \A g \in Flushes \ {f} : pc'[g] = pc[g]
        /\ pc'[f] \in {"idle", "wait", "write", "gap"}
        /\ f = "cleanUp" => pc'[f] # "idle" /\ pc'[f] # "write"
    BY <1>0, <1>6, FlushCases DEF Apart, Forced
  <2>3. f = "cleanUp" => pc["cleanUp"] = "again" /\ handle = "closed"
    BY <1>0, <1>6 DEF Apart, PublishInv, Places
  <2>4. \A g \in Flushes : pc'[g] = "put" => pc[g] = "put"  BY <2>2
  <2>5. pc["cleanUp"] = "drainWrite" => inFlight # <<>>
    BY <1>0 DEF PublishInv, Places, Apart
  <2>6. pc["cleanUp"] = "drainWrite" => UNCHANGED inFlight
    BY <1>0, <1>6, <2>5, FlushCases DEF CanWrite
  <2>7. \A g \in Flushes : Uploading(g) => Uploading(g)'
    BY <1>0, <1>6, <2>2 DEF Uploading
  <2>8. Settled' => Settled
    BY <1>0, <2>1, <2>2, <2>7 DEF Settled, Apart
  <2> QED
    BY <1>0, <1>6, <2>1, <2>2, <2>3, <2>4, <2>6, <2>8 DEF FinalInv, Drained, Apart
<1>7. ASSUME NEW f \in Flushes, StartUpload(f) \/ Stat(f) PROVE FinalInv'
  <2>1. /\ UNCHANGED <<handle, inFlight, accepted, atCleanUp>>
        /\ \A g \in Flushes \ {f} : pc'[g] = pc[g] /\ size'[g] = size[g]
        /\ \/ pc[f] = "gap" /\ pc'[f] = "stat"
           \/ pc[f] = "stat" /\ pc'[f] = "put" /\ size'[f] = Len(file)
    BY <1>0, <1>7 DEF StartUpload, Stat, writing, history, TypeOK
  <2>2. f = "cleanUp" => handle = "closed"
    BY <2>1 DEF PublishInv, Places
  <2>3. ~Settled'  BY <2>1 DEF Settled, Uploading
  <2>4. overlapped /\ ~overlapped' => \A g \in Flushes : pc'[g] # "put"
    <3>1. CASE StartUpload(f)
      <4>1. overlapped /\ ~overlapped' => ~OthersAtWork(f)  BY <3>1, Zenon DEF StartUpload
      <4> QED  BY <2>1, <3>1, <4>1 DEF OthersAtWork, StartUpload
    <3>2. CASE Stat(f)  BY <3>2, Zenon DEF Stat, history
    <3> QED  BY <1>7, <3>1, <3>2
  <2> QED  BY <1>0, <2>1, <2>2, <2>3, <2>4 DEF FinalInv, Drained, Apart
<1>8. ASSUME NEW f \in Ticks, Tick(f) PROVE FinalInv'
  BY <1>0, <1>6, <1>8 DEF Tick, Apart
<1>9. ASSUME NEW f \in Flushes, FlushAgain(f) PROVE FinalInv'
  BY <1>6, <1>9 DEF FlushAgain
<1> QED  BY <1>1, <1>2, <1>3, <1>4, <1>5, <1>7, <1>8, <1>9

LEMMA StepFinal ==
  ASSUME IInv, PublishInv, FinalInv, [Next]_vars
  PROVE  FinalInv'
<1>1. CASE WriteEnds  BY <1>1, WriteEndsFinal
<1>2. ASSUME NEW f \in Flushes, Put(f) PROVE FinalInv'  BY <1>2, PutFinal
<1>3. CASE \/ Open \/ CleanUp \/ Drain \/ Closed \/ Write
           \/ \E f \in Ticks : Tick(f)
           \/ \E f \in Flushes : FlushAgain(f) \/ StartUpload(f) \/ Stat(f)
  <2>1. UNCHANGED <<file, remote, torn, failed>>
    BY <1>3 DEF Open, CleanUp, Drain, Closed, Write, Tick, FlushAgain, StartUpload, Stat,
       object, history
  <2> QED  BY <1>3, <2>1, OtherFinal
<1>4. CASE UNCHANGED vars
  BY <1>4 DEF vars, writing, object, history, FinalInv, Settled, Uploading
<1> QED  BY <1>1, <1>2, <1>3, <1>4 DEF Next

\* When cleanUp is over and nothing is under way, no operation failed and no uploads
\* that overlapped were under way when the file was closed, the object has every line
\* taken before cleanUp was called, and no piece of another, for any number of lines
\* and of flushes under way, and writes and uploads of any length.
THEOREM FinalLogIsComplete ==
  ASSUME NEW n \in 1..MaxLines
  PROVE  Spec => []InFinalLog(n)
<1>1. Init => FinalInv
  BY NamesApart DEF Init, FinalInv, Drained, Settled, Apart
<1>2. IInv /\ PublishInv /\ FinalInv /\ [Next]_vars => FinalInv'  BY StepFinal
<1>3. IInv /\ PublishInv /\ [Next]_vars => PublishInv'  BY StepPublish
<1>4. IInv /\ FinalInv => InFinalLog(n)
  <2> SUFFICES ASSUME IInv, FinalInv PROVE InFinalLog(n)  OBVIOUS
  <2>1. n \in Nat  BY LoggerAssumption
  <2>2. (\A f \in Flushes : pc[f] \in {"idle", "done"}) => \A f \in Flushes : ~Uploading(f)
    BY DEF Uploading
  <2> QED  BY <2>1, <2>2, Lengths DEF FinalInv, InFinalLog, Settled
<1> QED
  BY <1>1, <1>2, <1>3, <1>4, InitPublish, Invariance, PTL DEF Spec

=============================================================================
