---------------------------- MODULE RemoteLogger ----------------------------
(***************************************************************************)
(* RemoteLoggerStream (build-tools/src/logging/RemoteLoggerStream.ts):       *)
(* lines are buffered, written to a temporary file one batch at a time, and  *)
(* the whole file is uploaded again and again over the same object, by the   *)
(* flush of init, of the upload interval and of cleanUp.                    *)
(*                                                                          *)
(* An action runs from one I/O completion or timer to the next await.  The   *)
(* awaits that are resumed without I/O (microtasks) are the states "again"   *)
(* and "gap" of a flush, and "drain" of cleanUp when no batch is under way;  *)
(* no other callback runs while there is one (Quiet).  The retries of an      *)
(* upload are part of one Put, which comes as late as it likes: an upload     *)
(* may outlast any number of ticks.                                         *)
(***************************************************************************)
EXTENDS Naturals, Sequences

CONSTANTS
  Ticks,      \* flushes of the upload interval that may be under way at once
  MaxLines,   \* bound on the lines written
  None

Flushes == Ticks \cup {"init", "cleanUp"}

ASSUME LoggerAssumption ==
  /\ MaxLines \in Nat
  /\ {"init", "cleanUp", "write"} \cap Ticks = {}
  /\ None \notin Flushes \cup {"write"}

VARIABLES
  handle,     \* fileHandle; closed by fs.close before it is unset
  buffer,
  inFlight,   \* the batch writePromise is for, <<>> when there is none
  writer,     \* who awaits the batch: a flush, cleanUp, or "write" (nobody)
  file,       \* the temporary file
  hasChangesToUpload,
  uploadingPromise,  \* the flush whose upload it stands for
  ticking,    \* flushInterval is set
  pc,         \* where each flush is, for cleanUp with the steps before it
  waitFor,    \* the upload a waiting flush awaits, else None
  size,       \* what each upload's stat found, 0 when it has ended
  remote,     \* length of the uploaded object
  torn,       \* it ends with a piece of a further line
  accepted,   \* history: lines write() put into the buffer
  atCleanUp,  \* history: how many there were when cleanUp was called
  failed,     \* history: a write to the open file or an upload failed
  overlapped  \* history: uploads of the open file overlap, see Unnoticed

writing == <<buffer, inFlight, writer>>
object  == <<remote, torn>>
history == <<accepted, atCleanUp, failed, overlapped>>
vars == <<handle, writing, file, hasChangesToUpload, uploadingPromise, ticking,
          pc, waitFor, size, object, history>>

PCs == {"idle", "wait", "again", "write", "gap", "stat", "put",
        "drain", "drainWrite", "close", "done", "thrown"}

\* One invariant for the shape of every variable.
TypeOK ==
  /\ handle \in {"none", "open", "closing", "closed"}
  /\ buffer \in Seq(Nat) /\ inFlight \in Seq(Nat) /\ file \in Seq(Nat)
  /\ writer \in Flushes \cup {"write", None}
  /\ hasChangesToUpload \in BOOLEAN /\ ticking \in BOOLEAN
  /\ uploadingPromise \in Flushes \cup {None}
  /\ pc \in [Flushes -> PCs]
  /\ waitFor \in [Flushes -> Flushes \cup {None}]
  /\ size \in [Flushes -> Nat]
  /\ remote \in Nat /\ torn \in BOOLEAN
  /\ accepted \in Seq(Nat) /\ atCleanUp \in Nat
  /\ failed \in BOOLEAN /\ overlapped \in BOOLEAN

Init ==
  /\ handle = "none"
  /\ buffer = <<>> /\ inFlight = <<>> /\ writer = None /\ file = <<>>
  /\ hasChangesToUpload = FALSE /\ uploadingPromise = None /\ ticking = FALSE
  /\ pc = [f \in Flushes |-> "idle"]
  /\ waitFor = [f \in Flushes |-> None]
  /\ size = [f \in Flushes |-> 0]
  /\ remote = 0 /\ torn = FALSE
  /\ accepted = <<>> /\ atCleanUp = 0
  /\ failed = FALSE /\ overlapped = FALSE

Quiet ==
  /\ \A f \in Flushes : pc[f] \notin {"again", "gap"}
  /\ pc["cleanUp"] = "drain" => inFlight # <<>>

\* init has returned: only then does the logger get lines and is cleanUp known.
InUse == handle # "none" /\ pc["init"] = "idle"

-----------------------------------------------------------------------------
(* Writing to the file.                                                    *)

\* safeWriteToFile, not forced: whether it starts a batch.
CanWrite == handle \in {"open", "closing"} /\ inFlight = <<>> /\ buffer # <<>>

\* write(): buffered, and written unless a batch is under way.
Write ==
  LET l == Len(accepted) + 1
  IN  /\ Quiet /\ InUse /\ handle \in {"open", "closing"}
      /\ Len(accepted) < MaxLines
      /\ accepted' = Append(accepted, l) /\ buffer' = Append(buffer, l)
      /\ IF inFlight = <<>> THEN inFlight' = buffer' /\ writer' = "write"
                            ELSE UNCHANGED <<inFlight, writer>>
      /\ UNCHANGED <<handle, file, hasChangesToUpload, uploadingPromise,
                     ticking, pc, waitFor, size, object, atCleanUp, failed,
                     overlapped>>

\* Who awaited the batch goes on: a flush to its upload, cleanUp to fs.close.
\* A cleanUp that waits for somebody else's batch does not survive its failure.
Resume(failing) ==
  /\ pc' = [f \in Flushes |->
              IF f = writer THEN IF f = "cleanUp" THEN "close" ELSE "gap"
              ELSE IF failing /\ pc[f] = "drain" THEN "thrown" ELSE pc[f]]
  /\ handle' = IF writer = "cleanUp" THEN "closing" ELSE handle

\* Fault: the buffer is emptied, with the lines that came meanwhile.
KeepRestNone == <<>>

\* The lines that came while the batch was written.
KeepRest == SubSeq(buffer, Len(inFlight) + 1, Len(buffer))

\* A batch sent to a file that fs.close is closing may still land; one that
\* does not, or comes too late, fails.
WriteEnds ==
  /\ Quiet /\ inFlight # <<>>
  /\ \/ /\ handle # "closed"
        /\ file' = file \o inFlight /\ buffer' = KeepRest
        /\ hasChangesToUpload' = TRUE /\ UNCHANGED failed /\ Resume(FALSE)
     \/ /\ failed' = (failed \/ handle = "open") /\ Resume(TRUE)
        /\ UNCHANGED <<file, buffer, hasChangesToUpload>>
  /\ inFlight' = <<>> /\ writer' = None
  /\ UNCHANGED <<uploadingPromise, ticking, waitFor, size, object, accepted,
                 atCleanUp, overlapped>>

-----------------------------------------------------------------------------
(* Flushes and uploads.                                                    *)

Forced(f) == f \in {"init", "cleanUp"}

\* Fault: an upload under way is not waited for.
FlushWithoutWaiting(f) ==
  \/ /\ ~Forced(f) /\ ~hasChangesToUpload
     /\ pc' = [pc EXCEPT ![f] = "idle"] /\ UNCHANGED <<waitFor, inFlight, writer>>
  \/ /\ Forced(f) \/ hasChangesToUpload
     /\ IF CanWrite /\ f # "cleanUp"
          THEN /\ pc' = [pc EXCEPT ![f] = "write"]
               /\ inFlight' = buffer /\ writer' = f
          ELSE /\ pc' = [pc EXCEPT ![f] = "gap"] /\ UNCHANGED <<inFlight, writer>>
     /\ UNCHANGED waitFor

\* flush, up to its first await: nothing to do, or wait for the upload under
\* way, or flushInternal, which first writes what is buffered.
Flush(f) ==
  \/ /\ ~Forced(f) /\ ~hasChangesToUpload
     /\ pc' = [pc EXCEPT ![f] = "idle"] /\ UNCHANGED <<waitFor, inFlight, writer>>
  \/ /\ Forced(f) \/ hasChangesToUpload
     /\ uploadingPromise # None
     /\ pc' = [pc EXCEPT ![f] = "wait"]
     /\ waitFor' = [waitFor EXCEPT ![f] = uploadingPromise]
     /\ UNCHANGED <<inFlight, writer>>
  \/ /\ Forced(f) \/ hasChangesToUpload
     /\ uploadingPromise = None
     /\ IF CanWrite /\ f # "cleanUp"   \* cleanUp flushes with no file handle
          THEN /\ pc' = [pc EXCEPT ![f] = "write"]
               /\ inFlight' = buffer /\ writer' = f
          ELSE /\ pc' = [pc EXCEPT ![f] = "gap"] /\ UNCHANGED <<inFlight, writer>>
     /\ UNCHANGED waitFor

\* A flush finds no upload under way although another has looked before it and not
\* started its own yet, so that both upload: flushes that waited for one upload do
\* so, and one that comes while another writes to the file.  From a closed file
\* all upload the same.
Unnoticed(f) ==
  /\ handle # "closed" /\ uploadingPromise = None
  /\ Forced(f) \/ hasChangesToUpload
  /\ \E g \in Flushes \ {f} : pc[g] \in {"write", "gap"}

\* init: the file is open, the interval is set, the first upload starts.
Open ==
  /\ Quiet /\ handle = "none"
  /\ handle' = "open" /\ ticking' = TRUE
  /\ Flush("init")
  /\ UNCHANGED <<buffer, file, hasChangesToUpload, uploadingPromise, size,
                 object, history>>

\* A tick of the upload interval.  One with nothing to do leaves no trace.
Tick(f) ==
  /\ Quiet /\ ticking /\ pc[f] = "idle" /\ hasChangesToUpload
  /\ Flush(f)
  /\ overlapped' = (overlapped \/ Unnoticed(f))
  /\ UNCHANGED <<handle, buffer, file, hasChangesToUpload, uploadingPromise,
                 ticking, size, object, accepted, atCleanUp, failed>>

\* A flush that waited for an upload looks again.
FlushAgain(f) ==
  /\ pc[f] = "again" /\ Flush(f)
  /\ overlapped' = (overlapped \/ Unnoticed(f))
  /\ UNCHANGED <<handle, buffer, file, hasChangesToUpload, uploadingPromise,
                 ticking, size, object, accepted, atCleanUp, failed>>

\* A flush is under way besides this one.
OthersAtWork(f) ==
  \E g \in Flushes \ {f} : pc[g] \in {"wait", "again", "write", "gap", "stat", "put"}

\* flushInternal after the write.  Flushes woken together all look again
\* before the first of them gets here.  An upload that starts alone ends an overlap.
StartUpload(f) ==
  /\ pc[f] = "gap" /\ \A g \in Flushes : pc[g] # "again"
  /\ pc' = [pc EXCEPT ![f] = "stat"]
  /\ hasChangesToUpload' = FALSE
  /\ uploadingPromise' = f
  /\ overlapped' = (overlapped /\ OthersAtWork(f))
  /\ UNCHANGED <<handle, writing, file, ticking, waitFor, size, object, accepted,
                 atCleanUp, failed>>

\* Fault: the last byte to send, and an empty file has none.
StatLastByte(f) ==
  /\ Quiet /\ pc[f] = "stat"
  /\ size' = [size EXCEPT ![f] = Len(file) - 1]
  /\ pc' = [pc EXCEPT ![f] = "put"]
  /\ UNCHANGED <<handle, writing, file, hasChangesToUpload, uploadingPromise,
                 ticking, waitFor, object, history>>

\* upload: how much of the file there is.
Stat(f) ==
  /\ Quiet /\ pc[f] = "stat"
  /\ size' = [size EXCEPT ![f] = Len(file)]
  /\ pc' = [pc EXCEPT ![f] = "put"]
  /\ UNCHANGED <<handle, writing, file, hasChangesToUpload, uploadingPromise,
                 ticking, waitFor, object, history>>

After(f) == IF f = "cleanUp" THEN "done" ELSE "idle"

\* Fault: the upload's promise is never resolved.
SettleNobody(f) ==
  /\ uploadingPromise' = None
  /\ pc' = [pc EXCEPT ![f] = After(f)]
  /\ UNCHANGED hasChangesToUpload

\* Fault: the changes are marked as uploaded when the upload ends.
SettleForgetting(f) ==
  /\ uploadingPromise' = None
  /\ pc' = [g \in Flushes |->
              IF g = f THEN After(f)
              ELSE IF pc[g] = "wait" /\ waitFor[g] = f THEN "again" ELSE pc[g]]
  /\ hasChangesToUpload' = FALSE

\* The upload's promise is settled, whichever upload it was: it is unset even
\* when a later upload has taken its place.
Settle(f) ==
  /\ uploadingPromise' = None
  /\ pc' = [g \in Flushes |->
              IF g = f THEN After(f)
              ELSE IF pc[g] = "wait" /\ waitFor[g] = f THEN "again" ELSE pc[g]]
  /\ UNCHANGED hasChangesToUpload

\* The stream ends at the byte after the size that stat found, so the object
\* has a piece of the next line when the file has grown by then.
Put(f) ==
  /\ Quiet /\ pc[f] = "put"
  /\ \/ /\ remote' = size[f] /\ torn' \in {FALSE, Len(file) > size[f]}
        /\ UNCHANGED failed
     \/ failed' = TRUE /\ UNCHANGED object
  /\ Settle(f)
  /\ size' = [size EXCEPT ![f] = 0]
  /\ waitFor' = [g \in Flushes |-> IF waitFor[g] = f THEN None ELSE waitFor[g]]
  /\ UNCHANGED <<handle, writing, file, ticking, accepted, atCleanUp,
                 overlapped>>

-----------------------------------------------------------------------------
(* cleanUp.  A second call returns at once.                                *)

CleanUp ==
  /\ Quiet /\ InUse /\ handle = "open" /\ pc["cleanUp"] = "idle" /\ ticking
  /\ ticking' = FALSE
  /\ pc' = [pc EXCEPT !["cleanUp"] = "drain"]
  /\ atCleanUp' = Len(accepted)
  /\ UNCHANGED <<handle, writing, file, hasChangesToUpload, uploadingPromise,
                 waitFor, size, object, accepted, failed, overlapped>>

\* Fault: the last write is not forced and gives way to one under way.
DrainUnforced ==
  /\ pc["cleanUp"] = "drain"
  /\ IF inFlight # <<>> \/ buffer = <<>>
       THEN /\ pc' = [pc EXCEPT !["cleanUp"] = "close"] /\ handle' = "closing"
            /\ UNCHANGED writing
       ELSE /\ pc' = [pc EXCEPT !["cleanUp"] = "drainWrite"]
            /\ inFlight' = buffer /\ writer' = "cleanUp"
            /\ UNCHANGED <<buffer, handle>>
  /\ UNCHANGED <<file, hasChangesToUpload, uploadingPromise, ticking, waitFor,
                 size, object, history>>

\* safeWriteToFile(true): after the batch under way, one more.
Drain ==
  /\ pc["cleanUp"] = "drain" /\ inFlight = <<>>
  /\ IF buffer = <<>>
       THEN /\ pc' = [pc EXCEPT !["cleanUp"] = "close"] /\ handle' = "closing"
            /\ UNCHANGED writing
       ELSE /\ pc' = [pc EXCEPT !["cleanUp"] = "drainWrite"]
            /\ inFlight' = buffer /\ writer' = "cleanUp"
            /\ UNCHANGED <<buffer, handle>>
  /\ UNCHANGED <<file, hasChangesToUpload, uploadingPromise, ticking, waitFor,
                 size, object, history>>

\* fs.close ends, and the last flush starts.
Closed ==
  /\ Quiet /\ pc["cleanUp"] = "close"
  /\ handle' = "closed"
  /\ Flush("cleanUp")
  /\ UNCHANGED <<buffer, file, hasChangesToUpload, uploadingPromise, ticking,
                 size, object, history>>

-----------------------------------------------------------------------------

Next ==
  \/ Open \/ Write \/ WriteEnds \/ CleanUp \/ Drain \/ Closed
  \/ \E f \in Ticks : Tick(f)
  \/ \E f \in Flushes : FlushAgain(f) \/ StartUpload(f) \/ Stat(f) \/ Put(f)

Spec == Init /\ [][Next]_vars

\* File operations, requests and timers complete.  Nothing makes a line be
\* written or cleanUp be called.
Fairness ==
  /\ WF_vars(WriteEnds) /\ WF_vars(Drain) /\ WF_vars(Closed)
  /\ \A f \in Ticks : WF_vars(Tick(f))
  /\ \A f \in Flushes :
       WF_vars(FlushAgain(f) \/ StartUpload(f) \/ Stat(f) \/ Put(f))
FairSpec == Spec /\ Fairness

-----------------------------------------------------------------------------
(* Properties.                                                             *)

\* However the writes of lines, flushes and cleanUp interleave, a line taken
\* is on file once and in its place, or still in the buffer.
NothingLostOrRepeated == file \o buffer = accepted

\* When cleanUp is over and every upload has ended, the object has every line
\* taken before cleanUp was called, and no piece of another, unless some
\* operation failed or uploads that overlapped were still under way when the file
\* was closed: then an older copy may be the last to arrive.
InFinalLog(n) ==
  /\ pc["cleanUp"] = "done" /\ ~failed /\ ~overlapped
  /\ \A f \in Flushes : pc[f] \in {"idle", "done"}
  => (n <= atCleanUp => remote >= n) /\ ~torn

\* The stream publishes a log: a refinement of PublishedLog, whose order is lost
\* while uploads overlap.
Log == INSTANCE PublishedLog WITH Lines <- 1..MaxLines, stored <- file,
                                 published <- remote, unordered <- overlapped
PublishesLog == Log!Spec

\* cleanUp ends, whatever lines are still coming, if only with the error of a
\* write it waited for.
CleanUpEnds == pc["cleanUp"] = "drain" ~> pc["cleanUp"] \in {"done", "thrown"}

\* While the stream is in use, whatever is on file gets uploaded without any
\* further line: a batch that ends during an upload is not forgotten.  (A line
\* still in the buffer may have to wait for the next line or for cleanUp.)
\* Nor does a line, once uploads have overlapped, until an upload starts alone: an
\* older copy may have replaced the one that has it.
GetsUploaded(n) ==
  Len(file) >= n ~> remote >= n \/ failed \/ overlapped \/ ~ticking

\* The stream gets on with its work, in use and when it is closed, and leaves a
\* complete object.
StreamProgresses ==
  CleanUpEnds /\ \A n \in 1..MaxLines : GetsUploaded(n) /\ []InFinalLog(n)

=============================================================================
