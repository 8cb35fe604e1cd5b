------------------------------ MODULE HttpLog ------------------------------
(***************************************************************************)
(* HttpLogStream (build-tools/src/logging/HttpLogStream.ts): log entries are *)
(* buffered and posted in batches, one request at a time.  A failed batch    *)
(* goes back to the front of the buffer, entries past the retention are      *)
(* dropped, and cleanUp tries what is left once more.                       *)
(*                                                                          *)
(* When a request settles, the functions chained to it run one after the     *)
(* other, in the order they were chained; no other callback runs meanwhile.  *)
(* Entries are numbered as they are written.                                *)
(***************************************************************************)
EXTENDS Naturals, Sequences

CONSTANTS
  Cleaners,   \* calls of cleanUp
  MaxEntries, \* bound on the entries written
  Retries,    \* further attempts of a batch
  Retention   \* whether buffered entries expire

ASSUME HttpLogAssumption ==
  /\ MaxEntries \in Nat /\ Retries \in Nat /\ Retention \in BOOLEAN
  /\ "loop" \notin Cleaners

VARIABLES
  writable,
  buffer,
  batch,     \* the batch in flight, <<>> when there is none
  attempt,
  waiters,   \* who chained to the request; the first is who sent it
  resumed,   \* who chained to a request that settled, still to be run
  cleaner,
  expired,   \* entries up to this one are past the retention
  received,  \* the entries the server got, some of them more than once
  written,   \* history: entries taken
  trimmed,   \* history: entries dropped as expired
  abandoned, \* history: entries a cleanUp failed to send
  atCleanUp  \* history: entries taken when cleanUp was last called

request == <<batch, attempt, waiters>>
history == <<trimmed, abandoned>>
vars == <<writable, buffer, request, resumed, cleaner, expired, received,
          written, history, atCleanUp>>

Entries == 1..MaxEntries

\* One invariant for the shape of every variable.
TypeOK ==
  /\ writable \in BOOLEAN
  /\ buffer \in Seq(Entries) /\ batch \in Seq(Entries)
  /\ attempt \in 0..Retries
  /\ waiters \in Seq(Cleaners \cup {"loop"})
  /\ resumed \in Seq(Cleaners \cup {"loop"})
  /\ batch # <<>> <=> waiters # <<>>
  /\ cleaner \in [Cleaners -> {"idle", "wait", "done"}]
  /\ expired \in 0..written /\ written \in 0..MaxEntries
  /\ received \subseteq Entries
  /\ trimmed \subseteq Entries /\ abandoned \subseteq Entries
  /\ atCleanUp \in 0..MaxEntries

Init ==
  /\ writable = TRUE
  /\ buffer = <<>> /\ batch = <<>> /\ attempt = 0
  /\ waiters = <<>> /\ resumed = <<>>
  /\ cleaner = [c \in Cleaners |-> "idle"]
  /\ expired = 0 /\ received = {}
  /\ written = 0 /\ trimmed = {} /\ abandoned = {} /\ atCleanUp = 0

Quiet == resumed = <<>>
InFlight == batch # <<>>
Elements(s) == {s[i] : i \in 1..Len(s)}

-----------------------------------------------------------------------------

\* trimExpiredBufferedLogs cuts k entries off the front.
Trims(buf, k) ==
  /\ \A i \in 1..k : buf[i] <= expired
  /\ k < Len(buf) => buf[k + 1] > expired

\* takeBatch: at least one entry, how many depends on their sizes.
StartBatch(buf, who) ==
  \E n \in 1..Len(buf) :
    /\ batch' = SubSeq(buf, 1, n)
    /\ buffer' = SubSeq(buf, n + 1, Len(buf))
    /\ attempt' = 0 /\ waiters' = <<who>>

\* flush with no request in flight.  A cleanUp that finds nothing to send is
\* over, one that sends waits for its request.
Flush(buf, who) ==
  \E k \in 0..Len(buf) :
    LET rest == SubSeq(buf, k + 1, Len(buf))
        Turn(s) == cleaner' = [c \in Cleaners |-> IF c = who THEN s ELSE cleaner[c]]
    IN  /\ Trims(buf, k)
        /\ trimmed' = trimmed \cup {buf[i] : i \in 1..k}
        /\ \/ rest = <<>> /\ buffer' = <<>> /\ Turn("done") /\ UNCHANGED request
           \/ rest # <<>> /\ StartBatch(rest, who) /\ Turn("wait")

\* _write: an entry is taken, and sent with what is buffered unless a request
\* is in flight.  The stream takes entries after cleanUp too.
Write ==
  LET e == written + 1
  IN  /\ Quiet /\ written < MaxEntries
      /\ written' = e
      /\ \/ /\ InFlight
            /\ \E k \in 0..Len(buffer) :
                 /\ Trims(buffer, k)
                 /\ buffer' = Append(SubSeq(buffer, k + 1, Len(buffer)), e)
                 /\ trimmed' = trimmed \cup {buffer[i] : i \in 1..k}
            /\ UNCHANGED <<request, cleaner>>
         \/ ~InFlight /\ Flush(Append(buffer, e), "loop")
      /\ UNCHANGED <<writable, resumed, expired, received, abandoned, atCleanUp>>

\* Time passes.
Expire ==
  /\ Retention /\ Quiet /\ expired < written
  /\ expired' = expired + 1
  /\ UNCHANGED <<writable, buffer, request, resumed, cleaner, received, written,
                 history, atCleanUp>>

\* flush({isCleanup}) for a cleanUp: chained to the request in flight, or a
\* flush of its own.
CleanUpFlush(c) ==
  \/ /\ InFlight
     /\ waiters' = Append(waiters, c)
     /\ cleaner' = [cleaner EXCEPT ![c] = "wait"]
     /\ UNCHANGED <<buffer, batch, attempt, trimmed>>
  \/ ~InFlight /\ Flush(buffer, c)

\* cleanUp
CleanUp(c) ==
  /\ Quiet /\ cleaner[c] = "idle"
  /\ writable' = FALSE
  /\ CleanUpFlush(c)
  /\ atCleanUp' = written
  /\ UNCHANGED <<resumed, expired, received, written, abandoned>>

-----------------------------------------------------------------------------

\* The server gets the batch.
Receive == received' = received \cup Elements(batch)

\* The request has settled: who chained to it is resumed.
Settle ==
  /\ batch' = <<>> /\ attempt' = 0 /\ waiters' = <<>>
  /\ resumed' = waiters

\* The batch was accepted.
RequestSucceeds ==
  /\ Quiet /\ InFlight
  /\ Receive /\ Settle
  /\ UNCHANGED <<writable, buffer, cleaner, expired, written, history, atCleanUp>>

\* Fault: the failed batch is appended to the buffer.
GiveBackBehind ==
  IF waiters[1] = "loop"
    THEN buffer' = buffer \o batch /\ UNCHANGED abandoned
    ELSE abandoned' = abandoned \cup Elements(batch) /\ UNCHANGED buffer

\* Fault: the failed batch is not kept once cleanUp was called.
GiveBackWritable ==
  /\ buffer' = IF writable THEN batch \o buffer ELSE buffer
  /\ UNCHANGED abandoned

\* Fault: the batch of a cleanUp is kept as well.
GiveBackAlways == buffer' = batch \o buffer /\ UNCHANGED abandoned

\* The batch is kept to be sent again, except by a cleanUp.
GiveBack ==
  IF waiters[1] = "loop"
    THEN buffer' = batch \o buffer /\ UNCHANGED abandoned
    ELSE abandoned' = abandoned \cup Elements(batch) /\ UNCHANGED buffer

\* Fault: one attempt too many.
AttemptFailsOnceMore ==
  /\ Quiet /\ InFlight
  /\ Receive \/ UNCHANGED received
  /\ IF attempt <= Retries
       THEN attempt' = attempt + 1 /\ UNCHANGED <<batch, waiters, resumed, buffer, abandoned>>
       ELSE Settle /\ GiveBack
  /\ UNCHANGED <<writable, cleaner, expired, written, trimmed, atCleanUp>>

\* An attempt fails, or times out when the server has got it already.
AttemptFails ==
  /\ Quiet /\ InFlight
  /\ Receive \/ UNCHANGED received
  /\ IF attempt < Retries
       THEN attempt' = attempt + 1 /\ UNCHANGED <<batch, waiters, resumed, buffer, abandoned>>
       ELSE Settle /\ GiveBack
  /\ UNCHANGED <<writable, cleaner, expired, written, trimmed, atCleanUp>>

\* Fault: a failed batch waits for the next entry.
RunLoopEmptied ==
  /\ resumed # <<>> /\ Head(resumed) = "loop"
  /\ resumed' = Tail(resumed)
  /\ UNCHANGED <<buffer, request, trimmed, cleaner>>
  /\ UNCHANGED <<writable, expired, received, written, abandoned, atCleanUp>>

\* The next batch, while the stream is writable.
RunLoop ==
  /\ resumed # <<>> /\ Head(resumed) = "loop"
  /\ resumed' = Tail(resumed)
  /\ IF writable /\ buffer # <<>> /\ ~InFlight THEN Flush(buffer, "loop")
     ELSE UNCHANGED <<buffer, request, trimmed, cleaner>>
  /\ UNCHANGED <<writable, expired, received, written, abandoned, atCleanUp>>

\* Fault: a cleanUp waits for the request in flight and no further.
RunCleanerOnce(c) ==
  /\ resumed # <<>> /\ Head(resumed) = c
  /\ resumed' = Tail(resumed)
  /\ cleaner' = [cleaner EXCEPT ![c] = "done"]
  /\ UNCHANGED <<buffer, request, trimmed>>
  /\ UNCHANGED <<writable, expired, received, written, abandoned, atCleanUp>>

\* A cleanUp sends what is left, or is over.
RunCleaner(c) ==
  /\ resumed # <<>> /\ Head(resumed) = c
  /\ resumed' = Tail(resumed)
  /\ IF buffer # <<>> THEN CleanUpFlush(c)
     ELSE /\ cleaner' = [cleaner EXCEPT ![c] = "done"]
          /\ UNCHANGED <<buffer, request, trimmed>>
  /\ UNCHANGED <<writable, expired, received, written, abandoned, atCleanUp>>

-----------------------------------------------------------------------------

Next ==
  \/ Write \/ Expire \/ RequestSucceeds \/ AttemptFails \/ RunLoop
  \/ \E c \in Cleaners : CleanUp(c) \/ RunCleaner(c)

Spec == Init /\ [][Next]_vars

\* A request has a timeout, and microtasks run.
Running ==
  /\ WF_vars(RequestSucceeds \/ AttemptFails)
  /\ WF_vars(RunLoop) /\ \A c \in Cleaners : WF_vars(RunCleaner(c))
FairSpec == Spec /\ Running

-----------------------------------------------------------------------------
(* Properties.                                                             *)

\* What is pending is in the order of writing, across failures that put a
\* batch back while entries and cleanUps come in; and an entry that is not
\* pending was received, expired, or given up by a cleanUp.
Increasing(s) == \A i, j \in 1..Len(s) : i < j => s[i] < s[j]
Pending == batch \o buffer
Accounted ==
  /\ Increasing(Pending)
  /\ 1..written = Elements(Pending) \cup received \cup trimmed \cup abandoned
  /\ (trimmed = {} \/ Retention) /\ (abandoned = {} \/ ~writable)

\* Entries reach the server in order: none comes for the first time after a
\* later one, whatever is retried, put back and sent again in other batches.
ReceivedInOrder ==
  [][\A e \in received' \ received : \A r \in received : r < e]_received

\* When the calls of cleanUp are over, nothing written before them is pending.
Drained ==
  (\A d \in Cleaners : cleaner[d] # "wait") /\ Quiet
    => \A e \in Elements(Pending) : e > atCleanUp

\* cleanUp ends even when every request fails ("without looping
\* indefinitely", HttpLogStream.test.ts:174).
CleanUpEnds ==
  \A c \in Cleaners : /\ cleaner[c] = "wait" ~> cleaner[c] = "done"
                      /\ [](cleaner[c] = "done" => Drained)

\* While the stream is in use, an entry is received or expires without any
\* further entry, if the server does not refuse for ever (which nothing but
\* this property assumes of it).
EntriesSent ==
  SF_vars(RequestSucceeds) => \A e \in Entries :
    written >= e ~> e \in received \cup trimmed \/ ~writable

\* The stream gets on with its work, in use and when it is closed, and leaves
\* nothing behind.
StreamProgresses == CleanUpEnds /\ EntriesSent

=============================================================================
