--------------------------- MODULE EventCollection ---------------------------
(***************************************************************************)
(* The collection of a device run session's events                          *)
(* (build-tools/src/steps/utils/deviceRunSessionEvents.ts): a poller tails   *)
(* the producer's event files and writes each record, with an ID, to the     *)
(* streams of RemoteLogger and HttpLog; stopAsync awaits the poller, passes  *)
(* over the files a last time and closes the streams.                        *)
(*                                                                          *)
(* One pass reads all files at once, under Promise.all: it is over as soon   *)
(* as one reader fails, and leaves the others at work.  A record is two      *)
(* cells, record r the cells 2r-1 and 2r, and an even cell ends its line; so *)
(* the producer can be seen half-way, and a truncated file can be read from  *)
(* its middle.  Every await of a reader is a place in its pc.                *)
(***************************************************************************)
EXTENDS Naturals, Sequences, FiniteSets

CONSTANTS
  Files,
  Slots,           \* bound: passes with readers at work, of which one is current
  Records,         \* bound: Records[f] records are ever appended to f
  MaxTruncations,  \* bound
  MaxFailures      \* bound: failing readdir, stat, open, read or close calls

ASSUME EventAssumption ==
  /\ Records \in [Files -> Nat]
  /\ MaxTruncations \in Nat /\ MaxFailures \in Nat
  /\ Slots # {}

VARIABLES
  file,         \* file[f]: its cells
  produced,     \* produced[f]: cells ever appended
  truncations,
  failures,
  offset,       \* EventFileState, with the decoder's rest in pending
  pending,
  nextSequenceNumber,
  reader,       \* reader[p][f]: where pass p is with f
  pass,         \* the current pass
  rejected,     \* the current pass has failed
  phase,        \* of the poller, then of stopAsync
  stop,         \* "no", then "called", then "last" in its own pass
  out,          \* out[f]: the events written
  behind,       \* history: "cut" when f was truncated since it was read, "lost"
                \*   when a reader did not notice
  overlapped,   \* history: two readers of f were at work at once
  complete      \* history: records complete in f when stopAsync was called

disk    == <<file, produced, truncations>>
state   == <<offset, pending, nextSequenceNumber>>
poller  == <<pass, rejected, phase, stop>>
history == <<behind, overlapped, complete>>
vars    == <<disk, failures, state, reader, poller, out, history>>

-----------------------------------------------------------------------------
(* Lines and events.                                                       *)

Ends(t) == {i \in DOMAIN t : t[i] % 2 = 0}

\* The line that ends at i is one record; any other is not parsed.
IsRecord(t, i) ==
  /\ i > 1 /\ t[i - 1] + 1 = t[i]
  /\ i = 2 \/ i - 2 \in Ends(t)

LineOf(t, i) == Cardinality({j \in Ends(t) : j <= i})

\* Fault: the number of a line is taken before it is counted.
EventsFromZero(t, s) ==
  {[id |-> s + LineOf(t, i) - 2, record |-> t[i] \div 2] :
      i \in {j \in Ends(t) : IsRecord(t, j)}}

\* The events of the text t whose first line has the number s.
Events(t, s) ==
  {[id |-> s + LineOf(t, i) - 1, record |-> t[i] \div 2] :
      i \in {j \in Ends(t) : IsRecord(t, j)}}

\* lines.pop(): what follows the last line.
LastEnd(t) == IF Ends(t) = {} THEN 0 ELSE CHOOSE i \in Ends(t) : \A j \in Ends(t) : j <= i
Rest(t)    == SubSeq(t, LastEnd(t) + 1, Len(t))

RecordsIn(t) == {t[i] \div 2 : i \in {j \in Ends(t) : IsRecord(t, j)}}

-----------------------------------------------------------------------------

Cells      == Nat \ {0}
Idle       == [pc |-> "none", size |-> 0, at |-> 0]
Started    == [pc |-> "stat", size |-> 0, at |-> 0]
ReaderPCs  == {"none", "stat", "sized", "open", "read"}
AtWork(p, f) == reader[p][f].pc # "none"

\* The shape of every variable.
TypeOK ==
  /\ file \in [Files -> Seq(Cells)] /\ produced \in [Files -> Nat]
  /\ offset \in [Files -> Nat] /\ pending \in [Files -> Seq(Cells)]
  /\ nextSequenceNumber \in [Files -> Nat \ {0}]
  /\ out \in [Files -> SUBSET [id : Nat \ {0}, record : Nat \ {0}]]
  /\ complete \in [Files -> SUBSET (Nat \ {0})]
  /\ truncations \in 0..MaxTruncations /\ failures \in 0..MaxFailures
  /\ reader \in [Slots -> [Files -> [pc : ReaderPCs, size : Nat, at : Nat]]]
  /\ pass \in Slots /\ rejected \in BOOLEAN
  /\ phase \in {"find", "collect", "sleep", "close", "done"}
  /\ stop \in {"no", "called", "last"}
  /\ behind \in [Files -> {"no", "cut", "lost"}]
  /\ overlapped \in [Files -> BOOLEAN]

Init ==
  /\ file = [f \in Files |-> <<>>] /\ produced = [f \in Files |-> 0]
  /\ truncations = 0 /\ failures = 0
  /\ offset = [f \in Files |-> 0] /\ pending = [f \in Files |-> <<>>]
  /\ nextSequenceNumber = [f \in Files |-> 1]
  /\ reader = [p \in Slots |-> [f \in Files |-> Idle]]
  /\ pass = (CHOOSE p \in Slots : TRUE) /\ rejected = FALSE
  /\ phase = "find" /\ stop = "no"
  /\ out = [f \in Files |-> {}]
  /\ behind = [f \in Files |-> "no"] /\ overlapped = [f \in Files |-> FALSE]
  /\ complete = [f \in Files |-> {}]

-----------------------------------------------------------------------------
(* The producer.                                                           *)

Produce(f) ==
  /\ phase # "done" /\ produced[f] < 2 * Records[f]
  /\ produced' = [produced EXCEPT ![f] = @ + 1]
  /\ file' = [file EXCEPT ![f] = Append(@, produced[f] + 1)]
  /\ UNCHANGED <<truncations, failures, state, reader, poller, out, history>>

\* The file is emptied, or replaced, between two records.
Truncate(f) ==
  /\ phase # "done" /\ truncations < MaxTruncations
  /\ file[f] # <<>> /\ produced[f] % 2 = 0
  /\ truncations' = truncations + 1
  /\ file' = [file EXCEPT ![f] = <<>>]
  /\ behind' = [behind EXCEPT ![f] = IF @ = "no" THEN "cut" ELSE @]
  /\ complete' = [complete EXCEPT ![f] = {}]
  /\ UNCHANGED <<produced, failures, state, reader, poller, out, overlapped>>

-----------------------------------------------------------------------------
(* A pass, of the poller or of stopAsync.                                  *)

FreeSlots == {p \in Slots : \A f \in Files : ~AtWork(p, f)}

\* collectAsync: the files are found, and a reader started for each.
Find ==
  /\ phase = "find"
  /\ FreeSlots # {}
  /\ pass' = CHOOSE p \in FreeSlots : TRUE
  /\ reader' = [reader EXCEPT ![pass'] = [f \in Files |-> Started]]
  /\ overlapped' = [f \in Files |-> overlapped[f] \/ \E q \in Slots : AtWork(q, f)]
  /\ rejected' = FALSE /\ phase' = "collect"
  /\ UNCHANGED <<disk, failures, state, stop, out, behind, complete>>

\* collectSafelyAsync swallows the error.  An aborted poller does not sleep:
\* stopAsync goes on to its own pass.
PassOver ==
  /\ phase' = CASE stop = "last" -> "close"
                [] stop = "called" -> "find"
                [] OTHER -> "sleep"
  /\ stop' = IF stop = "called" THEN "last" ELSE stop

FindFails ==
  /\ phase = "find" /\ failures < MaxFailures
  /\ failures' = failures + 1
  /\ rejected' = TRUE
  /\ PassOver
  /\ UNCHANGED <<disk, state, reader, pass, out, history>>

\* Fault: a pass with an error never ends.
SettleAllRead ==
  /\ phase = "collect"
  /\ ~rejected /\ \A f \in Files : ~AtWork(pass, f)
  /\ PassOver
  /\ UNCHANGED <<disk, failures, state, reader, pass, rejected, out, history>>

\* Promise.all settles.
Settle ==
  /\ phase = "collect"
  /\ rejected \/ \A f \in Files : ~AtWork(pass, f)
  /\ PassOver
  /\ UNCHANGED <<disk, failures, state, reader, pass, rejected, out, history>>

Wake ==
  /\ phase = "sleep"
  /\ phase' = "find"
  /\ stop' = IF stop = "called" THEN "last" ELSE stop
  /\ UNCHANGED <<disk, failures, state, reader, pass, rejected, out, history>>

StopAsync ==
  /\ stop = "no"
  /\ stop' = "called"
  /\ complete' = [f \in Files |-> RecordsIn(file[f])]
  /\ UNCHANGED <<disk, failures, state, reader, pass, rejected, phase, out, behind,
                 overlapped>>

\* Both streams are cleaned up.
Close ==
  /\ phase = "close"
  /\ phase' = "done"
  /\ UNCHANGED <<disk, failures, state, reader, pass, rejected, stop, out, history>>

-----------------------------------------------------------------------------
(* collectEventFileAsync.                                                  *)

At(p, f, l)  == reader[p][f].pc = l
Goto(p, f, l) == reader' = [reader EXCEPT ![p] = [@ EXCEPT ![f].pc = l]]
Return(p, f) == reader' = [reader EXCEPT ![p] = [@ EXCEPT ![f] = Idle]]
Throw(p, f)  == Return(p, f) /\ rejected' = (rejected \/ p = pass)

Stat(p, f) ==
  /\ At(p, f, "stat")
  /\ reader' = [reader EXCEPT ![p] =
                  [@ EXCEPT ![f] = [pc |-> "sized", size |-> Len(file[f]), at |-> 0]]]
  /\ UNCHANGED <<disk, failures, state, poller, out, history>>

\* ENOENT.
Missing(p, f) ==
  /\ At(p, f, "stat") /\ file[f] = <<>>
  /\ Return(p, f)
  /\ UNCHANGED <<disk, failures, state, poller, out, history>>

\* Fault: a smaller file is not read from its start.
ResetNever(p, f) == UNCHANGED <<offset, pending, nextSequenceNumber>>

\* Fault: the sequence numbers start again as well.
ResetAll(p, f) ==
  IF reader[p][f].size < offset[f]
    THEN /\ offset' = [offset EXCEPT ![f] = 0]
         /\ pending' = [pending EXCEPT ![f] = <<>>]
         /\ nextSequenceNumber' = [nextSequenceNumber EXCEPT ![f] = 1]
    ELSE UNCHANGED state

\* A file smaller than what was read of it was truncated.
Reset(p, f) ==
  IF reader[p][f].size < offset[f]
    THEN /\ offset' = [offset EXCEPT ![f] = 0]
         /\ pending' = [pending EXCEPT ![f] = <<>>]
         /\ UNCHANGED nextSequenceNumber
    ELSE UNCHANGED state

Sized(p, f) ==
  LET size == reader[p][f].size
  IN  /\ At(p, f, "sized")
      /\ Reset(p, f)
      /\ behind' = [behind EXCEPT ![f] =
                      IF @ # "cut" THEN @
                      ELSE IF size < offset[f] \/ offset[f] = 0 THEN "no" ELSE "lost"]
      /\ IF size = offset'[f] THEN Return(p, f) ELSE Goto(p, f, "open")
      /\ UNCHANGED <<disk, failures, poller, out, overlapped, complete>>

\* The buffer is made once the file is open; it cannot have a negative length.
Open(p, f) ==
  /\ At(p, f, "open")
  /\ IF reader[p][f].size < offset[f]
       THEN Throw(p, f)
       ELSE /\ reader' = [reader EXCEPT ![p] =
                            [@ EXCEPT ![f].pc = "read", ![f].at = offset[f]]]
            /\ UNCHANGED rejected
  /\ UNCHANGED <<disk, failures, state, pass, phase, stop, out, history>>

\* The finally: the handle is closed, or closing it fails after all was written.
Closed(p, f) ==
  \/ Return(p, f) /\ UNCHANGED <<failures, rejected>>
  \/ failures < MaxFailures /\ failures' = failures + 1 /\ Throw(p, f)

Read(p, f) ==
  LET at   == reader[p][f].at
      data == SubSeq(file[f], at + 1, IF reader[p][f].size < Len(file[f])
                                        THEN reader[p][f].size ELSE Len(file[f]))
      text == pending[f] \o data
  IN  /\ At(p, f, "read")
      /\ offset' = [offset EXCEPT ![f] = @ + Len(data)]
      /\ pending' = [pending EXCEPT ![f] = Rest(text)]
      /\ nextSequenceNumber' = [nextSequenceNumber EXCEPT ![f] = @ + Cardinality(Ends(text))]
      /\ out' = IF phase = "done" THEN out
                ELSE [out EXCEPT ![f] = @ \cup Events(text, nextSequenceNumber[f])]
      /\ behind' = [behind EXCEPT ![f] =
                      IF @ = "cut" /\ at > 0 /\ data # <<>> THEN "lost" ELSE @]
      /\ Closed(p, f)
      /\ UNCHANGED <<disk, pass, phase, stop, overlapped, complete>>

\* Any call but the last, before the state of the file was changed.
Fails(p, f) ==
  /\ AtWork(p, f) /\ ~At(p, f, "sized") /\ failures < MaxFailures
  /\ failures' = failures + 1
  /\ Throw(p, f)
  /\ UNCHANGED <<disk, state, pass, phase, stop, out, history>>

ReaderStep(p, f) ==
  \/ Stat(p, f) \/ Missing(p, f) \/ Sized(p, f) \/ Open(p, f) \/ Read(p, f)

Next ==
  \/ \E f \in Files : Produce(f) \/ Truncate(f)
  \/ Find \/ FindFails \/ Settle \/ Wake \/ StopAsync \/ Close
  \/ \E p \in Slots, f \in Files : ReaderStep(p, f) \/ Fails(p, f)

Spec == Init /\ [][Next]_vars

\* Timers expire and calls return; nobody has to write or to stop.
FairSpec ==
  /\ Spec
  /\ WF_vars(Find) /\ WF_vars(Settle) /\ WF_vars(Wake) /\ WF_vars(Close)
  /\ \A p \in Slots, f \in Files : WF_vars(ReaderStep(p, f))

-----------------------------------------------------------------------------
(* Properties.                                                             *)

\* An ID names one event for ever, across truncations, failures and readers
\* that overlap; and unless two readers of a file did, each of its records is
\* written once, and in order.
EventsOnce ==
  \A f \in Files : \A d, e \in out[f] :
    /\ d.id = e.id => d = e
    /\ d.id < e.id => d.record < e.record \/ overlapped[f]

\* When stopAsync is over, every record that was complete when it was called
\* has been written, whatever passes failed before its own, unless two readers
\* overlapped or a truncation could not be noticed.
CompleteWhenStopped ==
  phase = "done" =>
    \A f \in Files :
      \/ complete[f] \subseteq {e.record : e \in out[f]}
      \/ rejected \/ overlapped[f] \/ behind[f] = "lost"

\* While nobody stops it the collection gets every complete record.
RecordsCollected ==
  \A f \in Files : \A r \in 1..Records[f] :
    r \in RecordsIn(file[f]) ~>
      \/ \E e \in out[f] : e.record = r
      \/ stop # "no" \/ overlapped[f] \/ behind[f] # "no"

StopEnds == stop = "called" ~> phase = "done"

\* No failure ends the collection, nor keeps stopAsync waiting: records go on
\* being collected until it is called, and it ends whatever the poller was at.
CollectionGoesOn == RecordsCollected /\ StopEnds

=============================================================================
