-------------------------- MODULE DeviceRunProofs --------------------------
(***************************************************************************)
(* Proofs about the device run sessions: EventCollection, then DeviceSession.*)
(*                                                                          *)
(* EventCollection: an ID names one event, a file read by one reader at a     *)
(* time is written once and in order, and stopAsync leaves none of its        *)
(* records behind, for any number of files, passes and failures.  FileInv     *)
(* relates the file, what of it is pending and the events; CollectInv adds    *)
(* that the file is consecutive, that its lines are written as far as it was  *)
(* read, and that what was promised when stopAsync was called is still in it, *)
(* within the reach of the last pass's reader.                              *)
(*                                                                          *)
(* DeviceSession, for any number of artifacts and any idle limit: nothing   *)
(* it started is left running but Appium's server and directories if these  *)
(* do not go, artifacts are drained, and a session is stopped for being     *)
(* idle only if it is quiet or the last event was not observed.  SessionInv *)
(* follows its two tasks: Course says of the function that whatever it      *)
(* holds its finally would stop, and that the finally always has something  *)
(* to do; Handover says that the poller of Argent comes to its last listing *)
(* only after what is due was noted, or after the step's time limit.        *)
(***************************************************************************)
EXTENDS EventCollection, DeviceSession, FiniteSetTheorems, SequenceTheorems,
        WellFoundedInduction, TLAPS

-----------------------------------------------------------------------------
(* Lines and events.                                                       *)

\* Records that follow others, in cells.
LEMMA Halved ==
  ASSUME NEW q \in Nat, NEW h \in Nat, NEW k \in Nat
  PROVE  /\ q - 2 * h = 2 * k => q = 2 * (h + k) /\ h + k \in 0..q
         /\ q - 2 * h = 2 * k + 1 => q = 2 * (h + k) + 1 /\ h + k \in 0..q
OBVIOUS

Increasing(t) == \A i, j \in DOMAIN t : i < j => t[i] < t[j]

\* The lines of a text are finitely many.
LEMMA EndsFinite ==
  ASSUME NEW t \in Seq(Cells)
  PROVE  /\ IsFiniteSet(Ends(t)) /\ Cardinality(Ends(t)) \in Nat
         /\ Ends(t) \subseteq 1..Len(t)
<1>1. Ends(t) \subseteq 1..Len(t)
  BY DEF Ends
<1>2. IsFiniteSet(1..Len(t))
  BY FS_Interval
<1> QED BY <1>1, <1>2, FS_Subset, FS_CardinalityType

\* A text with a line has a last one.
LEMMA LastEndIs ==
  ASSUME NEW t \in Seq(Cells)
  PROVE  /\ LastEnd(t) \in 0..Len(t)
         /\ \A j \in Ends(t) : j <= LastEnd(t)
         /\ LastEnd(t) = 0 \/ LastEnd(t) \in Ends(t)
<1>1. CASE Ends(t) = {}
  BY <1>1 DEF LastEnd
<1>2. CASE Ends(t) # {}
  <2> DEFINE T == {n \in 0..Len(t) : Len(t) - n \in Ends(t)}
  <2>1. T \subseteq Nat /\ T # {}
    <3>1. PICK i \in Ends(t) : TRUE BY <1>2
    <3>2. i \in 1..Len(t) BY EndsFinite
    <3>3. Len(t) - i \in 0..Len(t) /\ Len(t) - (Len(t) - i) = i BY <3>2
    <3> QED BY <3>3
  <2>2. PICK x \in T : \A y \in T : ~ (<<y, x>> \in OpToRel(<, Nat))
    <3> HIDE DEF T
    <3> QED BY <2>1, WFMin, NatLessThanWellFounded
  <2>3. x \in Nat /\ \A y \in T : ~(y < x)
    BY <2>1, <2>2 DEF OpToRel
  <2>4. \A j \in Ends(t) : j <= Len(t) - x
    <3> TAKE j \in Ends(t)
    <3>1. j \in 1..Len(t) BY EndsFinite
    <3>2. Len(t) - j \in T BY <3>1
    <3>3. x \in Nat BY <2>3
    <3>4. ~(Len(t) - j < x) BY <2>3, <3>2
    <3> QED BY <3>1, <3>3, <3>4
  <2>5. \E i \in Ends(t) : \A j \in Ends(t) : j <= i
    BY <2>4
  <2>6. LastEnd(t) \in Ends(t) /\ \A j \in Ends(t) : j <= LastEnd(t)
    BY <1>2, <2>5 DEF LastEnd
  <2> QED BY <2>6, EndsFinite
<1> QED BY <1>1, <1>2

\* Lines are numbered from 1 to their number, in their order.
LEMMA LineOfIs ==
  ASSUME NEW t \in Seq(Cells)
  PROVE  /\ \A i \in Ends(t) : LineOf(t, i) \in 1..Cardinality(Ends(t))
         /\ \A i, j \in Ends(t) : i < j => LineOf(t, i) < LineOf(t, j)
<1> DEFINE U(i) == {k \in Ends(t) : k <= i}
<1>1. \A i \in Ends(t) : /\ U(i) \subseteq Ends(t) /\ i \in U(i) /\ IsFiniteSet(U(i))
                         /\ Cardinality(U(i)) \in Nat
  BY EndsFinite, FS_Subset, FS_CardinalityType
<1>2. \A i \in Ends(t) : Cardinality(U(i)) \in 1..Cardinality(Ends(t))
  <2> TAKE i \in Ends(t)
  <2>1. Cardinality(U(i)) <= Cardinality(Ends(t))
    BY <1>1, EndsFinite, FS_Subset
  <2>2. Cardinality(U(i)) # 0
    BY <1>1, FS_EmptySet
  <2>3. Cardinality(U(i)) \in Nat /\ Cardinality(Ends(t)) \in Nat
    BY <1>1, EndsFinite
  <2> HIDE DEF U
  <2> QED BY <2>1, <2>2, <2>3
<1>3. ASSUME NEW i \in Ends(t), NEW j \in Ends(t), i < j
      PROVE  Cardinality(U(i)) < Cardinality(U(j))
  <2>1. U(i) \subseteq U(j) /\ j \notin U(i) /\ j \in U(j)
    BY <1>3, EndsFinite
  <2>2. U(i) # U(j) /\ IsFiniteSet(U(j))
    BY <1>1, <2>1
  <2>3. Cardinality(U(i)) \in Nat /\ Cardinality(U(j)) \in Nat
    BY <1>1
  <2> HIDE DEF U
  <2>4. U(i) \in SUBSET U(j)
    BY <2>1
  <2>5. Cardinality(U(i)) <= Cardinality(U(j)) /\ Cardinality(U(i)) # Cardinality(U(j))
    BY <2>2, <2>4, FS_Subset
  <2> QED BY <2>3, <2>5
<1> QED BY <1>2, <1>3 DEF LineOf

\* What one reading adds: events with new numbers, in the order of the cells.
LEMMA EventsAre ==
  ASSUME NEW t \in Seq(Cells), NEW s \in Nat \ {0}
  PROVE  /\ Events(t, s) \subseteq [id : Nat \ {0}, record : Nat \ {0}]
         /\ \A e \in Events(t, s) : s <= e.id /\ e.id < s + Cardinality(Ends(t))
         /\ \A e \in Events(t, s) : \E i \in Ends(t) : 2 * e.record = t[i]
         /\ \A d, e \in Events(t, s) : d.id = e.id => d = e
         /\ Increasing(t) => \A d, e \in Events(t, s) : d.id < e.id => d.record < e.record
<1>1. \A i \in Ends(t) : /\ i \in 1..Len(t) /\ t[i] \in Nat \ {0} /\ t[i] % 2 = 0
                         /\ t[i] \div 2 \in Nat \ {0} /\ 2 * (t[i] \div 2) = t[i]
  <2> TAKE i \in Ends(t)
  <2>1. i \in 1..Len(t) /\ t[i] \in Nat \ {0} /\ t[i] % 2 = 0
    BY EndsFinite DEF Ends, Cells
  <2>2. \A n \in Nat \ {0} : n % 2 = 0 => n \div 2 \in Nat \ {0} /\ 2 * (n \div 2) = n
    BY Z3T(30)
  <2> QED BY <2>1, <2>2
<1>2. \A i \in Ends(t) : LineOf(t, i) \in 1..Cardinality(Ends(t))
  BY LineOfIs
<1>3. Cardinality(Ends(t)) \in Nat
  BY EndsFinite
<1>4. ASSUME NEW e \in Events(t, s)
      PROVE  \E i \in Ends(t) : e = [id |-> s + LineOf(t, i) - 1, record |-> t[i] \div 2]
  BY DEF Events
<1>5. \A e \in Events(t, s) :
         /\ e \in [id : Nat \ {0}, record : Nat \ {0}]
         /\ s <= e.id /\ e.id < s + Cardinality(Ends(t))
         /\ \E i \in Ends(t) : 2 * e.record = t[i]
  <2> TAKE e \in Events(t, s)
  <2>1. PICK i \in Ends(t) : e = [id |-> s + LineOf(t, i) - 1, record |-> t[i] \div 2]
    BY <1>4
  <2> DEFINE k == LineOf(t, i)
             r == t[i] \div 2
  <2>2. /\ k \in 1..Cardinality(Ends(t)) /\ r \in Nat \ {0} /\ 2 * r = t[i]
        /\ e.id = s + k - 1 /\ e.record = r /\ e = [id |-> s + k - 1, record |-> r]
    BY <1>1, <1>2, <2>1
  <2> HIDE DEF k, r
  <2>3. s + k - 1 \in Nat \ {0} /\ s <= s + k - 1 /\ s + k - 1 < s + Cardinality(Ends(t))
    BY <1>3, <2>2
  <2> QED BY <2>2, <2>3
<1>6. ASSUME NEW d \in Events(t, s), NEW e \in Events(t, s)
      PROVE  /\ d.id = e.id => d = e
             /\ Increasing(t) => (d.id < e.id => d.record < e.record)
  <2>1. PICK i \in Ends(t) : d = [id |-> s + LineOf(t, i) - 1, record |-> t[i] \div 2]
    BY <1>4
  <2>2. PICK j \in Ends(t) : e = [id |-> s + LineOf(t, j) - 1, record |-> t[j] \div 2]
    BY <1>4
  <2>3. i \in Nat /\ j \in Nat /\ LineOf(t, i) \in Nat /\ LineOf(t, j) \in Nat
    BY <1>1, <1>2
  <2>4. d.id = e.id => i = j
    BY <2>1, <2>2, <2>3, LineOfIs
  <2>5. d.id < e.id => i < j
    BY <2>1, <2>2, <2>3, LineOfIs
  <2>6. Increasing(t) /\ i < j => t[i] < t[j]
    BY <1>1 DEF Increasing, Ends
  <2> QED BY <1>1, <2>1, <2>2, <2>4, <2>5, <2>6
<1> QED BY <1>5, <1>6

-----------------------------------------------------------------------------
(* The invariant.                                                          *)

\* IDs already used are below the next one, and name one event each.
IdsUsed(f) ==
  /\ \A e \in out[f] : e.id < nextSequenceNumber[f]
  /\ \A d, e \in out[f] : d.id = e.id => d = e

\* Cells are produced in order, and nothing is known of later ones.
CellsInOrder(f) ==
  /\ Increasing(file[f])
  /\ \A i \in DOMAIN file[f] : file[f][i] <= produced[f]
  /\ \A i \in DOMAIN pending[f] : pending[f][i] <= produced[f]
  /\ \A e \in out[f] : 2 * e.record <= produced[f]

\* A cell that comes after all events of f.
AfterEvents(f, c) == \A e \in out[f] : 2 * e.record < c

\* ... and after what is pending.
AfterAll(f, c) ==
  AfterEvents(f, c) /\ \A j \in DOMAIN pending[f] : pending[f][j] < c

\* A truncation that shows, to the next reader or to the one at work.
Shrunk(f) ==
  \/ Len(file[f]) < offset[f]
  \/ \E p \in Slots : reader[p][f].pc = "sized" /\ reader[p][f].size < offset[f]

\* With one reader at a time what is pending and what is not yet read follow
\* the events in this order; and a file that shrank holds nothing that was read.
ReadInOrder(f) ==
  /\ \A p, q \in Slots : AtWork(p, f) /\ AtWork(q, f) => p = q
  /\ \A d, e \in out[f] : d.id < e.id => d.record < e.record
  /\ Increasing(pending[f])
  /\ \A i \in DOMAIN pending[f] : AfterEvents(f, pending[f][i])
  /\ \A i \in DOMAIN file[f] : i > offset[f] \/ Shrunk(f) => AfterAll(f, file[f][i])
  /\ \A p \in Slots : reader[p][f].pc = "read" => reader[p][f].at = offset[f]

FileInv(f) == IdsUsed(f) /\ CellsInOrder(f) /\ (overlapped[f] \/ ReadInOrder(f))

IInv == TypeOK /\ \A f \in Files : FileInv(f)

\* What FileInv(f) depends on is left alone.
Same(f) ==
  /\ file'[f] = file[f] /\ produced'[f] = produced[f]
  /\ offset'[f] = offset[f] /\ pending'[f] = pending[f]
  /\ nextSequenceNumber'[f] = nextSequenceNumber[f] /\ out'[f] = out[f]
  /\ overlapped'[f] = overlapped[f]

SameReaders(f) == \A p \in Slots : reader'[p][f] = reader[p][f]

\* A file nothing happens to keeps its part of the invariant.
LEMMA SameKeeps ==
  ASSUME NEW f \in Files, FileInv(f), Same(f), SameReaders(f)
  PROVE  FileInv(f)'
BY DEF FileInv, IdsUsed, CellsInOrder, ReadInOrder, AfterAll, AfterEvents, Shrunk, Increasing,
       AtWork, Same, SameReaders

\* So does one of which a reader returns or throws.
LEMMA ReturnKeeps ==
  ASSUME TypeOK, NEW p \in Slots, NEW f \in Files, FileInv(f), Same(f), Return(p, f)
  PROVE  FileInv(f)'
<1>1. /\ reader'[p][f].pc = "none"
      /\ \A q \in Slots \ {p} : reader'[q][f] = reader[q][f]
  BY DEF Return, TypeOK, Idle
<1> QED BY <1>1 DEF FileInv, IdsUsed, CellsInOrder, ReadInOrder, AfterAll, AfterEvents, Shrunk,
               Increasing, AtWork, Same

\* Only one file's readers are touched by a step of one of them.
LEMMA OtherReaders ==
  ASSUME TypeOK, NEW p \in Slots, NEW f \in Files, NEW r,
         reader' = [reader EXCEPT ![p] = [@ EXCEPT ![f] = r]]
  PROVE  /\ reader'[p][f] = r
         /\ \A q \in Slots \ {p} : reader'[q][f] = reader[q][f]
         /\ \A g \in Files \ {f} : SameReaders(g)
BY DEF TypeOK, SameReaders

-----------------------------------------------------------------------------
(* Every step keeps the invariant.                                         *)

\* At first nothing is produced, read or written.
LEMMA InitIInv == Init => IInv
<1> SUFFICES ASSUME Init PROVE IInv
  OBVIOUS
<1> USE EventAssumption
<1>1. TypeOK
  <2>1. <<>> \in Seq(Cells) BY DEF Cells
  <2>2. pass \in Slots BY DEF Init
  <2>3. /\ file \in [Files -> Seq(Cells)] /\ pending \in [Files -> Seq(Cells)]
        /\ produced \in [Files -> Nat] /\ offset \in [Files -> Nat]
    BY <2>1 DEF Init
  <2>4. /\ nextSequenceNumber \in [Files -> Nat \ {0}]
        /\ out \in [Files -> SUBSET [id : Nat \ {0}, record : Nat \ {0}]]
        /\ complete \in [Files -> SUBSET (Nat \ {0})]
    BY DEF Init
  <2>5. reader \in [Slots -> [Files -> [pc : ReaderPCs, size : Nat, at : Nat]]]
    BY DEF Init, Idle, ReaderPCs
  <2>6. /\ behind \in [Files -> {"no", "cut", "lost"}]
        /\ overlapped \in [Files -> BOOLEAN]
    BY DEF Init
  <2>7. truncations \in 0..MaxTruncations /\ failures \in 0..MaxFailures
    BY DEF Init
  <2>8. /\ rejected \in BOOLEAN /\ stop \in {"no", "called", "last"}
        /\ phase \in {"find", "collect", "sleep", "close", "done"}
    BY DEF Init
  <2> QED BY <2>2, <2>3, <2>4, <2>5, <2>6, <2>7, <2>8 DEF TypeOK
<1>2. ASSUME NEW f \in Files PROVE FileInv(f)
  <2>1. /\ file[f] = <<>> /\ pending[f] = <<>> /\ out[f] = {} /\ offset[f] = 0
        /\ \A p \in Slots : reader[p][f] = Idle
    BY DEF Init
  <2> QED BY <2>1 DEF FileInv, IdsUsed, CellsInOrder, ReadInOrder, AfterAll, AfterEvents, Shrunk,
                 Increasing, AtWork, Idle
<1> QED BY <1>1, <1>2 DEF IInv

LEMMA ProduceKeeps ==
  ASSUME IInv, NEW f \in Files, Produce(f)
  PROVE  IInv'
<1> USE EventAssumption
<1> DEFINE c == produced[f] + 1
<1>1. /\ file[f] \in Seq(Cells) /\ produced[f] \in Nat /\ c \in Cells
      /\ file'[f] = Append(file[f], c) /\ produced'[f] = c
      /\ Append(file[f], c) \in Seq(Cells)
  BY SMTT(30) DEF IInv, TypeOK, Produce, Cells
<1>2. TypeOK'
  <2>1. file' \in [Files -> Seq(Cells)] /\ produced' \in [Files -> Nat]
    <3> DEFINE t == Append(file[f], c)
    <3>1. /\ file \in [Files -> Seq(Cells)] /\ produced \in [Files -> Nat]
          /\ file' = [file EXCEPT ![f] = t] /\ produced' = [produced EXCEPT ![f] = c]
          /\ t \in Seq(Cells) /\ c \in Nat
      BY <1>1, SMTT(30) DEF IInv, TypeOK, Produce
    <3> HIDE DEF c, t
    <3>2. file' \in [Files -> Seq(Cells)] BY <3>1
    <3>3. produced' \in [Files -> Nat] BY <3>1
    <3> QED BY <3>2, <3>3
  <2>2. /\ UNCHANGED <<offset, pending, nextSequenceNumber, out, truncations, failures, reader>>
        /\ UNCHANGED <<pass, rejected, phase, stop, behind, overlapped, complete>>
    BY DEF Produce, state, poller, history
  <2> QED BY <2>1, <2>2 DEF IInv, TypeOK
<1>3. ASSUME NEW g \in Files \ {f} PROVE FileInv(g)'
  BY <1>3, SameKeeps DEF IInv, TypeOK, Produce, state, poller, history, Same, SameReaders
<1>4. FileInv(f)'
  <2>1. /\ offset' = offset /\ pending' = pending /\ out' = out /\ reader' = reader
        /\ nextSequenceNumber' = nextSequenceNumber /\ overlapped' = overlapped
    BY DEF Produce, state, history
  <2>2. /\ Len(file'[f]) = Len(file[f]) + 1 /\ Len(file[f]) \in Nat
        /\ DOMAIN file'[f] = 1..Len(file[f]) + 1 /\ DOMAIN file[f] = 1..Len(file[f])
        /\ \A i \in DOMAIN file[f] : file'[f][i] = file[f][i] /\ file[f][i] \in Nat
        /\ file'[f][Len(file[f]) + 1] = c
    BY <1>1 DEF Cells
  <2>3. /\ \A i \in DOMAIN pending[f] : pending[f][i] \in Nat
        /\ \A e \in out[f] : e.record \in Nat
        /\ offset[f] \in Nat
    BY DEF IInv, TypeOK, Cells
  <2>4. IdsUsed(f)'
    BY <2>1 DEF IInv, FileInv, IdsUsed
  <2>5. CellsInOrder(f)'
    <3>1. Increasing(file[f])'
      <4>1. \A i \in DOMAIN file[f] : file[f][i] < c
        BY <1>1, <2>2 DEF IInv, FileInv, CellsInOrder
      <4>2. \A i, j \in DOMAIN file[f] : i < j => file[f][i] < file[f][j]
        BY DEF IInv, FileInv, CellsInOrder, Increasing
      <4> SUFFICES ASSUME NEW i \in DOMAIN file'[f], NEW j \in DOMAIN file'[f], i < j
                   PROVE  file'[f][i] < file'[f][j]
        BY DEF Increasing
      <4> HIDE DEF c
      <4>3. i \in DOMAIN file[f] /\ (j \in DOMAIN file[f] \/ j = Len(file[f]) + 1)
        BY <2>2
      <4> QED BY <2>2, <4>1, <4>2, <4>3
    <3>2. \A n \in Nat : n <= produced[f] => n <= c
      BY <1>1
    <3>3. \A i \in DOMAIN file'[f] : file'[f][i] <= produced'[f]
      BY <1>1, <2>2, <3>2 DEF IInv, FileInv, CellsInOrder
    <3>4. /\ \A i \in DOMAIN pending[f] : pending[f][i] <= c
          /\ \A e \in out[f] : 2 * e.record <= c
      BY <2>3, <3>2 DEF IInv, FileInv, CellsInOrder
    <3> QED BY <1>1, <2>1, <3>1, <3>3, <3>4 DEF CellsInOrder
  <2>6. AfterAll(f, c)
    BY <1>1, <2>3 DEF IInv, FileInv, CellsInOrder, AfterAll, AfterEvents
  <2>7. Shrunk(f)' => Shrunk(f)
    BY <2>1, <2>2, <2>3 DEF Shrunk
  <2>8. ReadInOrder(f) => ReadInOrder(f)'
    BY <2>1, <2>2, <2>6, <2>7 DEF ReadInOrder, AfterAll, AfterEvents, AtWork
  <2> QED BY <2>1, <2>4, <2>5, <2>8 DEF IInv, FileInv
<1> QED BY <1>2, <1>3, <1>4 DEF IInv

LEMMA TruncateKeeps ==
  ASSUME IInv, NEW f \in Files, Truncate(f)
  PROVE  IInv'
<1> USE EventAssumption
<1>1. <<>> \in Seq(Cells) /\ file'[f] = <<>> /\ Len(<<>>) = 0
  BY DEF IInv, TypeOK, Truncate
<1>2. TypeOK'
  BY <1>1, SMTT(30) DEF IInv, TypeOK, Truncate, state, poller
<1>3. ASSUME NEW g \in Files \ {f} PROVE FileInv(g)'
  BY <1>3, SameKeeps DEF IInv, TypeOK, Truncate, state, poller, Same, SameReaders
<1>4. FileInv(f)'
  BY <1>1 DEF IInv, Truncate, state, poller, FileInv, IdsUsed, CellsInOrder, ReadInOrder,
       AfterAll, AfterEvents, Increasing, AtWork
<1> QED BY <1>2, <1>3, <1>4 DEF IInv

LEMMA FindKeeps ==
  ASSUME IInv, Find
  PROVE  IInv'
<1> USE EventAssumption
<1>1. pass' \in FreeSlots /\ pass' \in Slots
  BY DEF Find, FreeSlots
<1>2. /\ \A g \in Files : reader'[pass'][g] = Started
      /\ \A q \in Slots \ {pass'}, g \in Files : reader'[q][g] = reader[q][g]
      /\ reader' \in [Slots -> [Files -> [pc : ReaderPCs, size : Nat, at : Nat]]]
  BY <1>1 DEF Find, IInv, TypeOK, Started, ReaderPCs
<1>3. TypeOK'
  BY <1>1, <1>2 DEF IInv, TypeOK, Find, disk, state
<1>4. ASSUME NEW f \in Files PROVE FileInv(f)'
  <2>1. /\ file' = file /\ produced' = produced /\ offset' = offset /\ pending' = pending
        /\ nextSequenceNumber' = nextSequenceNumber /\ out' = out
        /\ overlapped'[f] = (overlapped[f] \/ \E q \in Slots : AtWork(q, f))
    BY DEF Find, disk, state
  <2>2. CASE overlapped'[f]
    BY <2>1, <2>2 DEF IInv, FileInv, IdsUsed, CellsInOrder
  <2>3. CASE ~overlapped'[f]
    <3>1. \A q \in Slots : ~AtWork(q, f)
      BY <2>1, <2>3
    <3>2. \A q \in Slots : reader'[q][f] = IF q = pass' THEN Started ELSE reader[q][f]
      BY <1>2
    <3>3. /\ \A p, q \in Slots : AtWork(p, f)' /\ AtWork(q, f)' => p = q
          /\ \A q \in Slots : reader'[q][f].pc \notin {"sized", "read"}
      BY <3>1, <3>2 DEF AtWork, Started
    <3>4. ReadInOrder(f)
      BY <2>1, <2>3 DEF IInv, FileInv
    <3>5. ReadInOrder(f)'
      BY <2>1, <3>3, <3>4 DEF ReadInOrder, Shrunk, AfterAll, AfterEvents
    <3> QED BY <2>1, <3>5 DEF IInv, FileInv, IdsUsed, CellsInOrder
  <2> QED BY <2>2, <2>3
<1> QED BY <1>3, <1>4 DEF IInv

\* The steps between the passes leave the files and their readers alone.
LEMMA ControlKeeps ==
  ASSUME IInv, FindFails \/ Settle \/ Wake \/ StopAsync \/ Close
  PROVE  IInv'
<1> USE EventAssumption
<1>1. /\ disk' = disk /\ state' = state /\ reader' = reader /\ out' = out
      /\ behind' = behind /\ overlapped' = overlapped /\ pass' = pass
  BY DEF FindFails, Settle, Wake, StopAsync, Close, history
<1>2. /\ phase' \in {"find", "collect", "sleep", "close", "done"}
      /\ stop' \in {"no", "called", "last"} /\ rejected' \in BOOLEAN
      /\ failures' \in 0..MaxFailures
  <2>1. CASE FindFails
    <3>1. failures' \in 0..MaxFailures
      BY <2>1 DEF FindFails, IInv, TypeOK
    <3> QED BY <2>1, <3>1 DEF FindFails, PassOver, IInv, TypeOK
  <2>2. CASE Settle BY <2>2 DEF Settle, PassOver, IInv, TypeOK
  <2>3. CASE Wake BY <2>3 DEF Wake, IInv, TypeOK
  <2>4. CASE StopAsync BY <2>4 DEF StopAsync, IInv, TypeOK
  <2>5. CASE Close BY <2>5 DEF Close, IInv, TypeOK
  <2> QED BY <2>1, <2>2, <2>3, <2>4, <2>5
<1>3. complete' \in [Files -> SUBSET (Nat \ {0})]
  <2>1. CASE StopAsync
    <3>1. ASSUME NEW f \in Files PROVE RecordsIn(file[f]) \in SUBSET (Nat \ {0})
      <4>1. file[f] \in Seq(Cells) /\ 1 \in Nat \ {0}
        BY DEF IInv, TypeOK
      <4>2. ASSUME NEW r \in RecordsIn(file[f]) PROVE r \in Nat \ {0}
        <5>1. PICK i \in {j \in Ends(file[f]) : IsRecord(file[f], j)} :
                r = file[f][i] \div 2
          BY DEF RecordsIn
        <5>2. [id |-> 1 + LineOf(file[f], i) - 1, record |-> r] \in Events(file[f], 1)
          BY <5>1 DEF Events
        <5> QED BY <4>1, <5>2, EventsAre
      <4> QED BY <4>2
    <3> QED BY <2>1, <3>1 DEF StopAsync
  <2> QED BY <2>1 DEF FindFails, Settle, Wake, Close, history, IInv, TypeOK
<1>4. TypeOK'
  BY <1>1, <1>2, <1>3 DEF IInv, TypeOK, disk, state
<1>5. ASSUME NEW f \in Files PROVE FileInv(f)'
  BY <1>1, SameKeeps DEF IInv, Same, SameReaders, disk, state
<1> QED BY <1>4, <1>5 DEF IInv

LEMMA StatKeeps ==
  ASSUME IInv, NEW p \in Slots, NEW f \in Files, Stat(p, f)
  PROVE  IInv'
<1> USE EventAssumption
<1> DEFINE r == [pc |-> "sized", size |-> Len(file[f]), at |-> 0]
<1>0. Len(file[f]) \in Nat /\ offset[f] \in Nat
  BY DEF IInv, TypeOK
<1>1. /\ reader'[p][f] = r
      /\ \A q \in Slots \ {p} : reader'[q][f] = reader[q][f]
      /\ \A g \in Files \ {f} : SameReaders(g)
  BY OtherReaders DEF Stat, IInv
<1>2. \A g \in Files : Same(g)
  BY DEF Stat, Same, disk, state, history
<1>3. TypeOK'
  BY <1>0 DEF IInv, TypeOK, Stat, disk, state, poller, history, ReaderPCs
<1>4. FileInv(f)'
  <2>1. Shrunk(f)' => Shrunk(f)
    BY <1>0, <1>1, <1>2 DEF Shrunk, Same
  <2>2. \A q \in Slots : AtWork(q, f)' => AtWork(q, f)
    BY <1>1 DEF AtWork, Stat, At
  <2>3. \A q \in Slots : reader'[q][f].pc = "read" => reader'[q][f] = reader[q][f]
    BY <1>1
  <2>4. ReadInOrder(f) => ReadInOrder(f)'
    BY <1>2, <2>1, <2>2, <2>3 DEF ReadInOrder, AfterAll, AfterEvents, Increasing, Same
  <2> QED BY <1>2, <2>4 DEF IInv, FileInv, IdsUsed, CellsInOrder, Increasing, Same
<1> QED BY <1>1, <1>2, <1>3, <1>4, SameKeeps DEF IInv

\* A reader that finds no file, or fails.
LEMMA LeaveKeeps ==
  ASSUME IInv, NEW p \in Slots, NEW f \in Files, Missing(p, f) \/ Fails(p, f)
  PROVE  IInv'
<1> USE EventAssumption
<1>1. Return(p, f) /\ \A g \in Files : Same(g)
  BY DEF Missing, Fails, Throw, Same, disk, state, history
<1>2. \A g \in Files \ {f} : SameReaders(g)
  BY <1>1, OtherReaders DEF Return, IInv
<1>3. reader' \in [Slots -> [Files -> [pc : ReaderPCs, size : Nat, at : Nat]]]
  BY <1>1 DEF Return, IInv, TypeOK, Idle, ReaderPCs
<1>4. failures' \in 0..MaxFailures
  BY SMTT(30) DEF Missing, Fails, IInv, TypeOK
<1>5. rejected' \in BOOLEAN
  BY DEF Missing, Fails, Throw, poller, IInv, TypeOK
<1>6. TypeOK'
  BY <1>3, <1>4, <1>5 DEF Missing, Fails, IInv, TypeOK, disk, state, poller, history
<1> QED BY <1>1, <1>2, <1>6, SameKeeps, ReturnKeeps DEF IInv

LEMMA OpenKeeps ==
  ASSUME IInv, NEW p \in Slots, NEW f \in Files, Open(p, f)
  PROVE  IInv'
<1> USE EventAssumption
<1>1. \A g \in Files : Same(g)
  BY DEF Open, Same, disk, state, history
<1>2. CASE reader[p][f].size < offset[f]
  <2>1. Return(p, f) /\ rejected' \in BOOLEAN
    BY <1>2 DEF Open, Throw, IInv, TypeOK
  <2>2. \A g \in Files \ {f} : SameReaders(g)
    BY <2>1, OtherReaders DEF Return, IInv
  <2>3. reader' \in [Slots -> [Files -> [pc : ReaderPCs, size : Nat, at : Nat]]]
    BY <2>1 DEF Return, IInv, TypeOK, Idle, ReaderPCs
  <2>4. TypeOK'
    BY <2>1, <2>3 DEF Open, IInv, TypeOK, disk, state, history
  <2> QED BY <1>1, <2>1, <2>2, <2>4, SameKeeps, ReturnKeeps DEF IInv
<1>3. CASE ~(reader[p][f].size < offset[f])
  <2>1. reader' = [reader EXCEPT ![p] = [@ EXCEPT ![f].pc = "read", ![f].at = offset[f]]]
        /\ rejected' = rejected
    BY <1>3 DEF Open
  <2>2. /\ reader'[p][f].pc = "read" /\ reader'[p][f].at = offset[f]
        /\ \A q \in Slots \ {p} : reader'[q][f] = reader[q][f]
        /\ \A g \in Files \ {f} : SameReaders(g)
    BY <2>1 DEF IInv, TypeOK, SameReaders
  <2>3. reader' \in [Slots -> [Files -> [pc : ReaderPCs, size : Nat, at : Nat]]]
    <3> DEFINE R == [pc : ReaderPCs, size : Nat, at : Nat]
    <3>1. reader \in [Slots -> [Files -> R]] /\ reader[p] \in [Files -> R] /\ offset[f] \in Nat
      BY DEF IInv, TypeOK
    <3>2. reader[p][f] \in R /\ "read" \in ReaderPCs
      BY <3>1 DEF ReaderPCs
    <3>3. [reader[p] EXCEPT ![f].pc = "read", ![f].at = offset[f]] \in [Files -> R]
      BY <3>1, <3>2
    <3> QED BY <2>1, <3>1, <3>3
  <2>4. TypeOK'
    BY <2>1, <2>3 DEF Open, IInv, TypeOK, disk, state, history
  <2>5. FileInv(f)'
    <3>1. Shrunk(f)' => Shrunk(f)
      BY <1>1, <2>2 DEF Shrunk, Same
    <3>2. \A q \in Slots : AtWork(q, f)' => AtWork(q, f)
      BY <2>2 DEF AtWork, Open, At
    <3>3. ReadInOrder(f) => ReadInOrder(f)'
      BY <1>1, <2>2, <3>1, <3>2 DEF ReadInOrder, AfterAll, AfterEvents, Increasing, Same
    <3> QED BY <1>1, <3>3 DEF IInv, FileInv, IdsUsed, CellsInOrder, Increasing, Same
  <2> QED BY <1>1, <2>2, <2>4, <2>5, SameKeeps DEF IInv
<1> QED BY <1>2, <1>3

LEMMA SizedKeeps ==
  ASSUME IInv, NEW p \in Slots, NEW f \in Files, Sized(p, f)
  PROVE  IInv'
<1> USE EventAssumption
<1> DEFINE size == reader[p][f].size
<1>1. /\ file' = file /\ produced' = produced /\ nextSequenceNumber' = nextSequenceNumber
      /\ out' = out /\ overlapped' = overlapped
  BY DEF Sized, Reset, disk, state
<1>2. /\ size < offset[f] => /\ offset' = [offset EXCEPT ![f] = 0]
                             /\ pending' = [pending EXCEPT ![f] = <<>>]
      /\ ~(size < offset[f]) => offset' = offset /\ pending' = pending
  BY DEF Sized, Reset, state
<1>3. /\ reader'[p][f].pc \in {"none", "open"}
      /\ \A q \in Slots \ {p} : reader'[q][f] = reader[q][f]
      /\ \A g \in Files \ {f} : SameReaders(g)
      /\ reader' \in [Slots -> [Files -> [pc : ReaderPCs, size : Nat, at : Nat]]]
  <2> DEFINE R == [pc : ReaderPCs, size : Nat, at : Nat]
  <2>1. reader \in [Slots -> [Files -> R]] /\ reader[p] \in [Files -> R] /\ reader[p][f] \in R
    BY DEF IInv, TypeOK
  <2>2. PICK r \in R : r.pc \in {"none", "open"}
                     /\ reader' = [reader EXCEPT ![p] = [@ EXCEPT ![f] = r]]
    <3>1. CASE Return(p, f)
      BY <3>1 DEF Return, Idle, ReaderPCs
    <3>2. CASE Goto(p, f, "open")
      <4> DEFINE r == [reader[p][f] EXCEPT !.pc = "open"]
      <4>1. r \in R /\ r.pc = "open"
        BY <2>1 DEF ReaderPCs
      <4>2. reader' = [reader EXCEPT ![p] = [@ EXCEPT ![f] = r]]
        BY <3>2, <2>1 DEF Goto
      <4> QED BY <4>1, <4>2
    <3> QED BY <3>1, <3>2 DEF Sized
  <2>3. reader' \in [Slots -> [Files -> R]]
    BY <2>1, <2>2
  <2>4. /\ reader'[p][f] = r
        /\ \A q \in Slots \ {p} : reader'[q][f] = reader[q][f]
        /\ \A g \in Files \ {f} : SameReaders(g)
    BY <2>2, OtherReaders DEF IInv
  <2> QED BY <2>2, <2>3, <2>4
<1>4. \A g \in Files \ {f} : Same(g)
  BY <1>1, <1>2 DEF Same, IInv, TypeOK
<1>5. TypeOK'
  <2>1. offset' \in [Files -> Nat] /\ pending' \in [Files -> Seq(Cells)]
    <3>1. CASE size < offset[f]
      <4>1. <<>> \in Seq(Cells) /\ offset \in [Files -> Nat] /\ pending \in [Files -> Seq(Cells)]
        BY DEF IInv, TypeOK
      <4>2. [offset EXCEPT ![f] = 0] \in [Files -> Nat]
        BY <4>1
      <4>3. [pending EXCEPT ![f] = <<>>] \in [Files -> Seq(Cells)]
        BY <4>1
      <4> QED BY <1>2, <3>1, <4>2, <4>3
    <3>2. CASE ~(size < offset[f])
      BY <1>2, <3>2 DEF IInv, TypeOK
    <3> QED BY <3>1, <3>2
  <2>2. behind' \in [Files -> {"no", "cut", "lost"}]
    BY DEF Sized, IInv, TypeOK
  <2> QED BY <1>1, <1>3, <2>1, <2>2 DEF Sized, IInv, TypeOK, disk, poller
<1>6. FileInv(f)'
  <2>1. \A q \in Slots : AtWork(q, f)' => AtWork(q, f)
    BY <1>3 DEF AtWork, Sized, At
  <2>2. \A q \in Slots : reader'[q][f].pc \in {"read", "sized"} => reader'[q][f] = reader[q][f]
    BY <1>3
  <2>3. CASE ~(size < offset[f])
    <3>1. Shrunk(f)' => Shrunk(f)
      BY <1>1, <1>2, <2>2, <2>3 DEF Shrunk
    <3>2. ReadInOrder(f) => ReadInOrder(f)'
      BY <1>1, <1>2, <2>1, <2>2, <2>3, <3>1 DEF ReadInOrder, AfterAll, AfterEvents, Increasing
    <3> QED BY <1>1, <1>2, <2>3, <3>2 DEF IInv, FileInv, IdsUsed, CellsInOrder, Increasing
  <2>4. CASE size < offset[f]
    <3>1. offset'[f] = 0 /\ pending'[f] = <<>>
      BY <1>2, <2>4 DEF IInv, TypeOK
    <3>2. Shrunk(f)
      BY <2>4 DEF Shrunk, Sized, At
    <3>3. ASSUME ReadInOrder(f) PROVE ReadInOrder(f)'
      <4>1. \A q \in Slots : reader'[q][f].pc # "read"
        BY <1>3, <3>3 DEF ReadInOrder, AtWork, Sized, At
      <4> QED BY <1>1, <2>1, <3>1, <3>2, <3>3, <4>1 DEF ReadInOrder, AfterAll, AfterEvents, Increasing
    <3> QED BY <1>1, <3>1, <3>3 DEF IInv, FileInv, IdsUsed, CellsInOrder, Increasing
  <2> QED BY <2>3, <2>4
<1> QED BY <1>3, <1>4, <1>5, <1>6, SameKeeps DEF IInv

\* What a reader gets are the cells of the file behind its place.
LEMMA SliceIs ==
  ASSUME NEW s \in Seq(Cells), NEW at \in Nat, NEW e \in Nat, e <= Len(s)
  PROVE  /\ SubSeq(s, at + 1, e) \in Seq(Cells)
         /\ Len(SubSeq(s, at + 1, e)) \in Nat
         /\ at < e => Len(SubSeq(s, at + 1, e)) = e - at
         /\ ~(at < e) => Len(SubSeq(s, at + 1, e)) = 0
         /\ \A i \in 1..Len(SubSeq(s, at + 1, e)) :
              at + i \in DOMAIN s /\ SubSeq(s, at + 1, e)[i] = s[at + i]
<1>1. \A i \in at + 1..e : i \in DOMAIN s /\ s[i] \in Cells
  OBVIOUS
<1>2. CASE at < e
  <2>1. SubSeq(s, at + 1, e) \in Seq(Cells) /\ Len(SubSeq(s, at + 1, e)) = e - at
    BY <1>1, <1>2
  <2>2. \A i \in 1..e - at : at + i \in at + 1..e
    BY <1>2
  <2>3. \A i \in 1..e - at : SubSeq(s, at + 1, e)[i] = s[at + i]
    BY <1>1, <1>2
  <2> QED BY <1>1, <1>2, <2>1, <2>2, <2>3
<1>3. CASE ~(at < e)
  <2>1. SubSeq(s, at + 1, e) = <<>>
    BY <1>3
  <2> QED BY <1>3, <2>1
<1> QED BY <1>2, <1>3

\* The text a reader splits is what was pending, and then what it got.
LEMMA TextIs ==
  ASSUME NEW s \in Seq(Cells), NEW d \in Seq(Cells)
  PROVE  /\ s \o d \in Seq(Cells) /\ Len(s \o d) = Len(s) + Len(d)
         /\ \A i \in 1..Len(s) : (s \o d)[i] = s[i]
         /\ \A i \in Len(s) + 1..Len(s \o d) :
              i - Len(s) \in 1..Len(d) /\ (s \o d)[i] = d[i - Len(s)]
OBVIOUS

\* What is pending afterwards follows every line of the text.
LEMMA RestIs ==
  ASSUME NEW t \in Seq(Cells)
  PROVE  /\ Rest(t) \in Seq(Cells)
         /\ \A i \in DOMAIN Rest(t) :
              /\ LastEnd(t) + i \in DOMAIN t /\ Rest(t)[i] = t[LastEnd(t) + i]
<1>1. LastEnd(t) \in 0..Len(t) /\ Len(t) \in Nat
  BY LastEndIs
<1>2. \A i \in LastEnd(t) + 1..Len(t) : t[i] \in Cells
  BY <1>1
<1>3. /\ Rest(t) \in Seq(Cells) /\ Len(Rest(t)) = Len(t) - LastEnd(t)
      /\ \A i \in 1..Len(Rest(t)) : Rest(t)[i] = t[LastEnd(t) + i]
  BY <1>1, <1>2, SMTT(30) DEF Rest
<1> QED BY <1>1, <1>3

LEMMA ReadKeeps ==
  ASSUME IInv, NEW p \in Slots, NEW f \in Files, Read(p, f)
  PROVE  IInv'
<1> USE EventAssumption
<1> DEFINE at   == reader[p][f].at
           e    == IF reader[p][f].size < Len(file[f]) THEN reader[p][f].size ELSE Len(file[f])
           data == SubSeq(file[f], at + 1, e)
           text == pending[f] \o data
           n    == Len(pending[f])
           len  == Len(data)
           more == Cardinality(Ends(text))
           seq  == nextSequenceNumber[f]
           new  == Events(text, seq)
<1>1. /\ file' = file /\ produced' = produced /\ overlapped' = overlapped
      /\ offset' = [offset EXCEPT ![f] = @ + len]
      /\ pending' = [pending EXCEPT ![f] = Rest(text)]
      /\ nextSequenceNumber' = [nextSequenceNumber EXCEPT ![f] = @ + more]
      /\ out' = out \/ out' = [out EXCEPT ![f] = @ \cup new]
      /\ Return(p, f)
  BY DEF Read, Closed, Throw, disk
<1>2. /\ reader'[p][f].pc = "none"
      /\ \A q \in Slots \ {p} : reader'[q][f] = reader[q][f]
      /\ \A g \in Files \ {f} : SameReaders(g)
      /\ reader' \in [Slots -> [Files -> [pc : ReaderPCs, size : Nat, at : Nat]]]
  <2>1. reader' = [reader EXCEPT ![p] = [@ EXCEPT ![f] = Idle]]
    BY <1>1 DEF Return
  <2>2. Idle \in [pc : ReaderPCs, size : Nat, at : Nat] /\ Idle.pc = "none"
    BY DEF Idle, ReaderPCs
  <2>3. reader' \in [Slots -> [Files -> [pc : ReaderPCs, size : Nat, at : Nat]]]
    BY <2>1, <2>2 DEF IInv, TypeOK
  <2>4. /\ reader'[p][f] = Idle
        /\ \A q \in Slots \ {p} : reader'[q][f] = reader[q][f]
        /\ \A g \in Files \ {f} : SameReaders(g)
    BY <2>1, OtherReaders DEF IInv
  <2> QED BY <2>2, <2>3, <2>4
<1>3. /\ at \in Nat /\ e \in Nat /\ e <= Len(file[f]) /\ Len(file[f]) \in Nat /\ n \in Nat
      /\ offset[f] \in Nat /\ seq \in Nat \ {0}
      /\ file[f] \in Seq(Cells) /\ pending[f] \in Seq(Cells)
      /\ DOMAIN pending[f] = 1..n /\ DOMAIN file[f] = 1..Len(file[f])
      /\ \A i \in DOMAIN file[f] : file[f][i] \in Nat
  BY DEF IInv, TypeOK, Cells
<1>4. data = SubSeq(file[f], at + 1, e) /\ text = pending[f] \o data /\ n = Len(pending[f])
      /\ len = Len(data)
  OBVIOUS
<1> HIDE DEF at, e, data, text, n, len, more, seq, new
<1>5. /\ text \in Seq(Cells) /\ len = (IF at < e THEN e - at ELSE 0)
      /\ Len(text) = n + len
      /\ \A i \in 1..n : text[i] = pending[f][i]
      /\ \A i \in n + 1..Len(text) : /\ at + (i - n) \in DOMAIN file[f]
                                    /\ text[i] = file[f][at + (i - n)]
  <2>1. /\ data \in Seq(Cells) /\ len \in Nat
        /\ at < e => len = e - at
        /\ ~(at < e) => len = 0
        /\ \A i \in 1..len : at + i \in DOMAIN file[f] /\ data[i] = file[f][at + i]
    BY <1>3, <1>4, SliceIs
  <2>2. /\ text \in Seq(Cells) /\ Len(text) = n + len
        /\ \A i \in 1..n : text[i] = pending[f][i]
        /\ \A i \in n + 1..Len(text) : i - n \in 1..len /\ text[i] = data[i - n]
    <3>1. text = pending[f] \o data /\ n = Len(pending[f]) /\ len = Len(data)
          /\ pending[f] \in Seq(Cells) /\ data \in Seq(Cells)
      BY <1>3, <1>4, <2>1
    <3> DEFINE s == pending[f]
    <3>2. s \in Seq(Cells) /\ text = s \o data /\ n = Len(s) /\ len = Len(data)
      BY <3>1
    <3> HIDE DEF s
    <3>3. /\ s \o data \in Seq(Cells) /\ Len(s \o data) = Len(s) + Len(data)
          /\ \A i \in 1..Len(s) : (s \o data)[i] = s[i]
          /\ \A i \in Len(s) + 1..Len(s \o data) :
               i - Len(s) \in 1..Len(data) /\ (s \o data)[i] = data[i - Len(s)]
      BY <3>1, <3>2, TextIs
    <3>4. /\ Len(text) = n + len
          /\ \A i \in 1..n : text[i] = s[i]
          /\ \A i \in n + 1..Len(text) : i - n \in 1..len /\ text[i] = data[i - n]
      <4> DEFINE u == s \o data
      <4>1. text = u BY <3>2
      <4>2. /\ Len(u) = n + len
            /\ \A i \in 1..n : u[i] = s[i]
            /\ \A i \in n + 1..Len(u) : i - n \in 1..len /\ u[i] = data[i - n]
        BY <3>2, <3>3
      <4> HIDE DEF u
      <4> QED BY <4>1, <4>2
    <3> QED BY <3>2, <3>3, <3>4 DEF s
  <2> QED BY <2>1, <2>2
<1>6. len \in Nat
  BY <1>3, <1>5
<1>7. more \in Nat /\ \A i \in Ends(text) : i \in DOMAIN text
  BY <1>5, EndsFinite DEF more, Ends
<1>8. /\ Rest(text) \in Seq(Cells)
      /\ \A i \in DOMAIN Rest(text) : /\ LastEnd(text) + i \in DOMAIN text
                                     /\ Rest(text)[i] = text[LastEnd(text) + i]
  BY <1>5, RestIs
<1>9. /\ new \subseteq [id : Nat \ {0}, record : Nat \ {0}]
      /\ \A c \in new : seq <= c.id /\ c.id < seq + more
      /\ \A c \in new : \E i \in Ends(text) : 2 * c.record = text[i]
      /\ \A c, d \in new : c.id = d.id => c = d
      /\ Increasing(text) => \A c, d \in new : c.id < d.id => c.record < d.record
  BY <1>3, <1>5, EventsAre DEF new, more
<1>10. TypeOK'
  <2>1. offset' \in [Files -> Nat]
    BY <1>1, <1>6 DEF IInv, TypeOK
  <2>2. nextSequenceNumber' \in [Files -> Nat \ {0}]
    BY <1>1, <1>7, SMTT(30) DEF IInv, TypeOK
  <2>3. pending' \in [Files -> Seq(Cells)]
    BY <1>1, <1>8 DEF IInv, TypeOK
  <2>4. out' \in [Files -> SUBSET [id : Nat \ {0}, record : Nat \ {0}]]
    <3> DEFINE E == [id : Nat \ {0}, record : Nat \ {0}]
    <3>1. out \in [Files -> SUBSET E] /\ new \subseteq E
      BY <1>9 DEF IInv, TypeOK
    <3>2. out' = out \/ out' = [out EXCEPT ![f] = @ \cup new]
      BY <1>1
    <3> HIDE DEF E
    <3>3. CASE out' = [out EXCEPT ![f] = @ \cup new]
      <4> DEFINE S == SUBSET E
                 b == out[f] \cup new
      <4>1. out \in [Files -> S] /\ b \in S /\ out' = [out EXCEPT ![f] = b]
        BY <3>1, <3>3
      <4> HIDE DEF S, b
      <4>2. out' \in [Files -> S]
        BY <4>1
      <4> QED BY <4>2 DEF S, E
    <3> QED BY <3>1, <3>2, <3>3 DEF E
  <2>5. behind' \in [Files -> {"no", "cut", "lost"}]
    BY DEF Read, IInv, TypeOK
  <2>6. failures' \in 0..MaxFailures /\ rejected' \in BOOLEAN
    <3>1. Closed(p, f) /\ failures \in 0..MaxFailures /\ rejected \in BOOLEAN
      BY DEF Read, IInv, TypeOK
    <3>2. CASE UNCHANGED <<failures, rejected>>
      BY <3>1, <3>2
    <3>3. CASE /\ failures < MaxFailures /\ failures' = failures + 1
               /\ rejected' = (rejected \/ p = pass)
      BY <3>1, <3>3
    <3> QED BY <3>1, <3>2, <3>3 DEF Closed, Throw
  <2> QED BY <1>1, <1>2, <2>1, <2>2, <2>3, <2>4, <2>5, <2>6 DEF Read, IInv, TypeOK, disk
<1>11. \A g \in Files \ {f} : Same(g)
  BY <1>1 DEF Same, IInv, TypeOK
<1>12. /\ offset'[f] = offset[f] + len /\ pending'[f] = Rest(text)
       /\ nextSequenceNumber'[f] = seq + more
       /\ out'[f] \subseteq out[f] \cup new
       /\ file'[f] = file[f] /\ produced'[f] = produced[f] /\ produced[f] \in Nat
  BY <1>1 DEF IInv, TypeOK, seq
<1>13. /\ \A c \in out[f] : c.id \in Nat /\ c.record \in Nat
       /\ \A c \in new : c.id \in Nat /\ c.record \in Nat
  BY <1>9 DEF IInv, TypeOK
<1>14. \A i \in DOMAIN text : /\ i \in 1..n \/ i \in n + 1..Len(text)
                             /\ i \in Nat /\ text[i] \in Nat
  <2>1. DOMAIN text = 1..n + len /\ \A i \in DOMAIN text : text[i] \in Cells
    BY <1>3, <1>5, <1>6
  <2> QED BY <1>3, <1>5, <1>6, <2>1 DEF Cells
<1>15. IdsUsed(f)'
  <2>1. \A c \in out[f], d \in new : c.id < d.id
    BY <1>3, <1>9, <1>13 DEF IInv, FileInv, IdsUsed, seq
  <2>2. \A c \in out'[f] : c.id < seq + more
    BY <1>3, <1>7, <1>9, <1>12, <1>13 DEF IInv, FileInv, IdsUsed, seq
  <2>3. \A c, d \in out'[f] : c.id = d.id => c = d
    BY <1>9, <1>12, <1>13, <2>1 DEF IInv, FileInv, IdsUsed
  <2> QED BY <1>12, <2>2, <2>3 DEF IdsUsed
<1>16. CellsInOrder(f)'
  <2>1. \A i \in DOMAIN text : text[i] <= produced[f]
    <3> TAKE i \in DOMAIN text
    <3>1. CASE i \in 1..n
      BY <1>3, <1>5, <3>1 DEF IInv, FileInv, CellsInOrder
    <3>2. CASE i \in n + 1..Len(text)
      BY <1>5, <3>2 DEF IInv, FileInv, CellsInOrder
    <3> QED BY <1>14, <3>1, <3>2
  <2>2. \A i \in DOMAIN Rest(text) : Rest(text)[i] <= produced[f]
    BY <1>8, <2>1
  <2>3. \A c \in new : 2 * c.record <= produced[f]
    BY <1>7, <1>9, <2>1
  <2> QED BY <1>12, <2>2, <2>3 DEF IInv, FileInv, CellsInOrder, Increasing
<1>17. ASSUME ReadInOrder(f) PROVE ReadInOrder(f)'
  <2>1. at = offset[f] /\ \A q \in Slots \ {p} : ~AtWork(q, f)
    BY <1>17 DEF ReadInOrder, AtWork, Read, At, at
  <2>2. \A q \in Slots : reader'[q][f].pc = "none"
    BY <1>2, <2>1 DEF AtWork
  <2>3. \A i \in DOMAIN text : AfterEvents(f, text[i])
    <3> TAKE i \in DOMAIN text
    <3>1. CASE i \in 1..n
      BY <1>3, <1>5, <1>17, <3>1 DEF ReadInOrder
    <3>2. CASE i \in n + 1..Len(text)
      <4>1. at + (i - n) > offset[f]
        <5>1. i \in Nat /\ n \in Nat /\ i >= n + 1 BY <1>3, <1>14, <3>2
        <5>2. i - n \in Nat /\ i - n > 0 BY <5>1
        <5> QED BY <1>3, <2>1, <5>2
      <4> QED BY <1>5, <1>17, <3>2, <4>1 DEF ReadInOrder, AfterAll
    <3> QED BY <1>14, <3>1, <3>2
  <2>4. Increasing(text)
    <3>1. ASSUME NEW i \in DOMAIN text, NEW j \in DOMAIN text, i < j PROVE text[i] < text[j]
      <4>1. CASE i \in 1..n /\ j \in 1..n
        BY <1>3, <1>5, <1>17, <3>1, <4>1 DEF ReadInOrder, Increasing
      <4>2. CASE i \in 1..n /\ j \in n + 1..Len(text)
        <5>1. at + (j - n) > offset[f]
          BY <1>3, <1>5, <2>1, <4>2
        <5>2. AfterAll(f, text[j])
          BY <1>5, <1>17, <4>2, <5>1 DEF ReadInOrder
        <5> QED BY <1>3, <1>5, <4>2, <5>2 DEF AfterAll
      <4>3. CASE i \in n + 1..Len(text) /\ j \in n + 1..Len(text)
        <5>1. at + (i - n) < at + (j - n)
          BY <1>3, <1>5, <3>1, <4>3
        <5> QED BY <1>5, <4>3, <5>1 DEF IInv, FileInv, CellsInOrder, Increasing
      <4>4. ~(i \in n + 1..Len(text) /\ j \in 1..n)
        BY <1>3, <1>14, <3>1
      <4> QED BY <1>14, <4>1, <4>2, <4>3, <4>4
    <3> QED BY <3>1 DEF Increasing
  <2>5. \A c, d \in out'[f] : c.id < d.id => c.record < d.record
    <3>1. ASSUME NEW c \in out[f], NEW d \in new PROVE c.record < d.record
      <4>1. PICK i \in Ends(text) : 2 * d.record = text[i]
        BY <1>9
      <4>2. 2 * c.record < text[i]
        BY <1>7, <2>3 DEF AfterEvents
      <4> QED BY <1>13, <4>1, <4>2
    <3>2. \A c \in new, d \in out[f] : ~(c.id < d.id)
      BY <1>3, <1>9, <1>13 DEF IInv, FileInv, IdsUsed, seq
    <3> QED BY <1>9, <1>12, <1>17, <2>4, <3>1, <3>2 DEF ReadInOrder
  <2>6. /\ LastEnd(text) \in Nat /\ \A i \in Ends(text) : i <= LastEnd(text)
        /\ \A i \in DOMAIN Rest(text) : i \in Nat \ {0}
    BY <1>5, <1>8, LastEndIs
  <2>7. Increasing(Rest(text))
    <3>1. \A i, j \in DOMAIN Rest(text) : i < j => LastEnd(text) + i < LastEnd(text) + j
      BY <2>6
    <3> QED BY <1>8, <2>4, <3>1 DEF Increasing
  <2>8. ASSUME NEW c \in Nat, \A i \in DOMAIN text : text[i] < c, AfterEvents(f, c)
        PROVE  AfterAll(f, c)'
    <3>1. \A d \in new : 2 * d.record < c
      BY <1>7, <1>9, <2>8
    <3>2. \A i \in DOMAIN Rest(text) : Rest(text)[i] < c
      BY <1>8, <2>8
    <3>3. c' = c OBVIOUS
    <3> QED BY <1>12, <2>8, <3>1, <3>2 DEF AfterAll, AfterEvents
  <2>9. \A i \in DOMAIN Rest(text), d \in out'[f] : 2 * d.record < Rest(text)[i]
    <3> TAKE i \in DOMAIN Rest(text)
    <3>1. LastEnd(text) + i \in DOMAIN text /\ Rest(text)[i] = text[LastEnd(text) + i]
      BY <1>8
    <3>2. \A k \in Ends(text) : k < LastEnd(text) + i
      BY <1>7, <1>14, <2>6
    <3>3. \A k \in Ends(text) : text[k] < text[LastEnd(text) + i]
      BY <1>7, <2>4, <3>1, <3>2 DEF Increasing
    <3>4. \A d \in new : 2 * d.record < Rest(text)[i]
      BY <1>9, <3>1, <3>3
    <3> QED BY <1>12, <2>3, <3>1, <3>4 DEF AfterEvents
  <2>10. ASSUME NEW i \in DOMAIN file[f], i > offset'[f] \/ Shrunk(f)'
         PROVE  AfterAll(f, file[f][i])'
    <3>1. i > offset[f] \/ Shrunk(f)
      <4>1. CASE i > offset'[f]
        BY <1>3, <1>6, <1>12, <4>1
      <4>2. CASE Shrunk(f)'
        <5>1. Len(file[f]) < offset'[f]
          BY <1>1, <2>2, <4>2 DEF Shrunk
        <5>2. len = 0
          BY <1>3, <1>5, <1>12, <2>1, <5>1
        <5> QED BY <1>3, <1>12, <5>1, <5>2 DEF Shrunk
      <4> QED BY <2>10, <4>1, <4>2
    <3>2. AfterAll(f, file[f][i])
      BY <1>17, <3>1 DEF ReadInOrder
    <3>3. ASSUME NEW k \in n + 1..Len(text) PROVE text[k] < file[f][i]
      <4>1. at + (k - n) \in DOMAIN file[f] /\ text[k] = file[f][at + (k - n)]
        BY <1>5
      <4>2. k - n \in 1..len /\ len # 0
        BY <1>3, <1>5, <1>6
      <4>3. i > offset'[f]
        <5>1. ~(Len(file[f]) < offset'[f])
          <6>1. at < e /\ len = e - at
            BY <1>3, <1>5, <4>2
          <6>2. offset'[f] = e /\ e \in Nat /\ e <= Len(file[f])
            BY <1>3, <1>12, <2>1, <6>1
          <6> QED BY <1>3, <6>2
        <5>2. ~Shrunk(f)'
          BY <1>1, <2>2, <5>1 DEF Shrunk
        <5> QED BY <2>10, <5>2
      <4>4. at + (k - n) < i
        BY <1>3, <1>6, <1>12, <2>1, <4>2, <4>3
      <4> QED BY <4>1, <4>4 DEF IInv, FileInv, CellsInOrder, Increasing
    <3>4. \A k \in 1..n : text[k] < file[f][i]
      BY <1>3, <1>5, <3>2 DEF AfterAll
    <3>5. \A k \in DOMAIN text : text[k] < file[f][i]
      BY <1>14, <3>3, <3>4
    <3>6. file[f][i] \in Nat /\ AfterEvents(f, file[f][i])
      BY <1>3, <3>2 DEF AfterAll
    <3> QED BY <1>1, <2>8, <3>5, <3>6 DEF AfterAll, AfterEvents
  <2> QED BY <1>12, <2>2, <2>5, <2>7, <2>9, <2>10 DEF ReadInOrder, AtWork, AfterAll, AfterEvents
<1>18. overlapped' = overlapped
  BY <1>1
<1>19. FileInv(f)'
  BY <1>15, <1>16, <1>17, <1>18 DEF IInv, FileInv
<1> QED BY <1>2, <1>10, <1>11, <1>19, SameKeeps DEF IInv

LEMMA NextKeeps == IInv /\ [Next]_vars => IInv'
<1> SUFFICES ASSUME IInv, [Next]_vars PROVE IInv'
  OBVIOUS
<1>1. CASE UNCHANGED vars
  <2>1. \A f \in Files : Same(f) /\ SameReaders(f)
    BY <1>1 DEF vars, disk, state, poller, history, Same, SameReaders
  <2>2. TypeOK'
    BY <1>1 DEF IInv, TypeOK, vars, disk, state, poller, history
  <2> QED BY <2>1, <2>2, SameKeeps DEF IInv
<1>2. CASE \E f \in Files : Produce(f) \/ Truncate(f)
  BY <1>2, ProduceKeeps, TruncateKeeps
<1>3. CASE Find
  BY <1>3, FindKeeps
<1>4. CASE FindFails \/ Settle \/ Wake \/ StopAsync \/ Close
  BY <1>4, ControlKeeps
<1>5. ASSUME NEW p \in Slots, NEW f \in Files, ReaderStep(p, f) \/ Fails(p, f)
      PROVE  IInv'
  BY <1>5, StatKeeps, LeaveKeeps, SizedKeeps, OpenKeeps, ReadKeeps DEF ReaderStep
<1> QED BY <1>1, <1>2, <1>3, <1>4, <1>5 DEF Next

\* Whatever the producer, the passes, their readers and the failures do, IDs in
\* use are below the next one, cells are known in the order they were produced,
\* and a file read by one reader at a time is read in that order.
THEOREM Invariant == Spec => []IInv
<1>1. Init => IInv
  BY InitIInv
<1>2. IInv /\ [Next]_vars => IInv'
  BY NextKeeps
<1> QED BY <1>1, <1>2, PTL DEF Spec

\* The shape of every variable: no offset, sequence number or ID leaves its set.
THEOREM TypeCorrect == Spec => []TypeOK
<1>1. IInv => TypeOK
  BY DEF IInv
<1> QED BY <1>1, Invariant, PTL

\* deviceRunSessionEvents.ts 76-79 and 417-433: an ID names one event for ever,
\* and unless two readers of a file overlapped its records are written once and
\* in order, for any number of files, passes, truncations and failures.
THEOREM EventsWrittenOnce == Spec => []EventsOnce
<1>1. IInv => EventsOnce
  BY DEF IInv, FileInv, IdsUsed, ReadInOrder, EventsOnce
<1> QED BY <1>1, Invariant, PTL

-----------------------------------------------------------------------------
(* What was read of a file is written, and what stopAsync waits for is read. *)

\* The cells of a file are consecutive, and begin with the start of a record.
Consecutive(f) ==
  \E b \in 0..produced[f] : /\ produced[f] = 2 * b + Len(file[f])
                            /\ \A i \in DOMAIN file[f] : file[f][i] = 2 * b + i

\* The lines that end in the first n cells of f are written.
Written(f, n) ==
  \A i \in DOMAIN file[f] :
    i <= n /\ file[f][i] % 2 = 0 => \E e \in out[f] : 2 * e.record = file[f][i]

\* The records stopAsync promises are among the first n cells of f.
Promised(f, n) ==
  \A r \in complete[f] : \E i \in DOMAIN file[f] : i <= n /\ file[f][i] = 2 * r

\* As far as f was read its lines are written, and at most half a record is pending.
UpToDate(f) ==
  /\ offset[f] = 0 => pending[f] = <<>>
  /\ behind[f] = "no" =>
       /\ offset[f] <= Len(file[f]) /\ Written(f, offset[f])
       /\ \E h \in 0..offset[f] :
            \/ offset[f] = 2 * h     /\ pending[f] = <<>>
            \/ offset[f] = 2 * h + 1 /\ pending[f] = <<file[f][offset[f]]>>

\* The reader of f in stopAsync's own pass has still to read, or has written, what
\* was promised; unless f was truncated behind its back, and nothing is.
LastPass(f) ==
  LET r == reader[pass][f]
  IN  /\ r.pc = "none" => \A n \in complete[f] : \E e \in out[f] : e.record = n
      /\ r.pc \in {"sized", "open", "read"} => Promised(f, r.size)
      /\ r.pc \in {"open", "read"} /\ behind[f] = "cut" => complete[f] = {}

Trusted(f) == ~overlapped[f] /\ behind[f] # "lost"

CollectInv(f) ==
  /\ Consecutive(f)
  /\ Promised(f, Len(file[f]))
  /\ Trusted(f) /\ phase # "done" => UpToDate(f)
  /\ Trusted(f) /\ ~rejected /\ stop = "last" /\ phase \in {"collect", "close", "done"}
       => LastPass(f)

StopInv ==
  phase \in {"close", "done"} =>
    stop = "last" /\ (rejected \/ \A f \in Files : ~AtWork(pass, f))

CInv == StopInv /\ \A f \in Files : CollectInv(f)

\* The history of f is left alone as well.
SameHistory(f) == Same(f) /\ behind'[f] = behind[f] /\ complete'[f] = complete[f]

\* A step of the readers or of the producer leaves the passes alone, except that
\* the current one may be rejected.
SamePass == UNCHANGED <<pass, phase, stop>> /\ (rejected => rejected')

LEMMA Halves ==
  /\ \A n \in Nat : n % 2 = 0 => \E k \in 0..n : n = 2 * k
  /\ \A k \in Nat : (2 * k) % 2 = 0 /\ (2 * k + 1) % 2 # 0
<1>1. \A n \in Nat : n % 2 = 0 => n \div 2 \in 0..n /\ n = 2 * (n \div 2)
  BY Z3
<1>2. \A k \in Nat : (2 * k) % 2 = 0 /\ (2 * k + 1) % 2 # 0
  BY Z3
<1> QED BY <1>1, <1>2

\* A text of consecutive cells that begins with a record: all its lines are
\* events, and what is left of it is nothing or the first half of a record.
LEMMA ConsecutiveText ==
  ASSUME NEW t \in Seq(Cells), NEW s \in Nat \ {0}, NEW b \in Nat,
         \A i \in DOMAIN t : t[i] = 2 * b + i
  PROVE  /\ \A i \in DOMAIN t : t[i] % 2 = 0 => \E e \in Events(t, s) : 2 * e.record = t[i]
         /\ \E h \in 0..Len(t) :
              \/ Len(t) = 2 * h     /\ Rest(t) = <<>>
              \/ Len(t) = 2 * h + 1 /\ Rest(t) = <<t[Len(t)]>>
<1>1. DOMAIN t = 1..Len(t) /\ Len(t) \in Nat
  OBVIOUS
<1>2. \A k \in Nat : 2 * k \in 1..Len(t) => 2 * k \in Ends(t)
  <2> TAKE k \in Nat
  <2> HAVE 2 * k \in 1..Len(t)
  <2>1. t[2 * k] = 2 * (b + k) /\ b + k \in Nat BY <1>1
  <2> QED BY <1>1, <2>1, Halves DEF Ends
<1>3. \A i \in Ends(t) : \E k \in Nat : i = 2 * k
  <2> TAKE i \in Ends(t)
  <2>1. i \in 1..Len(t) /\ t[i] = 2 * b + i /\ (2 * b + i) % 2 = 0 BY <1>1 DEF Ends
  <2>0. 2 * b + i \in Nat BY <2>1
  <2>2. PICK k \in 0..(2 * b + i) : 2 * b + i = 2 * k BY <2>0, <2>1, Halves
  <2>3. k - b \in Nat /\ i = 2 * (k - b) BY <2>1, <2>2
  <2> QED BY <2>3
<1>4. ASSUME NEW i \in DOMAIN t, t[i] % 2 = 0
      PROVE  \E e \in Events(t, s) : 2 * e.record = t[i]
  <2>1. i \in Ends(t) BY <1>4 DEF Ends
  <2>2. PICK k \in Nat : i = 2 * k BY <1>3, <2>1
  <2>3. k >= 1 /\ i - 1 \in 1..Len(t) /\ i \in 1..Len(t) BY <1>1, <2>2
  <2>4. t[i - 1] + 1 = t[i] BY <1>1, <2>3
  <2>5. i = 2 \/ i - 2 \in Ends(t)
    <3>1. CASE k = 1 BY <2>2, <3>1
    <3>2. CASE k # 1
      <4> DEFINE m == k - 1
      <4>1. m \in Nat /\ 2 * m = i - 2 /\ 2 * m \in 1..Len(t) BY <2>2, <2>3, <3>2
      <4>2. 2 * m \in Ends(t)
        <5> HIDE DEF m
        <5> QED BY <1>2, <4>1
      <4> QED BY <4>1, <4>2
    <3> QED BY <3>1, <3>2
  <2>6. IsRecord(t, i) BY <2>2, <2>3, <2>4, <2>5 DEF IsRecord
  <2>7. [id |-> s + LineOf(t, i) - 1, record |-> t[i] \div 2] \in Events(t, s)
    BY <2>1, <2>6 DEF Events
  <2>8. t[i] \in Nat /\ 2 * (t[i] \div 2) = t[i]
    <3>1. \A n \in Nat : n % 2 = 0 => 2 * (n \div 2) = n BY Z3
    <3> QED BY <1>1, <1>4, <3>1 DEF Cells
  <2> QED BY <2>7, <2>8
<1>5. \E h \in 0..Len(t) : Len(t) = 2 * h \/ Len(t) = 2 * h + 1
  <2>1. \A n \in Nat : n \div 2 \in 0..n /\ (n = 2 * (n \div 2) \/ n = 2 * (n \div 2) + 1)
    BY Z3
  <2> QED BY <1>1, <2>1
<1>6. PICK h \in 0..Len(t) : Len(t) = 2 * h \/ Len(t) = 2 * h + 1
  BY <1>5
<1>7. LastEnd(t) = 2 * h
  <2>1. /\ LastEnd(t) \in 0..Len(t) /\ \A j \in Ends(t) : j <= LastEnd(t)
        /\ LastEnd(t) = 0 \/ LastEnd(t) \in Ends(t)
    BY LastEndIs
  <2>0. Len(t) \in Nat /\ h \in Nat BY <1>1
  <2>2. h = 0 \/ 2 * h \in 1..Len(t)
    <3> DEFINE n == Len(t)
    <3>1. n \in Nat /\ (n = 2 * h \/ n = 2 * h + 1) BY <1>6, <2>0
    <3> HIDE DEF n
    <3>2. h = 0 \/ 2 * h \in 1..n BY <2>0, <3>1
    <3> QED BY <3>2 DEF n
  <2>3. 2 * h <= LastEnd(t) BY <1>2, <1>6, <2>1, <2>2
  <2>4. LastEnd(t) # 2 * h + 1 BY <1>3, <2>1
  <2>5. LastEnd(t) \in Nat /\ LastEnd(t) <= Len(t) BY <2>0, <2>1
  <2> DEFINE n == Len(t)
             x == LastEnd(t)
  <2>6. /\ n \in Nat /\ x \in Nat /\ x <= n /\ 2 * h <= x /\ x # 2 * h + 1
        /\ n = 2 * h \/ n = 2 * h + 1
    BY <1>6, <2>0, <2>3, <2>4, <2>5
  <2> HIDE DEF n, x
  <2>7. x = 2 * h BY <2>0, <2>6
  <2> QED BY <2>7 DEF x
<1>8. Rest(t) = SubSeq(t, 2 * h + 1, Len(t)) BY <1>7 DEF Rest
<1>9. CASE Len(t) = 2 * h
  <2>1. SubSeq(t, 2 * h + 1, Len(t)) = <<>> BY <1>1, <1>9
  <2> QED BY <1>4, <1>6, <1>8, <1>9, <2>1
<1>10. CASE Len(t) = 2 * h + 1
  <2> DEFINE q == SubSeq(t, 2 * h + 1, Len(t))
  <2>0. 2 * h \in Nat /\ 2 * h < Len(t) /\ Len(t) - 2 * h = 1 /\ 2 * h + 1 = Len(t) BY <1>1, <1>10
  <2>1. q \in Seq(Cells) /\ Len(q) = 1 /\ q[1] = t[Len(t)]
    <3>0. PICK m \in Nat : m = 2 * h BY <2>0
    <3>1. q = SubSeq(t, m + 1, Len(t)) /\ m < Len(t) /\ Len(t) - m = 1 /\ m + 1 = Len(t)
      BY <2>0, <3>0
    <3> HIDE DEF q
    <3>2. Len(t) \in Nat /\ Len(t) <= Len(t) BY <1>1
    <3>3. /\ q \in Seq(Cells) /\ Len(q) = Len(t) - m
          /\ \A i \in 1..Len(q) : q[i] = t[m + i]
      BY <3>1, <3>2, SliceIs
    <3>4. 1 \in 1..Len(q) BY <3>1, <3>3
    <3> QED BY <3>1, <3>3, <3>4
  <2>2. q = <<t[Len(t)]>>
    <3> HIDE DEF q
    <3> QED BY <2>1
  <2> QED BY <1>4, <1>6, <1>8, <1>10, <2>2
<1> QED BY <1>6, <1>9, <1>10

\* A file nothing happens to.
LEMMA QuietCollects ==
  ASSUME NEW f \in Files, CollectInv(f), SameHistory(f), reader'[pass][f] = reader[pass][f],
         SamePass
  PROVE  CollectInv(f)'
<1>1. Consecutive(f)' /\ Promised(f, Len(file[f]))'
  BY DEF CollectInv, SameHistory, Same, Consecutive, Promised
<1>2. Trusted(f)' => Trusted(f)
  BY DEF Trusted, SameHistory, Same
<1>3. UpToDate(f) => UpToDate(f)'
  BY DEF UpToDate, Written, SameHistory, Same
<1>4. LastPass(f) => LastPass(f)'
  BY DEF LastPass, Promised, SameHistory, Same, SamePass
<1> QED BY <1>1, <1>2, <1>3, <1>4 DEF CollectInv, SamePass

LEMMA ReadersStop ==
  ASSUME StopInv, SamePass, \A f \in Files : AtWork(pass, f)' => AtWork(pass, f)
  PROVE  StopInv'
BY DEF StopInv, SamePass, AtWork

\* What was promised of a file that is empty is nothing.
LEMMA NothingPromised ==
  ASSUME NEW f \in Files, CollectInv(f), file[f] = <<>>
  PROVE  complete[f] = {}
BY DEF CollectInv, Promised

LEMMA InitCollects == Init => CInv
<1> SUFFICES ASSUME Init PROVE CInv
  OBVIOUS
<1>1. phase = "find" /\ stop = "no"
  BY DEF Init
<1>2. ASSUME NEW f \in Files PROVE CollectInv(f)
  <2>1. /\ file[f] = <<>> /\ pending[f] = <<>> /\ offset[f] = 0 /\ produced[f] = 0
        /\ complete[f] = {}
    BY DEF Init
  <2>2. Len(file[f]) = 0 /\ DOMAIN file[f] = {}
    BY <2>1
  <2>3. Consecutive(f)
    BY <2>1, <2>2 DEF Consecutive
  <2>4. UpToDate(f)
    BY <2>1, <2>2 DEF UpToDate, Written
  <2> QED BY <1>1, <2>1, <2>3, <2>4 DEF CollectInv, Promised
<1> QED BY <1>1, <1>2 DEF CInv, StopInv

LEMMA ProduceCollects ==
  ASSUME IInv, CInv, NEW f \in Files, Produce(f)
  PROVE  CInv'
<1> DEFINE c == produced[f] + 1
<1>1. /\ file[f] \in Seq(Cells) /\ produced[f] \in Nat /\ Len(file[f]) \in Nat
      /\ file'[f] = Append(file[f], c) /\ produced'[f] = c
      /\ \A g \in Files \ {f} : file'[g] = file[g] /\ produced'[g] = produced[g]
      /\ phase # "done"
  BY DEF IInv, TypeOK, Produce
<1>2. UNCHANGED <<failures, offset, pending, nextSequenceNumber, reader, pass, rejected, phase,
                  stop, out, behind, overlapped, complete>>
  BY DEF Produce, state, poller, history
<1>3. ASSUME NEW g \in Files \ {f} PROVE CollectInv(g)'
  <2>1. SameHistory(g) BY <1>1, <1>2 DEF SameHistory, Same
  <2> QED BY <1>2, <2>1, QuietCollects DEF CInv, SamePass
<1>4. /\ Len(file'[f]) = Len(file[f]) + 1 /\ DOMAIN file[f] = 1..Len(file[f])
      /\ DOMAIN file'[f] = 1..Len(file[f]) + 1
      /\ \A i \in DOMAIN file[f] : file'[f][i] = file[f][i]
      /\ file'[f][Len(file[f]) + 1] = c
  BY <1>1 DEF Cells
<1>5. Consecutive(f)'
  <2>1. PICK b \in 0..produced[f] : /\ produced[f] = 2 * b + Len(file[f])
                                    /\ \A i \in DOMAIN file[f] : file[f][i] = 2 * b + i
    BY DEF CInv, CollectInv, Consecutive
  <2> DEFINE n == Len(file[f])
             q == produced[f]
  <2>0. n \in Nat /\ q \in Nat /\ b \in 0..q /\ q = 2 * b + n
    BY <1>1, <2>1
  <2>2. b \in 0..c /\ c = 2 * b + (Len(file[f]) + 1)
    <3> HIDE DEF n, q
    <3>1. b \in 0..(q + 1) /\ q + 1 = 2 * b + (n + 1)
      BY <2>0
    <3> QED BY <3>1 DEF n, q
  <2>3. ASSUME NEW i \in DOMAIN file'[f] PROVE file'[f][i] = 2 * b + i
    <3>1. CASE i \in DOMAIN file[f]
      BY <1>4, <2>1, <3>1
    <3>2. CASE i \notin DOMAIN file[f]
      <4>1. i = Len(file[f]) + 1
        BY <1>1, <1>4, <3>2
      <4> QED BY <1>4, <2>2, <4>1
    <3> QED BY <3>1, <3>2
  <2> QED BY <1>1, <1>4, <2>2, <2>3 DEF Consecutive
<1>6. ASSUME NEW n \in Nat, Promised(f, n) PROVE \A r \in complete[f] :
        \E i \in DOMAIN file'[f] : i <= n /\ file'[f][i] = 2 * r
  <2> TAKE r \in complete[f]
  <2>1. PICK i \in DOMAIN file[f] : i <= n /\ file[f][i] = 2 * r
    BY <1>6 DEF Promised
  <2> QED BY <1>1, <1>4, <2>1
<1>7. Promised(f, Len(file[f]))'
  <2>1. Promised(f, Len(file[f])) BY DEF CInv, CollectInv
  <2>2. \A r \in complete[f] :
          \E i \in DOMAIN file'[f] : i <= Len(file[f]) /\ file'[f][i] = 2 * r
    BY <1>1, <1>6, <2>1
  <2>3. \A i \in DOMAIN file'[f] : i <= Len(file[f]) => i <= Len(file'[f])
    BY <1>1, <1>4
  <2> QED BY <1>2, <2>2, <2>3 DEF Promised
<1>8. UpToDate(f) => UpToDate(f)'
  <2> SUFFICES ASSUME UpToDate(f), behind[f] = "no"
               PROVE  /\ offset[f] <= Len(file'[f])
                      /\ Written(f, offset[f])'
                      /\ \E h \in 0..offset[f] :
                           \/ offset[f] = 2 * h     /\ pending[f] = <<>>
                           \/ offset[f] = 2 * h + 1 /\ pending[f] = <<file'[f][offset[f]]>>
    BY <1>2 DEF UpToDate
  <2>1. offset[f] \in Nat /\ offset[f] <= Len(file[f])
    BY DEF UpToDate, IInv, TypeOK
  <2>2. \A i \in DOMAIN file'[f] : i <= offset[f] => i \in DOMAIN file[f]
    BY <1>1, <1>4, <2>1
  <2>3. Written(f, offset[f])'
    BY <1>2, <1>4, <2>2 DEF UpToDate, Written
  <2>4. PICK h \in 0..offset[f] : \/ offset[f] = 2 * h     /\ pending[f] = <<>>
                                  \/ offset[f] = 2 * h + 1 /\ pending[f] = <<file[f][offset[f]]>>
    BY DEF UpToDate
  <2>5. offset[f] = 2 * h + 1 => offset[f] \in DOMAIN file[f]
    BY <1>1, <1>4, <2>1
  <2> QED BY <1>1, <1>4, <2>1, <2>3, <2>4, <2>5
<1>9. LastPass(f) => LastPass(f)'
  <2>1. pass \in Slots /\ reader[pass][f].size \in Nat
    BY DEF IInv, TypeOK
  <2>2. Promised(f, reader[pass][f].size) => Promised(f, reader[pass][f].size)'
    BY <1>2, <1>6, <2>1 DEF Promised
  <2> QED BY <1>2, <2>2 DEF LastPass
<1>10. CollectInv(f)'
  BY <1>1, <1>2, <1>5, <1>7, <1>8, <1>9 DEF CInv, CollectInv, Trusted
<1>11. StopInv'
  BY <1>1, <1>2 DEF CInv, StopInv, AtWork
<1> QED BY <1>3, <1>10, <1>11 DEF CInv

LEMMA TruncateCollects ==
  ASSUME IInv, CInv, NEW f \in Files, Truncate(f)
  PROVE  CInv'
<1>1. /\ file'[f] = <<>> /\ complete'[f] = {} /\ behind'[f] # "no"
      /\ produced[f] \in Nat /\ produced[f] % 2 = 0 /\ produced' = produced /\ phase # "done"
      /\ \A g \in Files \ {f} : /\ file'[g] = file[g] /\ complete'[g] = complete[g]
                                /\ behind'[g] = behind[g]
      /\ behind[f] = "lost" => behind'[f] = "lost"
  BY DEF IInv, TypeOK, Truncate
<1>2. UNCHANGED <<failures, offset, pending, nextSequenceNumber, reader, pass, rejected, phase,
                  stop, out, overlapped>>
  BY DEF Truncate, state, poller
<1>3. ASSUME NEW g \in Files \ {f} PROVE CollectInv(g)'
  <2>1. SameHistory(g) BY <1>1, <1>2 DEF SameHistory, Same
  <2> QED BY <1>2, <2>1, QuietCollects DEF CInv, SamePass
<1>4. Len(file'[f]) = 0 /\ DOMAIN file'[f] = {}
  BY <1>1
<1>5. Consecutive(f)'
  <2>1. PICK k \in 0..produced[f] : produced[f] = 2 * k BY <1>1, Halves
  <2> QED BY <1>1, <1>4, <2>1 DEF Consecutive
<1>6. UpToDate(f) => UpToDate(f)'
  BY <1>1, <1>2 DEF UpToDate
<1>7. LastPass(f)' /\ Promised(f, Len(file[f]))'
  BY <1>1 DEF LastPass, Promised
<1>8. CollectInv(f)'
  BY <1>1, <1>2, <1>5, <1>6, <1>7 DEF CInv, CollectInv, Trusted
<1>9. StopInv'
  BY <1>1, <1>2 DEF CInv, StopInv, AtWork
<1> QED BY <1>3, <1>8, <1>9 DEF CInv

LEMMA FindCollects ==
  ASSUME IInv, CInv, Find
  PROVE  CInv'
<1>1. pass' \in Slots /\ phase' = "collect" /\ phase = "find"
  BY DEF Find, FreeSlots
<1>2. \A g \in Files : reader'[pass'][g] = Started
  BY <1>1 DEF Find, IInv, TypeOK
<1>3. ASSUME NEW f \in Files PROVE CollectInv(f)'
  <2>1. Same(f) \/ (overlapped'[f] /\ UNCHANGED <<file, produced>>)
    BY DEF Find, Same, disk, state, IInv, TypeOK
  <2>2. UNCHANGED <<file, produced, offset, pending, out, behind, complete>>
    BY DEF Find, disk, state
  <2>3. Consecutive(f)' /\ Promised(f, Len(file[f]))'
    BY <2>2 DEF CInv, CollectInv, Consecutive, Promised
  <2>4. Trusted(f)' => Trusted(f)
    BY DEF Find, Trusted
  <2>5. UpToDate(f) => UpToDate(f)'
    BY <2>2 DEF UpToDate, Written
  <2>6. LastPass(f)'
    BY <1>2 DEF LastPass, Started
  <2> QED BY <1>1, <2>3, <2>4, <2>5, <2>6 DEF CInv, CollectInv
<1> QED BY <1>1, <1>3 DEF CInv, StopInv

LEMMA ControlCollects ==
  ASSUME IInv, CInv, FindFails \/ Settle \/ Wake \/ StopAsync \/ Close
  PROVE  CInv'
<1>1. UNCHANGED <<disk, state, reader, out, behind, overlapped, pass>>
  BY DEF FindFails, Settle, Wake, StopAsync, Close, history
<1>2. ASSUME NEW f \in Files PROVE Promised(f, Len(file[f]))'
  <2>1. CASE StopAsync
    <3>0. file[f] \in Seq(Cells) /\ file' = file /\ 1 \in Nat \ {0}
      BY <1>1 DEF IInv, TypeOK, disk
    <3>1. ASSUME NEW r \in RecordsIn(file[f])
          PROVE  \E i \in DOMAIN file[f] : i <= Len(file[f]) /\ file[f][i] = 2 * r
      <4>1. PICK i \in {j \in Ends(file[f]) : IsRecord(file[f], j)} : r = file[f][i] \div 2
        BY DEF RecordsIn
      <4>2. [id |-> 1 + LineOf(file[f], i) - 1, record |-> r] \in Events(file[f], 1)
        BY <4>1 DEF Events
      <4>3. PICK k \in Ends(file[f]) : 2 * r = file[f][k]
        BY <3>0, <4>2, EventsAre
      <4> QED BY <3>0, <4>3, EndsFinite DEF Ends
    <3>2. complete'[f] = RecordsIn(file[f])
      BY <2>1 DEF StopAsync
    <3> QED BY <3>0, <3>1, <3>2 DEF Promised
  <2>2. CASE ~StopAsync
    <3>1. UNCHANGED <<file, complete>>
      BY <1>1, <2>2 DEF FindFails, Settle, Wake, Close, history, disk
    <3> QED BY <3>1 DEF CInv, CollectInv, Promised
  <2> QED BY <2>1, <2>2
<1>3. ASSUME NEW f \in Files PROVE CollectInv(f)'
  <2>1. UNCHANGED <<file, produced, offset, pending, out, behind, overlapped, reader, pass>>
    BY <1>1 DEF disk, state
  <2>2. Consecutive(f)' /\ (Trusted(f)' => Trusted(f)) /\ (UpToDate(f) => UpToDate(f)')
    BY <2>1 DEF CInv, CollectInv, Consecutive, Trusted, UpToDate, Written
  <2>3. phase' # "done" => phase # "done"
    BY DEF FindFails, Settle, Wake, StopAsync, Close, PassOver
  <2>4. ASSUME ~rejected', stop' = "last", phase' \in {"collect", "close", "done"}
        PROVE  /\ ~rejected /\ stop = "last" /\ phase \in {"collect", "close", "done"}
               /\ UNCHANGED complete
    <3>1. CASE FindFails BY <2>4, <3>1 DEF FindFails
    <3>2. CASE Settle BY <2>4, <3>2 DEF Settle, PassOver, history
    <3>3. CASE Wake BY <2>4, <3>3 DEF Wake
    <3>4. CASE StopAsync BY <2>4, <3>4 DEF StopAsync
    <3>5. CASE Close BY <2>4, <3>5 DEF Close, history
    <3> QED BY <3>1, <3>2, <3>3, <3>4, <3>5
  <2>5. UNCHANGED complete /\ LastPass(f) => LastPass(f)'
    BY <2>1 DEF LastPass, Promised
  <2> QED BY <1>2, <2>2, <2>3, <2>4, <2>5 DEF CInv, CollectInv
<1>4. StopInv'
  <2>1. CASE FindFails BY <2>1 DEF FindFails, PassOver, StopInv
  <2>2. CASE Settle
    <3>1. rejected' \/ \A f \in Files : ~AtWork(pass, f)'
      BY <2>2 DEF Settle, AtWork
    <3>2. phase' \in {"close", "done"} => stop' = "last"
      BY <2>2 DEF Settle, PassOver
    <3> QED BY <3>1, <3>2 DEF StopInv
  <2>3. CASE Wake BY <2>3 DEF Wake, StopInv
  <2>4. CASE StopAsync BY <2>4 DEF StopAsync, CInv, StopInv
  <2>5. CASE Close BY <2>5 DEF Close, CInv, StopInv, AtWork
  <2> QED BY <2>1, <2>2, <2>3, <2>4, <2>5
<1> QED BY <1>3, <1>4 DEF CInv

\* A step of a reader of f leaves the other files and the passes alone.
LEMMA ReaderStepIs ==
  ASSUME IInv, CInv, NEW p \in Slots, NEW f \in Files, ReaderStep(p, f) \/ Fails(p, f)
  PROVE  /\ SamePass /\ UNCHANGED <<file, produced, overlapped, complete>>
         /\ \A g \in Files \ {f} : SameHistory(g) /\ SameReaders(g)
         /\ \A q \in Slots \ {p} : reader'[q][f] = reader[q][f]
         /\ AtWork(p, f)
         /\ \A q \in Slots, g \in Files : AtWork(q, g)' => AtWork(q, g)
<1>1. PICK r : reader' = [reader EXCEPT ![p] = [@ EXCEPT ![f] = r]]
  <2>1. CASE Stat(p, f) BY <2>1 DEF Stat
  <2>2. CASE Missing(p, f) BY <2>2 DEF Missing, Return
  <2>3. CASE Sized(p, f)
    <3>1. CASE Return(p, f) BY <3>1 DEF Return
    <3>2. CASE Goto(p, f, "open")
      <4>1. reader' = [reader EXCEPT ![p] = [@ EXCEPT ![f] = [reader[p][f] EXCEPT !.pc = "open"]]]
        BY <3>2 DEF Goto, IInv, TypeOK
      <4> QED BY <4>1
    <3> QED BY <2>3, <3>1, <3>2 DEF Sized
  <2>4. CASE Open(p, f)
    <3>1. CASE Throw(p, f) BY <3>1 DEF Throw, Return
    <3>2. CASE reader' = [reader EXCEPT ![p] = [@ EXCEPT ![f].pc = "read", ![f].at = offset[f]]]
      <4>1. reader' = [reader EXCEPT ![p] =
                [@ EXCEPT ![f] = [reader[p][f] EXCEPT !.pc = "read", !.at = offset[f]]]]
        BY <3>2 DEF IInv, TypeOK
      <4> QED BY <4>1
    <3> QED BY <2>4, <3>1, <3>2 DEF Open
  <2>5. CASE Read(p, f) BY <2>5 DEF Read, Closed, Throw, Return
  <2>6. CASE Fails(p, f) BY <2>6 DEF Fails, Throw, Return
  <2> QED BY <2>1, <2>2, <2>3, <2>4, <2>5, <2>6 DEF ReaderStep
<1>2. /\ \A q \in Slots \ {p} : reader'[q][f] = reader[q][f]
      /\ \A g \in Files \ {f} : SameReaders(g)
  BY <1>1, OtherReaders, ZenonT(40) DEF IInv
<1>3. SamePass
  <2>1. CASE Stat(p, f) \/ Missing(p, f) \/ Sized(p, f)
    <3>1. UNCHANGED poller
      BY <2>1 DEF Stat, Missing, Sized
    <3> QED BY <3>1 DEF SamePass, poller
  <2>2. CASE Open(p, f) \/ Read(p, f) \/ Fails(p, f)
    <3>1. UNCHANGED <<pass, phase, stop>>
      BY <2>2 DEF Open, Read, Fails
    <3>2. Throw(p, f) \/ UNCHANGED rejected
      BY <2>2 DEF Open, Read, Closed, Fails
    <3>3. rejected => rejected'
      BY <3>2 DEF Throw
    <3> QED BY <3>1, <3>3 DEF SamePass
  <2> QED BY <2>1, <2>2 DEF ReaderStep
<1>4. UNCHANGED <<file, produced, overlapped, complete>>
  BY DEF ReaderStep, Stat, Missing, Sized, Open, Read, Fails, disk, history
<1>5. ASSUME NEW g \in Files \ {f} PROVE SameHistory(g)
  <2>1. CASE Sized(p, f)
    <3>1. behind'[g] = behind[g] /\ out'[g] = out[g]
      BY <2>1 DEF Sized, IInv, TypeOK
    <3>2. offset'[g] = offset[g] /\ pending'[g] = pending[g]
          /\ nextSequenceNumber'[g] = nextSequenceNumber[g]
      BY <2>1 DEF Sized, Reset, state, IInv, TypeOK
    <3> QED BY <1>4, <3>1, <3>2 DEF SameHistory, Same
  <2>2. CASE Read(p, f)
    <3>1. behind'[g] = behind[g] /\ out'[g] = out[g]
      BY <2>2 DEF Read, IInv, TypeOK
    <3>2. offset'[g] = offset[g] /\ pending'[g] = pending[g]
          /\ nextSequenceNumber'[g] = nextSequenceNumber[g]
      BY <2>2 DEF Read, IInv, TypeOK
    <3> QED BY <1>4, <3>1, <3>2 DEF SameHistory, Same
  <2>3. CASE Stat(p, f) \/ Missing(p, f) \/ Open(p, f) \/ Fails(p, f)
    BY <2>3 DEF SameHistory, Same, Stat, Missing, Open, Fails, disk, state, history
  <2> QED BY <2>1, <2>2, <2>3 DEF ReaderStep
<1>6. AtWork(p, f)
  BY DEF AtWork, ReaderStep, Stat, Missing, Sized, Open, Read, Fails, At
<1>7. \A q \in Slots, g \in Files : AtWork(q, g)' => AtWork(q, g)
  BY <1>2, <1>6 DEF AtWork, SameReaders
<1> QED BY <1>2, <1>3, <1>4, <1>5, <1>6, <1>7

\* It is enough to look at the file, and at its reader in the current pass.
LEMMA ReaderCollects ==
  ASSUME IInv, CInv, NEW p \in Slots, NEW f \in Files, ReaderStep(p, f) \/ Fails(p, f),
         Trusted(f)' => Trusted(f),
         Trusted(f)' /\ phase # "done" /\ UpToDate(f) => UpToDate(f)',
         Trusted(f)' /\ ~rejected' /\ stop = "last" /\ phase = "collect" /\ LastPass(f)
             /\ p = pass /\ UpToDate(f)
           => LastPass(f)',
         \A n \in complete[f] :
           (\E e \in out[f] : e.record = n) => \E e \in out'[f] : e.record = n,
         behind'[f] = "cut" => behind[f] = "cut"
  PROVE  CInv'
<1>1. /\ SamePass /\ UNCHANGED <<file, produced, overlapped, complete>>
      /\ \A g \in Files \ {f} : SameHistory(g) /\ SameReaders(g)
      /\ \A q \in Slots \ {p} : reader'[q][f] = reader[q][f]
      /\ AtWork(p, f)
      /\ \A q \in Slots, g \in Files : AtWork(q, g)' => AtWork(q, g)
  BY ReaderStepIs
<1>2. pass \in Slots
  BY DEF IInv, TypeOK
<1>3. StopInv'
  <2>1. \A g \in Files : AtWork(pass, g)' => AtWork(pass, g)
    BY <1>1, <1>2 DEF SamePass, AtWork
  <2> QED BY <1>1, <2>1, ReadersStop DEF CInv
<1>4. \A g \in Files \ {f} : CollectInv(g)'
  BY <1>1, <1>2, QuietCollects DEF CInv, SameReaders
<1>5. CollectInv(f)'
  <2>1. Consecutive(f)' /\ Promised(f, Len(file[f]))'
    BY <1>1 DEF CInv, CollectInv, Consecutive, Promised
  <2>2. Trusted(f)' /\ phase' # "done" => UpToDate(f)'
    BY <1>1 DEF CInv, CollectInv, SamePass
  <2>3. ASSUME Trusted(f)', ~rejected', stop' = "last", phase' \in {"collect", "close", "done"}
        PROVE  LastPass(f)'
    <3>1. /\ Trusted(f) /\ ~rejected /\ stop = "last" /\ phase \in {"collect", "close", "done"}
          /\ LastPass(f) /\ pass' = pass
      BY <1>1, <2>3 DEF CInv, CollectInv, SamePass
    <3>2. CASE p = pass
      <4>1. phase = "collect"
        BY <1>1, <3>1, <3>2 DEF CInv, StopInv
      <4>2. UpToDate(f)
        BY <3>1, <4>1 DEF CInv, CollectInv
      <4> QED BY <2>3, <3>1, <3>2, <4>1, <4>2
    <3>3. CASE p # pass
      <4>1. reader'[pass][f] = reader[pass][f]
        BY <1>1, <1>2, <3>3
      <4> QED BY <1>1, <3>1, <4>1 DEF LastPass, Promised
    <3> QED BY <3>2, <3>3
  <2> QED BY <2>1, <2>2, <2>3 DEF CollectInv
<1> QED BY <1>3, <1>4, <1>5 DEF CInv

LEMMA LeaveCollects ==
  ASSUME IInv, CInv, NEW p \in Slots, NEW f \in Files,
         Stat(p, f) \/ Missing(p, f) \/ Open(p, f) \/ Fails(p, f)
  PROVE  CInv'
<1>1. UNCHANGED <<file, offset, pending, out, behind, overlapped, complete, pass>>
  BY DEF Stat, Missing, Open, Fails, disk, state, poller, history
<1>2. ReaderStep(p, f) \/ Fails(p, f)
  BY DEF ReaderStep
<1>3. Trusted(f)' => Trusted(f)
  BY <1>1 DEF Trusted
<1>4. UpToDate(f) => UpToDate(f)'
  BY <1>1 DEF UpToDate, Written
<1>5. reader \in [Slots -> [Files -> [pc : ReaderPCs, size : Nat, at : Nat]]]
  BY DEF IInv, TypeOK
<1>6. ASSUME ~rejected', LastPass(f), p = pass
      PROVE  LastPass(f)'
  <2>1. CASE Stat(p, f)
    <3>1. reader'[p][f] = [pc |-> "sized", size |-> Len(file[f]), at |-> 0]
      BY <1>5, <2>1 DEF Stat
    <3>2. Promised(f, Len(file[f])) BY DEF CInv, CollectInv
    <3>3. Promised(f, Len(file[f]))' BY <1>1, <3>2 DEF Promised
    <3> QED BY <1>1, <1>6, <3>1, <3>3 DEF LastPass
  <2>2. CASE Missing(p, f)
    <3>1. reader'[p][f] = Idle
      BY <1>5, <2>2 DEF Missing, Return
    <3>2. complete[f] = {}
      BY <2>2, NothingPromised DEF Missing, CInv
    <3> QED BY <1>1, <1>6, <3>1, <3>2 DEF LastPass, Idle
  <2>3. CASE Open(p, f)
    <3>1. reader' = [reader EXCEPT ![p] = [@ EXCEPT ![f].pc = "read", ![f].at = offset[f]]]
      BY <1>6, <2>3 DEF Open, Throw
    <3>2. reader'[p][f].pc = "read" /\ reader'[p][f].size = reader[p][f].size
      BY <1>5, <3>1
    <3>3. reader[p][f].pc = "open" BY <2>3 DEF Open, At
    <3>4. Promised(f, reader[p][f].size) /\ (behind[f] = "cut" => complete[f] = {})
      BY <1>6, <3>3 DEF LastPass
    <3> QED BY <1>1, <1>6, <3>2, <3>4 DEF LastPass, Promised
  <2>4. CASE Fails(p, f)
    BY <1>6, <2>4 DEF Fails, Throw
  <2> QED BY <2>1, <2>2, <2>3, <2>4
<1> QED BY <1>1, <1>2, <1>3, <1>4, <1>6, ReaderCollects

LEMMA SizedCollects ==
  ASSUME IInv, CInv, NEW p \in Slots, NEW f \in Files, Sized(p, f)
  PROVE  CInv'
<1> DEFINE size == reader[p][f].size
<1>1. /\ UNCHANGED <<file, out, overlapped, complete, pass, phase, rejected>>
      /\ offset[f] \in Nat /\ pending[f] \in Seq(Cells) /\ size \in Nat
      /\ reader[p][f].pc = "sized"
  BY DEF Sized, At, disk, poller, IInv, TypeOK
<1>2. /\ size < offset[f]  => offset'[f] = 0 /\ pending'[f] = <<>>
      /\ ~(size < offset[f]) => offset'[f] = offset[f] /\ pending'[f] = pending[f]
  BY DEF Sized, Reset, state, IInv, TypeOK
<1>3. behind'[f] = IF behind[f] # "cut" THEN behind[f]
                   ELSE IF size < offset[f] \/ offset[f] = 0 THEN "no" ELSE "lost"
  BY DEF Sized, IInv, TypeOK
<1>4. IF size = offset'[f] THEN Return(p, f) ELSE Goto(p, f, "open")
  BY DEF Sized
<1>5. ReaderStep(p, f) \/ Fails(p, f)
  BY DEF ReaderStep
<1>6. Trusted(f)' => Trusted(f)
  BY <1>1, <1>3 DEF Trusted
<1>7. behind'[f] # "cut"
  BY <1>3
<1> HIDE DEF size
<1>8. ASSUME UpToDate(f), Trusted(f)'
      PROVE  UpToDate(f)'
  <2>1. CASE size < offset[f]
    <3>1. offset'[f] = 0 /\ pending'[f] = <<>> BY <1>2, <2>1
    <3>2. Len(file[f]) \in Nat BY DEF IInv, TypeOK
    <3>3. Written(f, offset[f])'
      <4>1. \A i \in DOMAIN file[f] : ~(i <= 0) BY DEF IInv, TypeOK
      <4> QED BY <1>1, <3>1, <4>1 DEF Written
    <3> QED BY <1>1, <3>1, <3>2, <3>3 DEF UpToDate
  <2>2. CASE ~(size < offset[f]) /\ behind[f] = "cut"
    <3>1. offset[f] = 0 /\ offset'[f] = 0 /\ pending'[f] = <<>>
      BY <1>2, <1>3, <1>8, <2>2 DEF Trusted, UpToDate
    <3>2. Len(file[f]) \in Nat BY DEF IInv, TypeOK
    <3>3. Written(f, offset[f])'
      <4>1. \A i \in DOMAIN file[f] : ~(i <= 0) BY DEF IInv, TypeOK
      <4> QED BY <1>1, <3>1, <4>1 DEF Written
    <3> QED BY <1>1, <3>1, <3>2, <3>3 DEF UpToDate
  <2>3. CASE ~(size < offset[f]) /\ behind[f] # "cut"
    <3>1. offset'[f] = offset[f] /\ pending'[f] = pending[f] /\ behind'[f] = behind[f]
      BY <1>2, <1>3, <2>3
    <3> QED BY <1>1, <1>8, <3>1 DEF UpToDate, Written
  <2> QED BY <2>1, <2>2, <2>3
<1>9. ASSUME Trusted(f)', ~rejected', LastPass(f), p = pass, UpToDate(f)
      PROVE  LastPass(f)'
  <2>1. Promised(f, size)
    BY <1>1, <1>9 DEF LastPass, size
  <2>2. CASE size = offset'[f]
    <3>1. reader'[p][f].pc = "none"
      BY <1>4, <2>2 DEF Return, Idle, IInv, TypeOK
    <3>2. UpToDate(f)' BY <1>8, <1>9
    <3>3. behind'[f] = "no"
      BY <1>7, <1>9 DEF Trusted, Sized, IInv, TypeOK
    <3>4. Written(f, offset[f])'
      BY <3>2, <3>3 DEF UpToDate
    <3>5. ASSUME NEW r \in complete[f] PROVE \E e \in out[f] : e.record = r
      <4>1. PICK i \in DOMAIN file[f] : i <= size /\ file[f][i] = 2 * r
        BY <2>1 DEF Promised
      <4>2. r \in Nat BY DEF IInv, TypeOK
      <4>3. file[f][i] % 2 = 0 BY <4>1, <4>2, Halves
      <4>4. PICK e \in out[f] : 2 * e.record = file[f][i]
        BY <1>1, <2>2, <3>4, <4>1, <4>3 DEF Written
      <4>5. e.record \in Nat BY DEF IInv, TypeOK
      <4> QED BY <4>1, <4>2, <4>4, <4>5
    <3> QED BY <1>1, <1>9, <3>1, <3>5 DEF LastPass
  <2>3. CASE size # offset'[f]
    <3>1. Goto(p, f, "open") BY <1>4, <2>3
    <3>2. reader'[p][f].pc = "open" /\ reader'[p][f].size = size
      BY <3>1 DEF Goto, IInv, TypeOK, size
    <3> QED BY <1>1, <1>7, <1>9, <2>1, <3>2 DEF LastPass, Promised
  <2> QED BY <2>2, <2>3
<1> QED BY <1>1, <1>5, <1>6, <1>7, <1>8, <1>9, ReaderCollects

\* What a read takes: the cells after the offset, as far as the file goes, up to
\* the size that was seen; and their lines are written before the streams close.
ReadOf(f, end, text, len) ==
  /\ len = IF offset[f] < end THEN end - offset[f] ELSE 0
  /\ Len(text) = Len(pending[f]) + len
  /\ \A i \in 1..Len(pending[f]) : text[i] = pending[f][i]
  /\ \A i \in Len(pending[f]) + 1..Len(text) :
       text[i] = file[f][offset[f] + (i - Len(pending[f]))]
  /\ offset'[f] = offset[f] + len /\ pending'[f] = Rest(text)
  /\ phase # "done" => out'[f] = out[f] \cup Events(text, nextSequenceNumber[f])

LEMMA ReadIs ==
  ASSUME IInv, NEW p \in Slots, NEW f \in Files, Read(p, f), ~overlapped[f], NEW end \in Nat,
         end = IF reader[p][f].size < Len(file[f]) THEN reader[p][f].size ELSE Len(file[f])
  PROVE  \E text \in Seq(Cells), len \in Nat : ReadOf(f, end, text, len)
<1>1. PICK s, rest, at : s = file[f] /\ rest = pending[f] /\ at = offset[f]
  OBVIOUS
<1>2. reader[p][f].at = at
  BY <1>1 DEF IInv, FileInv, ReadInOrder, Read, At
<1>3. at \in Nat /\ s \in Seq(Cells) /\ rest \in Seq(Cells) /\ end <= Len(s)
  BY <1>1 DEF IInv, TypeOK
<1>4. PICK data, text, len :
        data = SubSeq(s, at + 1, end) /\ text = rest \o data /\ len = Len(data)
  OBVIOUS
<1>5. /\ offset'[f] = at + len /\ pending'[f] = Rest(text)
      /\ phase # "done" => out'[f] = out[f] \cup Events(text, nextSequenceNumber[f])
  BY <1>1, <1>2, <1>4 DEF Read, IInv, TypeOK
<1>6. /\ data \in Seq(Cells) /\ len \in Nat
      /\ at < end => len = end - at
      /\ ~(at < end) => len = 0
      /\ \A i \in 1..len : at + i \in DOMAIN s /\ data[i] = s[at + i]
  BY ONLY <1>3, <1>4, SliceIs, end \in Nat
<1>7. /\ text \in Seq(Cells) /\ Len(text) = Len(rest) + len
      /\ \A i \in 1..Len(rest) : text[i] = rest[i]
      /\ \A i \in Len(rest) + 1..Len(text) :
           i - Len(rest) \in 1..len /\ text[i] = data[i - Len(rest)]
  BY ONLY <1>3, <1>4, <1>6, TextIs
<1>8. \A i \in Len(rest) + 1..Len(text) : text[i] = s[at + (i - Len(rest))]
  BY <1>6, <1>7
<1>9. len = IF at < end THEN end - at ELSE 0
  BY <1>6
<1>10. ReadOf(f, end, text, len)
  BY <1>1, <1>5, <1>7, <1>8, <1>9 DEF ReadOf
<1> QED BY <1>6, <1>7, <1>10

LEMMA ReadCollects ==
  ASSUME IInv, CInv, NEW p \in Slots, NEW f \in Files, Read(p, f)
  PROVE  CInv'
<1> DEFINE end == IF reader[p][f].size < Len(file[f]) THEN reader[p][f].size ELSE Len(file[f])
           seq == nextSequenceNumber[f]
<1>1. /\ UNCHANGED <<file, overlapped, complete, pass, phase>>
      /\ rejected => rejected'
      /\ offset[f] \in Nat /\ pending[f] \in Seq(Cells) /\ file[f] \in Seq(Cells)
      /\ Len(file[f]) \in Nat /\ DOMAIN file[f] = 1..Len(file[f])
      /\ reader[p][f].pc = "read" /\ reader[p][f].size \in Nat /\ seq \in Nat \ {0}
      /\ end \in Nat /\ end <= Len(file[f])
  BY DEF Read, Closed, Throw, At, disk, IInv, TypeOK
<1>2. /\ behind'[f] = behind[f] \/ (behind[f] = "cut" /\ behind'[f] = "lost")
      /\ out[f] \subseteq out'[f]
  BY DEF Read, IInv, TypeOK
<1>3. reader'[p][f].pc = "none"
  BY DEF Read, Closed, Throw, Return, Idle, IInv, TypeOK
<1>4. ReaderStep(p, f) \/ Fails(p, f)
  BY DEF ReaderStep
<1>5. Trusted(f)' => Trusted(f)
  BY <1>1, <1>2 DEF Trusted
<1>6. end = IF reader[p][f].size < Len(file[f]) THEN reader[p][f].size ELSE Len(file[f])
  OBVIOUS
<1> HIDE DEF end, seq
<1>7. ASSUME UpToDate(f), Trusted(f)', phase # "done"
      PROVE  UpToDate(f)' /\ (behind[f] = "no" => end <= offset'[f])
  <2>1. ~overlapped[f] BY <1>1, <1>7 DEF Trusted
  <2>1a. \E text \in Seq(Cells), len \in Nat : ReadOf(f, end, text, len)
    BY <1>1, <1>6, <2>1, ReadIs
  <2>1b. PICK text \in Seq(Cells), len \in Nat : ReadOf(f, end, text, len)
    BY <2>1a
  <2>2. /\ len = IF offset[f] < end THEN end - offset[f] ELSE 0
        /\ Len(text) = Len(pending[f]) + len
        /\ \A i \in 1..Len(pending[f]) : text[i] = pending[f][i]
        /\ \A i \in Len(pending[f]) + 1..Len(text) :
             text[i] = file[f][offset[f] + (i - Len(pending[f]))]
        /\ offset'[f] = offset[f] + len /\ pending'[f] = Rest(text)
        /\ phase # "done" => out'[f] = out[f] \cup Events(text, seq)
    BY <2>1b DEF ReadOf, seq
  <2>3. offset'[f] = 0 => pending'[f] = <<>>
    <3> HAVE offset'[f] = 0
    <3>1. offset[f] = 0 /\ len = 0 BY <1>1, <2>2
    <3>2. Len(text) = 0 BY <1>7, <2>2, <3>1 DEF UpToDate
    <3>3. Rest(text) \in Seq(Cells) /\ \A i \in DOMAIN Rest(text) : LastEnd(text) + i \in DOMAIN text
      BY RestIs
    <3>4. DOMAIN text = {} BY <3>2
    <3>5. DOMAIN Rest(text) = {} BY <3>3, <3>4
    <3> QED BY <2>2, <3>3, <3>5
  <2>4. ASSUME behind[f] = "no"
        PROVE  /\ end <= offset'[f]
               /\ offset'[f] <= Len(file[f]) /\ Written(f, offset[f])'
               /\ \E h \in 0..offset'[f] :
                    \/ offset'[f] = 2 * h     /\ pending'[f] = <<>>
                    \/ offset'[f] = 2 * h + 1 /\ pending'[f] = <<file[f][offset'[f]]>>
    <3>1. PICK h \in 0..offset[f] :
             \/ offset[f] = 2 * h     /\ pending[f] = <<>>
             \/ offset[f] = 2 * h + 1 /\ pending[f] = <<file[f][offset[f]]>>
      BY <1>7, <2>4 DEF UpToDate
    <3>2. PICK b \in 0..produced[f] : /\ produced[f] = 2 * b + Len(file[f])
                                      /\ \A i \in DOMAIN file[f] : file[f][i] = 2 * b + i
      BY DEF CInv, CollectInv, Consecutive
    <3>3. /\ h \in Nat /\ b \in Nat /\ offset[f] <= Len(file[f])
          /\ Written(f, offset[f])
      BY <1>1, <1>7, <2>4, <3>1, <3>2 DEF UpToDate, IInv, TypeOK
    <3> DEFINE o == offset[f]
               q == offset'[f]
               m == Len(file[f])
    <3>4. /\ o \in Nat /\ q \in Nat /\ m \in Nat /\ end \in Nat /\ len \in Nat
          /\ o <= m /\ end <= m /\ q = o + len
          /\ len = IF o < end THEN end - o ELSE 0
      BY <1>1, <2>2, <3>3
    <3> HIDE DEF o, q, m
    <3>5. end <= q /\ q <= m /\ o <= q
      BY <3>4
    <3>6. Len(text) = q - 2 * h /\ Len(text) \in Nat /\ DOMAIN text = 1..Len(text)
      <4>1. CASE offset[f] = 2 * h /\ pending[f] = <<>>
        BY <2>2, <3>4, <4>1 DEF o, q
      <4>2. CASE offset[f] = 2 * h + 1 /\ pending[f] = <<file[f][offset[f]]>>
        <5>1. Len(pending[f]) = 1 BY <4>2
        <5> DEFINE x == Len(text)
        <5>2. DOMAIN text = 1..x OBVIOUS
        <5>3. x = 1 + len BY <2>2, <5>1
        <5>4. o = 2 * h + 1 BY <4>2 DEF o
        <5>5. q = o + len /\ len \in Nat /\ h \in Nat BY <3>3, <3>4
        <5> HIDE DEF x
        <5>6. x = q - 2 * h /\ x \in Nat BY <5>3, <5>4, <5>5
        <5> QED BY <5>2, <5>6 DEF x
      <4> QED BY <3>1, <4>1, <4>2
    <3>7. ASSUME NEW i \in DOMAIN text PROVE text[i] = 2 * (b + h) + i /\ text[i] = file[f][2 * h + i]
      <4>0. i \in Nat /\ i >= 1 /\ 2 * h + i <= m /\ 2 * h + i >= 1
        BY <3>3, <3>4, <3>5, <3>6, <3>7
      <4>1. 2 * h + i \in DOMAIN file[f]
        BY <1>1, <3>3, <4>0 DEF m
      <4>2. file[f][2 * h + i] = 2 * b + (2 * h + i)
        BY <3>2, <4>1
      <4>3. text[i] = file[f][2 * h + i]
        <5>1. CASE offset[f] = 2 * h /\ pending[f] = <<>>
          <6>1. Len(pending[f]) = 0 BY <5>1
          <6>2. i \in 1..Len(text) /\ i - 0 = i BY <3>6, <4>0
          <6> QED BY <2>2, <4>0, <5>1, <6>1, <6>2
        <5>2. CASE offset[f] = 2 * h + 1 /\ pending[f] = <<file[f][offset[f]]>>
          <6>1. Len(pending[f]) = 1 /\ pending[f][1] = file[f][2 * h + 1] BY <5>2
          <6>2. CASE i = 1 BY <2>2, <6>1, <6>2
          <6>3. CASE i # 1
            <7>1. i \in 2..Len(text) /\ 2 * h + 1 + (i - 1) = 2 * h + i
              BY <3>3, <3>6, <4>0, <6>3
            <7>2. \A j \in 2..Len(text) : text[j] = file[f][2 * h + 1 + (j - 1)]
              BY <2>2, <5>2, <6>1
            <7> QED BY <7>1, <7>2
          <6> QED BY <6>2, <6>3
        <5> QED BY <3>1, <5>1, <5>2
      <4> QED BY <3>3, <4>0, <4>2, <4>3
    <3>8. /\ \A i \in DOMAIN text :
               text[i] % 2 = 0 => \E c \in Events(text, seq) : 2 * c.record = text[i]
          /\ \E k \in 0..Len(text) :
               \/ Len(text) = 2 * k     /\ Rest(text) = <<>>
               \/ Len(text) = 2 * k + 1 /\ Rest(text) = <<text[Len(text)]>>
      <4>1. b + h \in Nat BY <3>3
      <4> QED BY <1>1, <3>7, <4>1, ConsecutiveText
    <3>9. Written(f, offset[f])'
      <4> SUFFICES ASSUME NEW i \in DOMAIN file[f], i <= q, file[f][i] % 2 = 0
                   PROVE  \E c \in out'[f] : 2 * c.record = file[f][i]
        BY <1>1 DEF Written, q
      <4>1. CASE i <= o
        BY <1>2, <3>3, <4>1 DEF Written, o
      <4>2. CASE ~(i <= o)
        <5>1. 2 * h <= o BY <3>1, <3>3 DEF o
        <5>2. i - 2 * h \in DOMAIN text /\ 2 * h + (i - 2 * h) = i
          <6>1. i \in Nat /\ i >= 1 BY <1>1
          <6> QED BY <3>3, <3>4, <3>6, <4>2, <5>1, <6>1
        <5>3. text[i - 2 * h] = file[f][i] BY <3>7, <5>2
        <5>4. PICK c \in Events(text, seq) : 2 * c.record = file[f][i]
          BY <3>8, <5>2, <5>3
        <5>5. c \in out'[f] BY <1>7, <2>2, <5>4
        <5> QED BY <5>4, <5>5
      <4> QED BY <4>1, <4>2
    <3>10. \E g \in 0..q : \/ q = 2 * g     /\ pending'[f] = <<>>
                           \/ q = 2 * g + 1 /\ pending'[f] = <<file[f][q]>>
      <4>1. PICK k \in 0..Len(text) :
               \/ Len(text) = 2 * k     /\ Rest(text) = <<>>
               \/ Len(text) = 2 * k + 1 /\ Rest(text) = <<text[Len(text)]>>
        BY <3>8
      <4>2. k \in Nat BY <3>6, <4>1
      <4>3. CASE Len(text) = 2 * k /\ Rest(text) = <<>>
        <5>1. q = 2 * (h + k) /\ h + k \in 0..q
          <6>1. q - 2 * h = 2 * k BY <3>6, <4>3
          <6>2. q \in Nat /\ h \in Nat /\ k \in Nat BY <3>3, <3>4, <4>2
          <6> HIDE DEF q
          <6> QED BY <6>1, <6>2, Halved
        <5> QED BY <2>2, <4>3, <5>1
      <4>4. CASE Len(text) = 2 * k + 1 /\ Rest(text) = <<text[Len(text)]>>
        <5>1. q = 2 * (h + k) + 1 /\ h + k \in 0..q
          <6>1. q - 2 * h = 2 * k + 1 BY <3>6, <4>4
          <6>2. q \in Nat /\ h \in Nat /\ k \in Nat BY <3>3, <3>4, <4>2
          <6> HIDE DEF q
          <6> QED BY <6>1, <6>2, Halved
        <5>2. Len(text) \in DOMAIN text /\ 2 * h + Len(text) = q
          BY <3>3, <3>4, <3>6, <4>2, <4>4
        <5>3. text[Len(text)] = file[f][q] BY <3>7, <5>2
        <5> QED BY <2>2, <4>4, <5>1, <5>3
      <4> QED BY <4>1, <4>3, <4>4
    <3> QED BY <3>5, <3>9, <3>10 DEF q, m
  <2>5. behind'[f] = "no" => behind[f] = "no" BY <1>2
  <2> QED BY <1>1, <2>3, <2>4, <2>5 DEF UpToDate
<1>8. ASSUME Trusted(f)', phase = "collect", LastPass(f), p = pass, UpToDate(f)
      PROVE  LastPass(f)'
  <2>1. Promised(f, reader[p][f].size) /\ (behind[f] = "cut" => complete[f] = {})
    BY <1>1, <1>8 DEF LastPass
  <2>2. ASSUME NEW r \in complete[f] PROVE \E c \in out'[f] : c.record = r
    <3>1. behind[f] = "no" /\ behind'[f] = "no"
      BY <1>2, <1>8, <2>1 DEF Trusted, IInv, TypeOK
    <3>2. UpToDate(f)' /\ end <= offset'[f] BY <1>7, <1>8, <3>1
    <3>3. Written(f, offset[f])' /\ offset'[f] \in Nat
      <4>1. IInv' BY ReadKeeps
      <4>2. offset'[f] \in Nat BY <4>1 DEF IInv, TypeOK
      <4> QED BY <3>1, <3>2, <4>2 DEF UpToDate
    <3>4. PICK i \in DOMAIN file[f] : i <= reader[p][f].size /\ file[f][i] = 2 * r
      BY <2>1 DEF Promised
    <3>5. i <= offset'[f]
      BY <1>1, <1>6, <3>2, <3>3, <3>4
    <3>6. r \in Nat BY DEF IInv, TypeOK
    <3>7. file[f][i] % 2 = 0 BY <3>4, <3>6, Halves
    <3>8. PICK c \in out'[f] : 2 * c.record = file[f][i]
      BY <1>1, <3>3, <3>4, <3>5, <3>7 DEF Written
    <3>9. IInv' BY ReadKeeps
    <3>10. c.record \in Nat BY <3>9 DEF IInv, TypeOK
    <3> QED BY <3>4, <3>6, <3>8, <3>10
  <2> QED BY <1>1, <1>3, <1>8, <2>2 DEF LastPass
<1> QED BY <1>1, <1>2, <1>4, <1>5, <1>7, <1>8, ReaderCollects

LEMMA NextCollects == IInv /\ CInv /\ [Next]_vars => CInv'
<1> SUFFICES ASSUME IInv, CInv, [Next]_vars PROVE CInv'
  OBVIOUS
<1>1. CASE UNCHANGED vars
  <2>1. /\ \A f \in Files : SameHistory(f) /\ reader'[pass][f] = reader[pass][f]
        /\ SamePass /\ UNCHANGED <<reader, pass>>
    BY <1>1 DEF vars, disk, state, poller, history, SameHistory, Same, SamePass
  <2>2. StopInv'
    BY <2>1, ReadersStop DEF CInv, AtWork
  <2> QED BY <2>1, <2>2, QuietCollects DEF CInv
<1>2. CASE \E f \in Files : Produce(f) \/ Truncate(f)
  BY <1>2, ProduceCollects, TruncateCollects
<1>3. CASE Find
  BY <1>3, FindCollects
<1>4. CASE FindFails \/ Settle \/ Wake \/ StopAsync \/ Close
  BY <1>4, ControlCollects
<1>5. ASSUME NEW p \in Slots, NEW f \in Files, ReaderStep(p, f) \/ Fails(p, f)
      PROVE  CInv'
  BY <1>5, LeaveCollects, SizedCollects, ReadCollects DEF ReaderStep
<1> QED BY <1>1, <1>2, <1>3, <1>4, <1>5 DEF Next

\* deviceRunSessionEvents.ts 282-298: whatever passes failed before,
\* once stopAsync is over each record that was complete when it was called has
\* been written, unless its own pass failed, two readers of the file overlapped
\* or a truncation could not be noticed.
THEOREM CompletesWhenStopped == Spec => []CompleteWhenStopped
<1>1. Init => IInv /\ CInv
  BY InitIInv, InitCollects
<1>2. IInv /\ CInv /\ [Next]_vars => (IInv /\ CInv)'
  BY NextKeeps, NextCollects
<1>3. IInv /\ CInv => CompleteWhenStopped
  <2> SUFFICES ASSUME IInv, CInv, phase = "done", NEW f \in Files,
                      ~rejected, ~overlapped[f], behind[f] # "lost", NEW r \in complete[f]
               PROVE  r \in {e.record : e \in out[f]}
    BY DEF CompleteWhenStopped
  <2>1. stop = "last" /\ reader[pass][f].pc = "none"
    BY DEF CInv, StopInv, AtWork
  <2>2. LastPass(f)
    BY <2>1 DEF CInv, CollectInv, Trusted
  <2> QED BY <2>1, <2>2 DEF LastPass
<1> QED BY <1>1, <1>2, <1>3, PTL DEF Spec

-----------------------------------------------------------------------------
(* Sessions.                                                               *)

Startable == Resources \cup {"ready", "config", "install"}
Elems(s)  == {s[i] : i \in 1..Len(s)}
Once(s)   == \A i, j \in 1..Len(s) : s[i] = "poll" /\ s[j] = "poll" => i = j

\* What the finally knows of, and the poller that agent-device never stops.
Kept      == IF kind = "agentDevice" THEN {"poll"} ELSE {}
Stoppable == Elems(Finally[kind]) \cup Kept

\* What every session holds when its try begins.
Base == IF kind = "serveSim" THEN "preview" ELSE "producer"

\* Appium's start, one thing after the other.
AppiumStarts ==
  \/ todo = <<"home", "install", "producer", "ready", "events">> /\ held = {}
  \/ todo = <<"install", "producer", "ready", "events">> /\ held = {"home"}
  \/ todo = <<"producer", "ready", "events">> /\ held = {"home"}
  \/ todo = <<"ready", "events">> /\ held = {"home", "producer"}
  \/ todo = <<"events">> /\ held = {"home", "producer"}

Course ==
  /\ Startup => /\ todo # <<>> /\ how = "none" /\ Once(todo)
                /\ Elems(todo) \cap Resources \subseteq Stoppable
  /\ pc # "over" => held \subseteq Stoppable
  /\ pc = "unguarded" => /\ Base \in held \cup Elems(todo)
                         /\ kind = "appium" => AppiumStarts
                         /\ kind = "agentDevice" => "poll" \notin Elems(todo)
                         /\ kind \in {"appium", "argent"} => "events" \in held \cup Elems(todo)
  /\ pc = "guarded" /\ kind # "serveSim" => "events" \in held \cup Elems(todo)
  /\ pc = "guarded" \/ Waiting => Base \in held
  /\ Waiting /\ kind # "serveSim" => "events" \in held
  /\ pc \in {"query", "sleep"} => how = "none"
  /\ pc = "ensure" => how = "idle"
  /\ pc = "finally" => ToStop(held) # {} /\ how \notin {"unguarded", "cleanUp"}

\* Nothing that the finally knows of is held any more, but what comes after
\* directories of Appium that did not go, and they.
AllStopped ==
  pc = "over" =>
    /\ how \notin {"unguarded", "cleanUp"} => held \subseteq Kept
    /\ how = "cleanUp" => held \subseteq {"producer", "home"}
    /\ how = "unguarded" /\ kind = "appium" /\ Head(todo) = "ready" => held \subseteq {"home"}

\* The last activity that the wait knows of is not older than the last event, unless
\* one is unseen.
Observed ==
  /\ unseen = 0 => age <= quiet
  /\ idleTimeout => kind # "serveSim"
  /\ "events" \in held /\ (Startup \/ Waiting) => collector # "off"

\* The poller starts once, and comes to its end once told to.
Handover ==
  /\ Startup /\ "poll" \in Elems(todo) => poll = "off"
  /\ pc = "unguarded" /\ kind = "agentDevice" => poll = "off"
  /\ attached => pc \in {"finally", "over"}
  /\ poll \in {"drain", "settle"} => kind = "argent"
  /\ kind = "argent" /\ poll \in {"drain", "settle", "resolved"}
       => attached \/ step = "timedOut"
  /\ crashed => step = "timedOut"
  /\ \A a \in due : art[a] # "absent"
  /\ kind = "argent" /\ poll \in {"settle", "resolved"} /\ ~unlisted /\ step # "timedOut"
       => \A a \in due : art[a] \in {"uploaded", "failed"} \/ (art[a] = "uploading" /\ poll = "settle")

SessionInv == SessionTypeOK /\ Course /\ AllStopped /\ Observed /\ Handover

-----------------------------------------------------------------------------
(* The four functions' tables.                                             *)

LEMMA ElemsParts ==
  ASSUME NEW s \in Seq(Startable), s # <<>>
  PROVE  /\ Head(s) \in Startable /\ Tail(s) \in Seq(Startable)
         /\ Elems(s) = {Head(s)} \cup Elems(Tail(s))
         /\ Once(s) => Once(Tail(s)) /\ (Head(s) = "poll" => "poll" \notin Elems(Tail(s)))
         /\ Tail(s) = <<>> => Elems(Tail(s)) = {}
<1> DEFINE t == Tail(s)
<1>1. /\ Head(s) \in Startable /\ t \in Seq(Startable) /\ Head(s) = s[1]
      /\ Len(s) \in Nat \ {0} /\ Len(t) = Len(s) - 1
      /\ \A i \in 1..Len(t) : t[i] = s[i + 1]
  OBVIOUS
<1> HIDE DEF t
<1>2. /\ 1 \in 1..Len(s) /\ \A i \in 1..Len(t) : i + 1 \in 1..Len(s) /\ i + 1 # 1
      /\ \A j \in 1..Len(s) : j = 1 \/ (j - 1 \in 1..Len(t) /\ (j - 1) + 1 = j)
  BY <1>1
<1>3. Elems(s) = {s[1]} \cup Elems(t)
  <2>1. ASSUME NEW x \in Elems(s) PROVE x \in {s[1]} \cup Elems(t)
    <3>1. PICK j \in 1..Len(s) : x = s[j]  BY DEF Elems
    <3>2. j = 1 \/ (j - 1 \in 1..Len(t) /\ t[j - 1] = s[j])  BY <1>1, <1>2
    <3> QED  BY <3>1, <3>2 DEF Elems
  <2>2. ASSUME NEW x \in {s[1]} \cup Elems(t) PROVE x \in Elems(s)
    BY <1>1, <1>2, <2>2 DEF Elems
  <2> QED  BY <2>1, <2>2
<1>4. ASSUME Once(s) PROVE Once(t)
  <2> SUFFICES ASSUME NEW i \in 1..Len(t), NEW j \in 1..Len(t), t[i] = "poll", t[j] = "poll"
               PROVE  i = j
    BY DEF Once
  <2>1. i + 1 = j + 1  BY <1>1, <1>2, <1>4 DEF Once
  <2> QED  BY <2>1
<1>5. ASSUME Once(s), Head(s) = "poll" PROVE "poll" \notin Elems(t)
  BY <1>1, <1>2, <1>5 DEF Once, Elems
<1>6. Elems(<<>>) = {}  BY DEF Elems
<1> QED  BY <1>1, <1>3, <1>4, <1>5, <1>6 DEF t

LEMMA FinallyIs ==
  ASSUME kind \in AllKinds
  PROVE  /\ Finally[kind] \in Seq(Resources)
         /\ DOMAIN Finally[kind] = 1..Len(Finally[kind])
         /\ Len(Finally[kind]) \in 1..5
         /\ "poll" \in Elems(Finally[kind]) => kind = "argent"
         /\ Base \in Elems(Finally[kind])
         /\ kind # "serveSim" => {"events", "producer"} \subseteq Elems(Finally[kind])
         /\ kind \in {"agentDevice", "argent", "appium"} => {"tunnel", "preview"} \subseteq Elems(Finally[kind])
         /\ kind = "appium" => "home" \in Elems(Finally[kind])
         /\ kind = "serveSim" => "preview" \in Elems(Finally[kind])
         /\ kind = "argent" => "poll" \in Elems(Finally[kind])
<1>1. CASE kind = "agentDevice"
  <2>1. Finally[kind] = <<"preview", "tunnel", "events", "producer">>  BY <1>1 DEF Finally
  <2> QED  BY <1>1, <2>1 DEF Elems, Resources, Base
<1>2. CASE kind = "argent"
  <2>1. Finally[kind] = <<"preview", "tunnel", "events", "poll", "producer">>
    BY <1>2 DEF Finally
  <2> QED  BY <1>2, <2>1 DEF Elems, Resources, Base
<1>3. CASE kind = "appium"
  <2>1. Finally[kind] = <<"preview", "tunnel", "events", "producer", "home">>
    BY <1>3 DEF Finally
  <2> QED  BY <1>3, <2>1 DEF Elems, Resources, Base
<1>4. CASE kind = "serveSim"
  <2>1. Finally[kind] = <<"preview">>  BY <1>4 DEF Finally
  <2> QED  BY <1>4, <2>1 DEF Elems, Resources, Base
<1> QED  BY <1>1, <1>2, <1>3, <1>4 DEF AllKinds

LEMMA StoppableIs ==
  ASSUME kind \in AllKinds
  PROVE  /\ kind = "agentDevice" => {"preview", "tunnel", "events", "producer", "poll"} \subseteq Stoppable
         /\ kind = "argent" => {"preview", "tunnel", "events", "poll", "producer"} \subseteq Stoppable
         /\ kind = "appium" => {"preview", "tunnel", "events", "producer", "home"} \subseteq Stoppable
         /\ kind = "serveSim" => {"preview"} \subseteq Stoppable
BY FinallyIs DEF Stoppable, Kept

LEMMA UnguardedIs ==
  ASSUME kind \in AllKinds
  PROVE  LET s == Unguarded[kind] IN
         /\ s \in Seq(Startable) /\ s # <<>> /\ Once(s)
         /\ Elems(s) \cap Resources \subseteq Stoppable
         /\ Base \in Elems(s)
         /\ kind = "appium" => s = <<"home", "install", "producer", "ready", "events">>
         /\ kind \in {"appium", "argent"} => "events" \in Elems(s)
         /\ "poll" \in Elems(s) => kind = "argent"
<1>1. CASE kind = "agentDevice"
  <2>1. Unguarded[kind] = <<"producer", "ready", "tunnel">>  BY <1>1 DEF Unguarded
  <2> QED  BY <1>1, <2>1, StoppableIs DEF Elems, Once, Resources, Startable, Base
<1>2. CASE kind = "argent"
  <2>1. Unguarded[kind] = <<"producer", "ready", "poll", "events">>  BY <1>2 DEF Unguarded
  <2> QED  BY <1>2, <2>1, StoppableIs DEF Elems, Once, Resources, Startable, Base
<1>3. CASE kind = "appium"
  <2>1. Unguarded[kind] = <<"home", "install", "producer", "ready", "events">>
    BY <1>3 DEF Unguarded
  <2> QED  BY <1>3, <2>1, StoppableIs DEF Elems, Once, Resources, Startable, Base
<1>4. CASE kind = "serveSim"
  <2>1. Unguarded[kind] = <<"preview">>  BY <1>4 DEF Unguarded
  <2> QED  BY <1>4, <2>1, StoppableIs DEF Elems, Once, Resources, Startable, Base
<1> QED  BY <1>1, <1>2, <1>3, <1>4 DEF AllKinds

\* Two sequences on end, of which at most the second has a poller to start.
LEMMA ConcatIs ==
  ASSUME NEW p \in Seq(Startable), NEW x \in Seq(Startable), "poll" \notin Elems(p)
  PROVE  /\ p \o x \in Seq(Startable) /\ Elems(p \o x) = Elems(p) \cup Elems(x)
         /\ x # <<>> => p \o x # <<>>
         /\ Once(x) => Once(p \o x)
<1> DEFINE s == p \o x
<1>1. /\ s \in Seq(Startable) /\ Len(p) \in Nat /\ Len(x) \in Nat /\ Len(s) = Len(p) + Len(x)
      /\ \A i \in 1..Len(p) : s[i] = p[i]
      /\ \A i \in 1..Len(x) : s[i + Len(p)] = x[i]
      /\ x # <<>> => Len(x) > 0
  OBVIOUS
<1> HIDE DEF s
<1>2. \A j \in 1..Len(s) : /\ j \in 1..Len(p) \/ j - Len(p) \in 1..Len(x)
                           /\ (j - Len(p)) + Len(p) = j
  BY <1>1
<1>3. /\ \A i \in 1..Len(p) : i \in 1..Len(s)
      /\ \A i \in 1..Len(x) : i + Len(p) \in 1..Len(s)
  BY <1>1
<1>4. Elems(s) = Elems(p) \cup Elems(x)
  <2>1. ASSUME NEW e \in Elems(s) PROVE e \in Elems(p) \cup Elems(x)
    <3>1. PICK j \in 1..Len(s) : e = s[j]  BY DEF Elems
    <3>2. CASE j \in 1..Len(p)  BY <1>1, <3>1, <3>2 DEF Elems
    <3>3. CASE j - Len(p) \in 1..Len(x)
      <4>1. e = x[j - Len(p)]  BY <1>1, <1>2, <3>1, <3>3
      <4> QED  BY <3>3, <4>1 DEF Elems
    <3> QED  BY <1>2, <3>2, <3>3
  <2>2. ASSUME NEW e \in Elems(p) \cup Elems(x) PROVE e \in Elems(s)
    <3>1. CASE e \in Elems(p)  BY <1>1, <1>3, <3>1 DEF Elems
    <3>2. CASE e \in Elems(x)
      <4>1. PICK i \in 1..Len(x) : e = x[i]  BY <3>2 DEF Elems
      <4> QED  BY <1>1, <1>3, <4>1 DEF Elems
    <3> QED  BY <2>2, <3>1, <3>2
  <2> QED  BY <2>1, <2>2
<1>5. x # <<>> => s # <<>>
  <2>1. Len(<<>>) = 0  OBVIOUS
  <2> QED  BY <1>1, <2>1
<1>6. ASSUME Once(x) PROVE Once(s)
  <2> SUFFICES ASSUME NEW i \in 1..Len(s), NEW j \in 1..Len(s), s[i] = "poll", s[j] = "poll"
               PROVE  i = j
    BY DEF Once
  <2>1. i - Len(p) \in 1..Len(x) /\ j - Len(p) \in 1..Len(x)
    BY <1>1, <1>2 DEF Elems
  <2>2. x[i - Len(p)] = "poll" /\ x[j - Len(p)] = "poll"
    BY <1>1, <1>2, <2>1
  <2>3. i - Len(p) = j - Len(p)  BY <1>6, <2>1, <2>2 DEF Once
  <2> QED  BY <1>1, <2>3
<1> QED  BY <1>1, <1>4, <1>5, <1>6 DEF s

LEMMA GuardedIs ==
  ASSUME kind \in AllKinds, NEW preview \in {<<>>, <<"preview">>}
  PROVE  LET s == Guarded(preview)[kind] IN
         /\ s \in Seq(Startable) /\ s # <<>> /\ Once(s)
         /\ Elems(s) \cap Resources \subseteq Stoppable
         /\ kind = "agentDevice" => "events" \in Elems(s)
         /\ "poll" \in Elems(s) => kind = "agentDevice"
<1>1. preview \in Seq(Startable) /\ Elems(preview) \subseteq {"preview"}
  <2>1. CASE preview = <<>>
    <3>1. preview \in Seq(Startable)  BY <2>1
    <3>2. Elems(preview) = {}  BY <2>1 DEF Elems
    <3> QED  BY <3>1, <3>2
  <2>2. CASE preview = <<"preview">>  BY <2>2 DEF Elems, Startable, Resources
  <2> QED  BY <2>1, <2>2
<1>2. CASE kind = "agentDevice"
  <2> DEFINE x == <<"config", "poll", "events">>
  <2>0. x \in Seq(Startable) /\ x # <<>>  BY DEF Startable, Resources
  <2>1. Once(x)  BY DEF Once
  <2>4. Elems(x) = {"config", "poll", "events"}  BY DEF Elems
  <2>2. Guarded(preview)[kind] = preview \o x  BY <1>2 DEF Guarded
  <2> HIDE DEF x
  <2>3. /\ preview \o x \in Seq(Startable) /\ Elems(preview \o x) = Elems(preview) \cup Elems(x)
        /\ preview \o x # <<>> /\ Once(preview \o x)
    BY <1>1, <2>0, <2>1, ConcatIs
  <2>5. Elems(preview \o x) \cap Resources \subseteq {"preview", "poll", "events"}
    BY <1>1, <2>3, <2>4 DEF Resources
  <2> QED  BY <1>2, <2>2, <2>3, <2>4, <2>5, StoppableIs
<1>3. CASE kind \in {"argent", "appium"}
  <2> DEFINE x == <<"tunnel">>
             y == <<"config">>
             z == x \o preview
  <2>1. /\ x \in Seq(Startable) /\ Elems(x) = {"tunnel"}
        /\ y \in Seq(Startable) /\ Elems(y) = {"config"} /\ y # <<>> /\ Once(y)
    BY DEF Elems, Once, Startable, Resources
  <2>2. Guarded(preview)[kind] = z \o y  BY <1>3 DEF Guarded
  <2> HIDE DEF x, y
  <2>3. z \in Seq(Startable) /\ Elems(z) = Elems(x) \cup Elems(preview)
    BY <1>1, <2>1, ConcatIs
  <2> HIDE DEF z
  <2>4. "poll" \notin Elems(z)  BY <1>1, <2>1, <2>3
  <2>5. /\ z \o y \in Seq(Startable) /\ Elems(z \o y) = Elems(z) \cup Elems(y)
        /\ z \o y # <<>> /\ Once(z \o y)
    BY <2>1, <2>3, <2>4, ConcatIs
  <2>6. Elems(z \o y) \subseteq {"tunnel", "preview", "config"}
    BY <1>1, <2>1, <2>3, <2>5
  <2>7. /\ Elems(z \o y) \cap Resources \subseteq {"tunnel", "preview"}
        /\ "poll" \notin Elems(z \o y)
    BY <2>6 DEF Resources
  <2> QED  BY <1>3, <2>2, <2>5, <2>7, StoppableIs
<1>4. CASE kind = "serveSim"
  <2>1. Guarded(preview)[kind] = <<"config">>  BY <1>4 DEF Guarded
  <2> QED  BY <1>4, <2>1, StoppableIs DEF Elems, Once, Resources, Startable
<1> QED  BY <1>2, <1>3, <1>4 DEF AllKinds

\* While the finally has something to stop, the first of it is held and known.
LEMMA FirstIs ==
  ASSUME kind \in AllKinds, NEW h
  PROVE  /\ ToStop(h) # {} => First(h) \in h /\ First(h) \in Elems(Finally[kind])
         /\ ToStop(h) = {} => h \cap Elems(Finally[kind]) = {}
         /\ \A r \in h : r \in Elems(Finally[kind]) => ToStop(h) # {}
<1>1. ToStop(h) \subseteq 1..5  BY FinallyIs DEF ToStop
<1>2. ASSUME ToStop(h) # {} PROVE \E k \in ToStop(h) : \A j \in ToStop(h) : k <= j
  <2>1. CASE 1 \in ToStop(h)  BY <1>1, <2>1
  <2>2. CASE 1 \notin ToStop(h) /\ 2 \in ToStop(h)  BY <1>1, <2>2
  <2>3. CASE 1 \notin ToStop(h) /\ 2 \notin ToStop(h) /\ 3 \in ToStop(h)  BY <1>1, <2>3
  <2>4. CASE /\ 1 \notin ToStop(h) /\ 2 \notin ToStop(h) /\ 3 \notin ToStop(h)
             /\ 4 \in ToStop(h)
    BY <1>1, <2>4
  <2>5. CASE /\ 1 \notin ToStop(h) /\ 2 \notin ToStop(h) /\ 3 \notin ToStop(h)
             /\ 4 \notin ToStop(h)
    BY <1>1, <1>2, <2>5
  <2> QED  BY <2>1, <2>2, <2>3, <2>4, <2>5
<1>3. ASSUME ToStop(h) # {} PROVE First(h) \in h /\ First(h) \in Elems(Finally[kind])
  <2> DEFINE k == CHOOSE k \in ToStop(h) : \A j \in ToStop(h) : k <= j
  <2>1. k \in ToStop(h)  BY <1>2, <1>3
  <2>2. First(h) = Finally[kind][k]  BY DEF First
  <2> HIDE DEF k
  <2> QED  BY <2>1, <2>2, FinallyIs DEF ToStop, Elems
<1>4. \A r \in h : r \in Elems(Finally[kind]) => ToStop(h) # {}
  BY FinallyIs DEF ToStop, Elems
<1> QED  BY <1>3, <1>4

-----------------------------------------------------------------------------
(* Steps that leave the poller to itself, or start it.                      *)

\* Until the finally the poller has not been told to stop, so that nothing is
\* known of what is due but that it was offered.
LEMMA HandoverAhead ==
  ASSUME SessionInv, Startup \/ Waiting, UNCHANGED <<kind, art, crashed, unlisted, attached>>,
         step = "timedOut" => step' = "timedOut",
         \/ poll' = poll \/ poll' = "list"
         \/ poll' = "drain" /\ kind = "argent" /\ step = "timedOut",
         \A a \in due' : art[a] # "absent",
         Startup' /\ "poll" \in Elems(todo') => poll' = "off",
         pc' = "unguarded" /\ kind = "agentDevice" => poll' = "off"
  PROVE  Handover'
<1>1. attached = FALSE  BY DEF SessionInv, Handover, Startup, Waiting, SessionTypeOK
<1>2. step' # "timedOut" => ~(kind = "argent" /\ poll' \in {"drain", "settle", "resolved"})
  BY <1>1 DEF SessionInv, Handover
<1>3. poll' \in {"drain", "settle"} => kind = "argent"  BY DEF SessionInv, Handover
<1>4. crashed => step' = "timedOut"  BY DEF SessionInv, Handover
<1> QED  BY <1>1, <1>2, <1>3, <1>4 DEF Handover

\* In the finally the poller may be told.
LEMMA HandoverFinally ==
  ASSUME SessionInv, pc = "finally", pc' \in {"finally", "over"},
         UNCHANGED <<kind, poll, art, crashed, unlisted, due>>, attached => attached',
         step' = "timedOut" <=> step = "timedOut"
  PROVE  Handover'
BY DEF SessionInv, Handover, Startup

\* What is started is something that the finally knows of.
LEMMA SessionStarted ==
  ASSUME SessionInv, Startup
  PROVE  /\ Head(todo) \in Startable /\ Tail(todo) \in Seq(Startable)
         /\ Elems(todo) = {Head(todo)} \cup Elems(Tail(todo))
         /\ Once(Tail(todo)) /\ (Head(todo) = "poll" => "poll" \notin Elems(Tail(todo)))
         /\ Tail(todo) = <<>> => Elems(Tail(todo)) = {}
         /\ held \cup ({Head(todo)} \cap Resources) \subseteq Stoppable
         /\ kind \in AllKinds
<1>1. /\ todo \in Seq(Startable) /\ todo # <<>> /\ Once(todo) /\ kind \in AllKinds
      /\ held \subseteq Stoppable /\ Elems(todo) \cap Resources \subseteq Stoppable
  BY SessionAssumption DEF SessionInv, SessionTypeOK, Course, Startable, Startup
<1> QED  BY <1>1, ElemsParts

\* A step into the finally, from the try.
LEMMA EnterFinallyStep ==
  ASSUME SessionInv, pc = "guarded" \/ Waiting,
         NEW h \in {"stopped", "idle", "aborted", "startup", "errored"}, EnterFinally(h),
         kind' = kind, held \subseteq held', held' \subseteq Stoppable
  PROVE  Course' /\ AllStopped' /\ Observed'
<1>1. kind \in AllKinds /\ Base \in held'
  BY SessionAssumption DEF SessionInv, SessionTypeOK, Course
<1>2. ToStop(held') # {}  BY <1>1, FinallyIs, FirstIs
<1>3. ToStop(held)' # {}  BY <1>2 DEF ToStop, EnterFinally
<1>4. Course'
  BY <1>3 DEF EnterFinally, Course, Startup, Waiting, Stoppable, Kept
<1>5. AllStopped'  BY DEF EnterFinally, AllStopped
<1>6. Observed'  BY DEF EnterFinally, Observed, Startup, Waiting
<1> QED  BY <1>4, <1>5, <1>6

LEMMA EnterFinallyTypes ==
  ASSUME SessionInv, NEW h \in {"stopped", "idle", "aborted", "startup", "errored"}, EnterFinally(h),
         kind' = kind, server' \in {"live", "stopped", "errored"}, held' \subseteq Resources,
         collector' \in {"off", "ok", "disabled"}, UNCHANGED <<art, crashed>>,
         poll' \in {"off", "list", "upload", "sleep", "drain", "settle", "resolved", "rejected"},
         batch' \subseteq Artifacts, poll' = "upload" <=> batch' # {},
         UNCHANGED <<attached, unlisted>>
  PROVE  SessionTypeOK'
<1>1. {idleTimeout, maxDuration, overdue, attached, unlisted}' \subseteq BOOLEAN
  <2>1. attached' \in BOOLEAN /\ unlisted' \in BOOLEAN  BY DEF SessionInv, SessionTypeOK
  <2>2. idleTimeout' \in BOOLEAN /\ maxDuration' \in BOOLEAN /\ overdue' \in BOOLEAN
    BY DEF EnterFinally
  <2> QED  BY <2>1, <2>2
<1>2. age' \in 0..(IdleLimit + 1) /\ quiet' \in 0..(IdleLimit + 1) /\ unseen' \in 0..2
  BY SessionAssumption DEF EnterFinally
<1>3. due' \subseteq Artifacts /\ todo' \in Seq(Resources \cup {"ready", "config", "install"})
  BY DEF EnterFinally
<1>4. /\ pc' \in {"unguarded", "guarded", "query", "sleep", "ensure", "finally", "over"}
      /\ how' \in {"none", "stopped", "idle", "aborted"} \cup Failures
      /\ step' \in {"running", "success", "failed", "timedOut"}
  BY DEF EnterFinally, SessionInv, SessionTypeOK, Failures
<1>5. /\ art' \in [Artifacts -> {"absent", "offered", "uploading", "uploaded", "failed"}]
      /\ crashed' \in BOOLEAN /\ kind' \in Kinds
  BY DEF SessionInv, SessionTypeOK
<1> QED  BY <1>1, <1>2, <1>3, <1>4, <1>5 DEF SessionTypeOK

LEMMA Enums ==
  /\ Resources \subseteq Startable /\ "events" \in Resources /\ Base \in Resources
BY DEF Startable, Resources, Base

LEMMA StartupGoesOnStep ==
  ASSUME SessionInv, StartupGoesOn
  PROVE  SessionInv'
<1> DEFINE r == Head(todo)
<1>1. /\ UNCHANGED <<kind, server, attached, batch, art, crashed, unlisted>> /\ Startup
      /\ held' = held \cup ({r} \cap Resources)
      /\ poll' = IF r # "poll" THEN poll
                 ELSE IF kind = "argent" /\ step = "timedOut" THEN "drain" ELSE "list"
      /\ IF r = "events" THEN collector' \in {"ok", "disabled"} ELSE UNCHANGED collector
  BY DEF StartupGoesOn
<1>2. /\ r \in Startable /\ Elems(todo) = {r} \cup Elems(Tail(todo))
      /\ Tail(todo) \in Seq(Startable) /\ Once(Tail(todo))
      /\ r = "poll" => "poll" \notin Elems(Tail(todo))
      /\ Tail(todo) = <<>> => Elems(Tail(todo)) = {}
      /\ held' \subseteq Stoppable /\ kind \in AllKinds /\ todo # <<>> /\ how = "none"
  BY <1>1, SessionStarted DEF SessionInv, Course
<1> HIDE DEF r
<1>3. r = "poll" => poll = "off"
  BY <1>1, <1>2 DEF SessionInv, Handover
<1>4. /\ poll' \in {"off", "list", "upload", "sleep", "drain", "settle", "resolved", "rejected"}
      /\ poll' = "upload" <=> batch' # {}
      /\ held' \subseteq Resources /\ collector' \in {"off", "ok", "disabled"}
      /\ "events" \in held' => collector' # "off"
      /\ {crashed', attached', unlisted'} \subseteq BOOLEAN
  BY <1>1, <1>3 DEF SessionInv, SessionTypeOK, Observed
<1>5. CASE Tail(todo) # <<>>
  <2>1. todo' = Tail(todo) /\ UNCHANGED <<pc, how, step, due, wait>>
    BY <1>5 DEF StartupGoesOn
  <2>2. SessionTypeOK'
    BY <1>1, <1>2, <1>4, <2>1 DEF SessionInv, SessionTypeOK, wait, Startable
  <2>3. kind = "appium" /\ pc = "unguarded" => AppiumStarts'
    <3> SUFFICES ASSUME kind = "appium", pc = "unguarded" PROVE AppiumStarts'  OBVIOUS
    <3>1. AppiumStarts  BY DEF SessionInv, Course
    <3>2. CASE todo = <<"home", "install", "producer", "ready", "events">> /\ held = {}
      <4>1. r = "home" /\ Tail(todo) = <<"install", "producer", "ready", "events">>
        BY <3>2 DEF r
      <4>2. held' = {"home"}  BY <1>1, <3>2, <4>1 DEF Resources
      <4> QED  BY <2>1, <4>1, <4>2 DEF AppiumStarts
    <3>3. CASE todo = <<"install", "producer", "ready", "events">> /\ held = {"home"}
      <4>1. r = "install" /\ Tail(todo) = <<"producer", "ready", "events">>
        BY <3>3 DEF r
      <4>2. held' = {"home"}  BY <1>1, <3>3, <4>1 DEF Resources
      <4> QED  BY <2>1, <4>1, <4>2 DEF AppiumStarts
    <3>4. CASE todo = <<"producer", "ready", "events">> /\ held = {"home"}
      <4>1. r = "producer" /\ Tail(todo) = <<"ready", "events">>
        BY <3>4 DEF r
      <4>2. held' = {"home", "producer"}  BY <1>1, <3>4, <4>1 DEF Resources
      <4> QED  BY <2>1, <4>1, <4>2 DEF AppiumStarts
    <3>5. CASE todo = <<"ready", "events">> /\ held = {"home", "producer"}
      <4>1. r = "ready" /\ Tail(todo) = <<"events">>
        BY <3>5 DEF r
      <4>2. held' = {"home", "producer"}  BY <1>1, <3>5, <4>1 DEF Resources
      <4> QED  BY <2>1, <4>1, <4>2 DEF AppiumStarts
    <3>6. CASE todo = <<"events">> /\ held = {"home", "producer"}
      BY <1>5, <3>6
    <3> QED  BY <3>1, <3>2, <3>3, <3>4, <3>5, <3>6 DEF AppiumStarts
  <2>4. Base' = Base /\ Stoppable' = Stoppable  BY <1>1 DEF Base, Stoppable, Kept
  <2>5. Course'
    BY <1>1, <1>2, <1>5, <2>1, <2>3, <2>4, Enums DEF SessionInv, Course, Startup, Waiting
  <2>6. AllStopped'  BY <1>1, <2>1 DEF AllStopped, Startup
  <2>7. Observed'  BY <1>1, <1>4, <2>1 DEF SessionInv, Observed, wait
  <2>8. Handover'
    <3>1. Startup' /\ "poll" \in Elems(todo') => poll' = "off"
      BY <1>1, <1>2, <2>1 DEF SessionInv, Handover
    <3>2. pc' = "unguarded" /\ kind = "agentDevice" => poll' = "off"
      BY <1>1, <1>2, <2>1 DEF SessionInv, Course, Handover
    <3>3. \A a \in due' : art[a] # "absent"  BY <2>1 DEF SessionInv, Handover
    <3> QED  BY <1>1, <2>1, <3>1, <3>2, <3>3, HandoverAhead
  <2> QED  BY <2>2, <2>5, <2>6, <2>7, <2>8 DEF SessionInv
<1>6. CASE Tail(todo) = <<>> /\ pc = "unguarded"
  <2>1. PICK preview \in {<<>>, <<"preview">>} : todo' = Guarded(preview)[kind]
    BY <1>6 DEF StartupGoesOn
  <2>2. pc' = "guarded" /\ UNCHANGED <<how, step, due, wait>>
    BY <1>6 DEF StartupGoesOn
  <2>3. /\ todo' \in Seq(Startable) /\ todo' # <<>> /\ Once(todo')
        /\ Elems(todo') \cap Resources \subseteq Stoppable
        /\ kind = "agentDevice" => "events" \in Elems(todo')
        /\ "poll" \in Elems(todo') => kind = "agentDevice"
    BY <1>2, <2>1, GuardedIs
  <2>4. SessionTypeOK'
    BY <1>1, <1>2, <1>4, <2>2, <2>3 DEF SessionInv, SessionTypeOK, wait, Startable
  <2>5. Base' = Base /\ Stoppable' = Stoppable  BY <1>1 DEF Base, Stoppable, Kept
  <2>6. Base \in held' /\ (kind # "serveSim" => "events" \in held' \cup Elems(todo'))
    <3>1. Base \in held \cup {r}  BY <1>2, <1>6 DEF SessionInv, Course
    <3>2. kind \in {"appium", "argent"} => "events" \in held \cup {r}
      BY <1>2, <1>6 DEF SessionInv, Course
    <3>3. kind # "serveSim" => kind = "agentDevice" \/ kind \in {"appium", "argent"}
      BY <1>2 DEF AllKinds
    <3> QED  BY <1>1, <2>3, <3>1, <3>2, <3>3, Enums
  <2>7. Course'
    BY <1>1, <1>2, <2>2, <2>3, <2>5, <2>6 DEF Course, Startup, Waiting
  <2>8. AllStopped'  BY <2>2 DEF AllStopped
  <2>9. Observed'  BY <1>1, <1>4, <2>2 DEF SessionInv, Observed, wait
  <2>10. Handover'
    <3>1. Startup' /\ "poll" \in Elems(todo') => poll' = "off"
      BY <1>1, <1>2, <1>6, <2>3 DEF SessionInv, Course, Handover
    <3>2. \A a \in due' : art[a] # "absent"  BY <2>2 DEF SessionInv, Handover
    <3> QED  BY <1>1, <2>2, <3>1, <3>2, HandoverAhead
  <2> QED  BY <2>4, <2>7, <2>8, <2>9, <2>10 DEF SessionInv
<1>7. CASE Tail(todo) = <<>> /\ pc = "guarded"
  <2>1. BeginWait  BY <1>7 DEF StartupGoesOn
  <2>2. Base \in held /\ (kind # "serveSim" => "events" \in held')
    BY <1>1, <1>2, <1>7, Enums DEF SessionInv, Course
  <2>3. CASE Aborted
    <3>1. EnterFinally("aborted")  BY <2>1, <2>3 DEF BeginWait
    <3>2. Course' /\ AllStopped' /\ Observed'
      BY <1>1, <1>2, <1>7, <3>1, EnterFinallyStep
    <3>3. SessionTypeOK'
      <4>1. server' \in {"live", "stopped", "errored"} /\ batch' \subseteq Artifacts
        BY <1>1 DEF SessionInv, SessionTypeOK
      <4> QED  BY <1>1, <1>4, <3>1, <4>1, EnterFinallyTypes
    <3>4. Handover'
      BY <1>1, <1>7, <3>1, HandoverAhead DEF EnterFinally, Startup
    <3> QED  BY <3>2, <3>3, <3>4 DEF SessionInv
  <2>4. CASE ~Aborted
    <3>1. /\ pc' = "query" /\ todo' = <<>>
          /\ idleTimeout' \in BOOLEAN /\ (kind = "serveSim" => ~idleTimeout')
          /\ maxDuration' \in BOOLEAN /\ age' = 1 /\ quiet' = 1
          /\ UNCHANGED <<overdue, unseen, how, due, step>>
      BY <2>1, <2>4 DEF BeginWait
    <3>2. SessionTypeOK'
      <4>1. age' \in 0..(IdleLimit + 1) /\ quiet' \in 0..(IdleLimit + 1)
        BY <3>1, SessionAssumption
      <4> QED  BY <1>1, <1>2, <1>4, <3>1, <4>1 DEF SessionInv, SessionTypeOK
    <3>3. Base' = Base /\ Stoppable' = Stoppable  BY <1>1 DEF Base, Stoppable, Kept
    <3>4. Course'
      BY <1>1, <1>2, <2>2, <3>1, <3>3 DEF Course, Startup, Waiting
    <3>5. AllStopped'  BY <3>1 DEF AllStopped
    <3>6. Observed'  BY <1>1, <1>4, <3>1 DEF SessionInv, Observed
    <3>7. \A a \in due' : art[a] # "absent"  BY <3>1 DEF SessionInv, Handover
    <3>8. Handover'
      BY <1>1, <3>1, <3>7, HandoverAhead DEF Startup
    <3> QED  BY <3>2, <3>4, <3>5, <3>6, <3>8 DEF SessionInv
  <2> QED  BY <2>3, <2>4
<1> QED  BY <1>1, <1>5, <1>6, <1>7 DEF Startup

\* A step into the finally that leaves what is held, and the poller.
LEMMA ToFinally ==
  ASSUME SessionInv, pc = "guarded" \/ Waiting,
         NEW h \in {"stopped", "idle", "aborted", "startup", "errored"}, EnterFinally(h),
         server' \in {"live", "stopped", "errored"},
         UNCHANGED <<kind, held, collector, uploader, art, crashed, unlisted>>
  PROVE  SessionInv'
<1>1. held \subseteq Stoppable  BY DEF SessionInv, Course, Waiting
<1>2. Course' /\ AllStopped' /\ Observed'  BY <1>1, EnterFinallyStep
<1>3. SessionTypeOK'
  <2>1. /\ collector \in {"off", "ok", "disabled"} /\ held \subseteq Resources
        /\ batch \subseteq Artifacts /\ (poll = "upload" <=> batch # {})
        /\ poll \in {"off", "list", "upload", "sleep", "drain", "settle", "resolved", "rejected"}
    BY DEF SessionInv, SessionTypeOK
  <2> QED  BY <2>1, EnterFinallyTypes DEF uploader
<1>4. \A a \in due' : art[a] # "absent"  BY DEF EnterFinally
<1>5. pc' = "finally" /\ step' = step /\ todo' = <<>>  BY DEF EnterFinally
<1>6. Handover'
  BY <1>4, <1>5, HandoverAhead DEF Startup, uploader
<1> QED  BY <1>2, <1>3, <1>6 DEF SessionInv

LEMMA StartupFailsStep ==
  ASSUME SessionInv, StartupFails
  PROVE  SessionInv'
<1>1. UNCHANGED <<kind, server, collector, uploader, art, crashed, unlisted>> /\ Startup
  BY DEF StartupFails
<1>2. CASE pc = "unguarded"
  <2>1. /\ held' \in HeldAfterFailure /\ UNCHANGED <<todo, due, wait>>
        /\ pc' = "over" /\ how' = "unguarded"
        /\ step' = IF step # "running" THEN step ELSE "failed"
    BY <1>2 DEF StartupFails, Over, Failures
  <2>2. held' \subseteq held  BY <2>1 DEF HeldAfterFailure
  <2>3. SessionTypeOK'
    BY <1>1, <2>1, <2>2 DEF SessionInv, SessionTypeOK, uploader, wait, Failures
  <2>4. Course'  BY <2>1 DEF Course, Startup, Waiting
  <2>5. AllStopped'
    <3> SUFFICES ASSUME kind = "appium", Head(todo) = "ready" PROVE held' \subseteq {"home"}
      BY <1>1, <2>1 DEF AllStopped
    <3>1. AppiumStarts  BY <1>2 DEF SessionInv, Course
    <3>2. held \subseteq {"home", "producer"}  BY <3>1 DEF AppiumStarts
    <3> QED  BY <2>1, <3>2 DEF HeldAfterFailure
  <2>6. Observed'  BY <1>1, <2>1 DEF SessionInv, Observed, wait, Startup, Waiting
  <2>7. Handover'
    <3>1. \A a \in due' : art[a] # "absent"  BY <2>1 DEF SessionInv, Handover
    <3>2. step = "timedOut" => step' = "timedOut"  BY <2>1
    <3> QED  BY <1>1, <2>1, <3>1, <3>2, HandoverAhead DEF Startup, uploader
  <2> QED  BY <2>3, <2>4, <2>5, <2>6, <2>7 DEF SessionInv
<1>3. CASE pc = "guarded"
  <2>1. UNCHANGED held /\ EnterFinally("startup")  BY <1>3 DEF StartupFails
  <2>2. server \in {"live", "stopped", "errored"}  BY DEF SessionInv, SessionTypeOK
  <2> QED  BY <1>1, <1>3, <2>1, <2>2, ToFinally
<1> QED  BY <1>1, <1>2, <1>3 DEF Startup

\* A step of the wait that stays in it.
LEMMA GoOnWaiting ==
  ASSUME SessionInv, Waiting, Waiting', SessionTypeOK',
         UNCHANGED <<kind, step, held, collector, uploader, art, crashed, unlisted, due>>,
         pc' \in {"query", "sleep"} => how' = "none",
         pc' = "ensure" => how' = "idle",
         unseen' = 0 => age' <= quiet',
         idleTimeout' => kind # "serveSim"
  PROVE  SessionInv'
<1>1. Base' = Base /\ Stoppable' = Stoppable  BY DEF Base, Stoppable, Kept
<1>2. Course'  BY <1>1 DEF SessionInv, Course, Startup, Waiting
<1>3. AllStopped'  BY DEF AllStopped, Waiting
<1>4. Observed'  BY DEF SessionInv, Observed, Startup, Waiting
<1>5. \A a \in due' : art[a] # "absent"  BY DEF SessionInv, Handover
<1>6. Handover'  BY <1>5, HandoverAhead DEF Startup, Waiting, uploader
<1> QED  BY <1>2, <1>3, <1>4, <1>6 DEF SessionInv

\* Ages grow together.
LEMMA OlderIs ==
  ASSUME SessionInv
  PROVE  /\ Older(age) \in 0..(IdleLimit + 1) /\ Older(quiet) \in 0..(IdleLimit + 1)
         /\ age <= quiet => Older(age) <= Older(quiet)
<1>1. age \in 0..(IdleLimit + 1) /\ quiet \in 0..(IdleLimit + 1) /\ IdleLimit \in Nat
  BY SessionAssumption DEF SessionInv, SessionTypeOK
<1> QED  BY <1>1 DEF Older

LEMMA SleepEndsStep ==
  ASSUME SessionInv, SleepEnds
  PROVE  SessionInv'
<1>1. /\ pc = "sleep" /\ Waiting /\ server \in {"live", "stopped", "errored"} /\ LoopTop
      /\ UNCHANGED <<held, kind, server, collector, uploader, art, crashed, unlisted>>
  BY DEF SleepEnds, Waiting, SessionInv, SessionTypeOK
<1>2. CASE Aborted
  <2>1. EnterFinally("aborted")  BY <1>1, <1>2 DEF LoopTop
  <2> QED  BY <1>1, <2>1, ToFinally
<1>3. CASE ~Aborted
  <2>1. /\ age' = Older(age) /\ quiet' = Older(quiet) /\ todo' = <<>>
        /\ IF IdledOut(age') THEN pc' = "ensure" /\ how' = "idle"
           ELSE pc' = "query" /\ UNCHANGED how
        /\ UNCHANGED <<unseen, due, step, idleTimeout, maxDuration, overdue>>
    BY <1>1, <1>3 DEF LoopTop
  <2>2. /\ age' \in 0..(IdleLimit + 1) /\ quiet' \in 0..(IdleLimit + 1)
        /\ unseen' = 0 => age' <= quiet'
    BY <2>1, OlderIs DEF SessionInv, Observed
  <2>3. pc' \in {"ensure", "query"} /\ how' \in {"none", "idle"}
    BY <1>1, <2>1 DEF SessionInv, Course
  <2>4. SessionTypeOK'
    BY <1>1, <2>1, <2>2, <2>3 DEF SessionInv, SessionTypeOK, uploader
  <2>5. Waiting' /\ (pc' = "query" => how' = "none") /\ pc' # "sleep"
    BY <1>1, <2>1 DEF Waiting, SessionInv, Course
  <2>6. (pc' = "ensure" => how' = "idle") /\ (idleTimeout' => kind # "serveSim")
    BY <2>1 DEF SessionInv, Observed
  <2> QED  BY <1>1, <2>1, <2>2, <2>4, <2>5, <2>6, GoOnWaiting
<1> QED  BY <1>2, <1>3

LEMMA WaitSteps ==
  ASSUME SessionInv, QueryAnswered \/ QueryFails \/ EnsureStopped \/ Overdue \/ Act \/ Collect
  PROVE  SessionInv'
<1>1. CASE QueryAnswered
  <2>1. /\ pc = "query" /\ Waiting
        /\ UNCHANGED <<held, kind, server, collector, uploader, art, crashed, unlisted>>
        /\ server \in {"live", "stopped", "errored"}
    BY <1>1 DEF QueryAnswered, Waiting, SessionInv, SessionTypeOK
  <2>2. CASE server = "live"
    <3>1. pc' = "sleep" /\ UNCHANGED <<how, todo, due, step, wait>>
      BY <1>1, <2>2 DEF QueryAnswered
    <3>2. SessionTypeOK'  BY <2>1, <3>1 DEF SessionInv, SessionTypeOK, wait, uploader
    <3>3. how = "none" /\ (idleTimeout => kind # "serveSim") /\ (unseen = 0 => age <= quiet)
      BY <2>1 DEF SessionInv, Course, Observed
    <3>4. Waiting'  BY <3>1 DEF Waiting
    <3> QED  BY <2>1, <3>1, <3>2, <3>3, <3>4, GoOnWaiting DEF wait
  <2>3. CASE server = "stopped"
    <3>1. EnterFinally("stopped")  BY <1>1, <2>3 DEF QueryAnswered
    <3> QED  BY <2>1, <3>1, ToFinally
  <2>4. CASE server = "errored"
    <3>1. EnterFinally("errored")  BY <1>1, <2>4 DEF QueryAnswered
    <3> QED  BY <2>1, <3>1, ToFinally
  <2> QED  BY <2>1, <2>2, <2>3, <2>4
<1>2. CASE QueryFails
  <2>1. /\ pc = "query" /\ pc' = "sleep" /\ Waiting /\ Waiting'
        /\ UNCHANGED <<kind, step, todo, held, how, server, wait, collector, uploader, art,
                       crashed, due, unlisted>>
    BY <1>2 DEF QueryFails, Waiting
  <2>2. SessionTypeOK'  BY <2>1 DEF SessionInv, SessionTypeOK, wait, uploader
  <2>3. how = "none" /\ (idleTimeout => kind # "serveSim") /\ (unseen = 0 => age <= quiet)
    BY <2>1 DEF SessionInv, Course, Observed
  <2> QED  BY <2>1, <2>2, <2>3, GoOnWaiting DEF wait
<1>3. CASE EnsureStopped
  <2>1. /\ Waiting /\ EnterFinally("idle") /\ server' \in {"live", "stopped", "errored"}
        /\ UNCHANGED <<held, kind, collector, uploader, art, crashed, unlisted>>
    BY <1>3 DEF EnsureStopped, Waiting, SessionInv, SessionTypeOK
  <2> QED  BY <2>1, ToFinally
<1>4. CASE Overdue
  <2>1. /\ Waiting /\ overdue' = TRUE
        /\ UNCHANGED <<kind, step, pc, todo, held, how, server, idleTimeout, maxDuration,
                       age, unseen, quiet, collector, uploader, art, crashed, due, unlisted>>
    BY <1>4 DEF Overdue
  <2>2. SessionTypeOK'  BY <2>1 DEF SessionInv, SessionTypeOK, uploader
  <2>3. Waiting'  BY <2>1 DEF Waiting
  <2> QED  BY <2>1, <2>2, <2>3, GoOnWaiting DEF SessionInv, Course, Observed
<1>5. CASE Act
  <2>1. /\ Waiting /\ unseen' \in {1, 2} /\ quiet' = 0
        /\ UNCHANGED <<kind, step, pc, todo, held, how, server, idleTimeout, maxDuration,
                       overdue, age, collector, uploader, art, crashed, due, unlisted>>
    BY <1>5 DEF Act
  <2>2. SessionTypeOK'
    <3>1. quiet' \in 0..(IdleLimit + 1) /\ unseen' \in 0..2  BY <2>1, SessionAssumption
    <3> QED  BY <2>1, <3>1 DEF SessionInv, SessionTypeOK, uploader
  <2>3. Waiting' /\ unseen' # 0  BY <2>1 DEF Waiting
  <2> QED  BY <2>1, <2>2, <2>3, GoOnWaiting DEF SessionInv, Course, Observed
<1>6. CASE Collect
  <2>1. /\ Waiting /\ unseen' \in 0..(unseen - 1) /\ age' = 0
        /\ UNCHANGED <<kind, step, pc, todo, held, how, server, idleTimeout, maxDuration,
                       overdue, quiet, collector, uploader, art, crashed, due, unlisted>>
    BY <1>6 DEF Collect
  <2>2. /\ unseen' \in 0..2 /\ age' \in 0..(IdleLimit + 1) /\ age' <= quiet'
    BY <2>1, SessionAssumption DEF SessionInv, SessionTypeOK
  <2>3. SessionTypeOK'  BY <2>1, <2>2 DEF SessionInv, SessionTypeOK, uploader
  <2>4. Waiting'  BY <2>1 DEF Waiting
  <2> QED  BY <2>1, <2>2, <2>3, <2>4, GoOnWaiting DEF SessionInv, Course, Observed
<1> QED  BY <1>1, <1>2, <1>3, <1>4, <1>5, <1>6

-----------------------------------------------------------------------------
(* The finally.                                                            *)

LEMMA FinallyGoesOn ==
  ASSUME SessionInv, pc = "finally", GoOnWithFinally, held' = held \ {First(held)},
         UNCHANGED <<kind, todo, server, wait, collector, poll, batch, art, crashed, due, unlisted>>
  PROVE  SessionInv'
<1>1. kind \in AllKinds /\ held \subseteq Stoppable /\ how \notin {"unguarded", "cleanUp"}
  BY SessionAssumption DEF SessionInv, SessionTypeOK, Course
<1>2. ToStop(held') = ToStop(held)'  BY DEF ToStop
<1>3. Stoppable' = Stoppable /\ Kept' = Kept  BY DEF Stoppable, Kept
<1>4. attached => attached'  BY DEF GoOnWithFinally
<1>5. attached' \in BOOLEAN  BY DEF GoOnWithFinally, SessionInv, SessionTypeOK
<1>6. /\ pc' \in {"finally", "over"} /\ how' = how
      /\ pc' = "over" => ToStop(held') = {}
      /\ pc' = "finally" => ToStop(held') # {}
      /\ step' = step \/ (step = "running" /\ step' \in {"failed", "success"})
  BY DEF GoOnWithFinally, Over
<1>7. SessionTypeOK'
  <2>1. {idleTimeout, maxDuration, overdue, attached, unlisted}' \subseteq BOOLEAN
    <3>1. {idleTimeout, maxDuration, overdue, unlisted} \subseteq BOOLEAN
      BY DEF SessionInv, SessionTypeOK
    <3> QED  BY <1>5, <3>1 DEF wait
  <2>2. step' \in {"running", "success", "failed", "timedOut"}  BY <1>6 DEF SessionInv, SessionTypeOK
  <2>3. held' \subseteq Resources  BY DEF SessionInv, SessionTypeOK
  <2> QED  BY <1>6, <2>1, <2>2, <2>3 DEF SessionInv, SessionTypeOK, wait
<1>8. Course'
  BY <1>1, <1>2, <1>3, <1>6 DEF Course, Startup, Waiting
<1>9. AllStopped'
  <2> SUFFICES ASSUME pc' = "over" PROVE held' \subseteq Kept
    BY <1>1, <1>3, <1>6 DEF AllStopped
  <2>1. held' \cap Elems(Finally[kind]) = {}  BY <1>1, <1>6, FirstIs
  <2> QED  BY <1>1, <2>1 DEF Stoppable
<1>10. Observed'  BY <1>6 DEF SessionInv, Observed, Startup, Waiting, wait
<1>11. Handover'  BY <1>4, <1>6, HandoverFinally
<1> QED  BY <1>7, <1>8, <1>9, <1>10, <1>11 DEF SessionInv

\* Appium's preview and tunnel are stopped before its events.
LEMMA AppiumFirst ==
  ASSUME kind = "appium", NEW h, h \subseteq Stoppable, ToStop(h) # {},
         First(h) \in {"events", "home"}
  PROVE  h \ {"events"} \subseteq {"producer", "home"}
<1> DEFINE k == CHOOSE k \in ToStop(h) : \A j \in ToStop(h) : k <= j
           F == Finally[kind]
<1>1. /\ F = <<"preview", "tunnel", "events", "producer", "home">> /\ DOMAIN F = 1..5
      /\ F[1] = "preview" /\ F[2] = "tunnel"
  BY DEF Finally
<1>2. ToStop(h) \subseteq 1..5  BY <1>1 DEF ToStop
<1>3. k \in ToStop(h) /\ \A j \in ToStop(h) : k <= j
  <2>1. \E i \in ToStop(h) : \A j \in ToStop(h) : i <= j
    <3> DEFINE least(n) == n \in ToStop(h) /\ \A i \in 1..5 : i < n => i \notin ToStop(h)
    <3>1. least(1) \/ least(2) \/ least(3) \/ least(4) \/ least(5)  BY <1>2
    <3>2. \A n \in 1..5 : least(n) => \A j \in ToStop(h) : n <= j  BY <1>2
    <3> QED  BY <3>1, <3>2
  <2> QED  BY <2>1
<1>4. First(h) = F[k]  BY DEF First
<1> HIDE DEF k
<1>5. 1 \notin ToStop(h) /\ 2 \notin ToStop(h)
  BY <1>1, <1>2, <1>3, <1>4
<1>6. "preview" \notin h /\ "tunnel" \notin h
  BY <1>1, <1>5 DEF ToStop
<1>7. Stoppable = {"preview", "tunnel", "events", "producer", "home"}
  BY <1>1 DEF Stoppable, Elems, Kept
<1> QED  BY <1>6, <1>7

LEMMA FinallySteps ==
  ASSUME SessionInv, Stop \/ AwaitPoll
  PROVE  SessionInv'
<1>1. CASE AwaitPoll
  BY <1>1, FinallyGoesOn DEF AwaitPoll
<1>2. CASE Stop
  <2>1. /\ pc = "finally"
        /\ UNCHANGED <<kind, todo, server, wait, collector, poll, batch, art, crashed, due,
                       unlisted>>
    BY <1>2 DEF Stop
  <2>2. CASE held' = held \ {First(held)} /\ GoOnWithFinally  BY <2>1, <2>2, FinallyGoesOn
  <2>3. CASE /\ kind = "appium" /\ First(held) \in {"events", "home"}
             /\ held' = held \ {"events"} /\ Over("cleanUp") /\ UNCHANGED attached
    <3>1. /\ pc' = "over" /\ how' = "cleanUp"
          /\ step' = IF step # "running" THEN step ELSE "failed"
      BY <2>3 DEF Over, Failures
    <3>2. SessionTypeOK'
      <4>1. held' \subseteq Resources  BY <2>3 DEF SessionInv, SessionTypeOK
      <4> QED  BY <2>1, <2>3, <3>1, <4>1 DEF SessionInv, SessionTypeOK, wait, Failures
    <3>3. held' \subseteq {"producer", "home"}
      BY <2>1, <2>3, AppiumFirst DEF SessionInv, Course
    <3>4. Course' /\ AllStopped'  BY <3>1, <3>3 DEF Course, AllStopped, Startup, Waiting
    <3>5. Observed'  BY <2>1, <3>1 DEF SessionInv, Observed, Startup, Waiting, wait
    <3>6. Handover'  BY <2>1, <2>3, <3>1, HandoverFinally
    <3> QED  BY <3>2, <3>4, <3>5, <3>6 DEF SessionInv
  <2> QED  BY <1>2, <2>2, <2>3 DEF Stop
<1> QED  BY <1>1, <1>2

-----------------------------------------------------------------------------
(* The pollers, and the rest of the system.                                 *)

\* The function is where it was.
LEMMA SameFunction ==
  ASSUME SessionInv, UNCHANGED function
  PROVE  Course' /\ AllStopped' /\ Observed'
BY DEF function, wait, SessionInv, Course, AllStopped, Observed, Startup, Waiting, Base, Stoppable,
   Kept, ToStop, AppiumStarts

LEMMA SameFunctionTypes ==
  ASSUME SessionInv, UNCHANGED function,
         poll' \in {"off", "list", "upload", "sleep", "drain", "settle", "resolved", "rejected"},
         art' \in [Artifacts -> {"absent", "offered", "uploading", "uploaded", "failed"}],
         batch' \subseteq Artifacts, poll' = "upload" <=> batch' # {},
         attached' = attached, unlisted' \in BOOLEAN, crashed' \in BOOLEAN
  PROVE  SessionTypeOK'
<1>1. {idleTimeout, maxDuration, overdue, attached, unlisted}' \subseteq BOOLEAN
  BY DEF function, wait, SessionInv, SessionTypeOK
<1> QED  BY <1>1 DEF function, wait, SessionInv, SessionTypeOK

\* Artifacts go on, and the poller stays on this side of its last listing.
LEMMA HandoverBeside ==
  ASSUME SessionInv, UNCHANGED <<function, attached, crashed>>,
         (poll # "off" /\ poll' # "off") \/ poll' = poll,
         poll' \in {"drain", "settle"} => kind = "argent",
         kind = "argent" /\ poll' \in {"drain", "settle", "resolved"}
           => attached \/ step = "timedOut",
         \A a \in Artifacts : art[a] # "absent" => art'[a] # "absent",
         kind = "argent" /\ poll' \in {"settle", "resolved"} /\ ~unlisted' /\ step # "timedOut"
           => \A a \in due : art'[a] \in {"uploaded", "failed"}
                             \/ (art'[a] = "uploading" /\ poll' = "settle")
  PROVE  Handover'
<1>1. due \subseteq Artifacts  BY DEF SessionInv, SessionTypeOK
<1> QED  BY <1>1 DEF SessionInv, Handover, function, wait, Startup

LEMMA QueuedIs ==
  ASSUME SessionTypeOK
  PROVE  /\ Queued \in [Artifacts -> {"absent", "offered", "uploading", "uploaded", "failed"}]
         /\ \A a \in Artifacts : /\ art[a] # "absent" => Queued[a] \in {"uploading", "uploaded", "failed"}
BY DEF SessionTypeOK, Queued

LEMMA ArgentSteps ==
  ASSUME SessionInv, ListArgent \/ PollerWakes \/ DrainArgent \/ UploadsTimeOut
               \/ \E a \in Artifacts : UploadEnds(a)
  PROVE  SessionInv'
<1> DEFINE Polls == {"off", "list", "upload", "sleep", "drain", "settle", "resolved", "rejected"}
<1>0. /\ poll \in Polls /\ batch \subseteq Artifacts /\ unlisted \in BOOLEAN /\ crashed \in BOOLEAN
      /\ poll = "upload" <=> batch # {}
      /\ art \in [Artifacts -> {"absent", "offered", "uploading", "uploaded", "failed"}]
      /\ due \subseteq Artifacts /\ attached \in BOOLEAN
  BY DEF SessionInv, SessionTypeOK
<1>1. CASE ListArgent
  <2>1. /\ kind = "argent" /\ poll = "list" /\ poll' = "sleep" /\ (art' = art \/ art' = Queued)
        /\ UNCHANGED <<function, attached, batch, crashed, unlisted>>
    BY <1>1 DEF ListArgent
  <2>2. SessionTypeOK'  BY <1>0, <2>1, SameFunctionTypes, QueuedIs DEF SessionInv
  <2>3. \A a \in Artifacts : art[a] # "absent" => art'[a] # "absent"
    BY <2>1, QueuedIs DEF SessionInv
  <2>4. Handover'  BY <2>1, <2>3, HandoverBeside
  <2> QED  BY <2>1, <2>2, <2>4, SameFunction DEF SessionInv
<1>2. CASE PollerWakes
  <2>1. /\ poll = "sleep" /\ poll' = IF kind = "argent" /\ Told THEN "drain" ELSE "list"
        /\ UNCHANGED <<function, attached, batch, art, crashed, unlisted>>
    BY <1>2 DEF PollerWakes
  <2>2. SessionTypeOK'  BY <1>0, <2>1, SameFunctionTypes
  <2>3. Handover'  BY <2>1, HandoverBeside DEF Told
  <2> QED  BY <2>1, <2>2, <2>3, SameFunction DEF SessionInv
<1>3. CASE DrainArgent
  <2>1. /\ poll = "drain" /\ poll' = IF Pending(art') THEN "settle" ELSE "resolved"
        /\ \/ art' = art /\ unlisted' = TRUE
           \/ art' = Queued /\ unlisted' = unlisted
        /\ UNCHANGED <<function, attached, batch, crashed>>
    BY <1>3 DEF DrainArgent
  <2>2. unlisted' \in BOOLEAN  BY <1>0, <2>1
  <2>3. SessionTypeOK'  BY <1>0, <2>1, <2>2, SameFunctionTypes, QueuedIs DEF SessionInv
  <2>4. \A a \in Artifacts : art[a] # "absent" => art'[a] # "absent"
    BY <2>1, QueuedIs DEF SessionInv
  <2>5. ASSUME ~unlisted', NEW a \in due
        PROVE  art'[a] \in {"uploaded", "failed"} \/ (art'[a] = "uploading" /\ poll' = "settle")
    <3>1. art' = Queued  BY <2>1, <2>5
    <3>2. art'[a] \in {"uploading", "uploaded", "failed"}
      BY <1>0, <3>1, QueuedIs DEF SessionInv, Handover
    <3>3. art'[a] = "uploading" => poll' = "settle"  BY <1>0, <2>1 DEF Pending
    <3> QED  BY <3>2, <3>3
  <2>6. kind = "argent" /\ (attached \/ step = "timedOut")  BY <2>1 DEF SessionInv, Handover
  <2>7. Handover'  BY <2>1, <2>4, <2>5, <2>6, HandoverBeside
  <2> QED  BY <2>1, <2>3, <2>7, SameFunction DEF SessionInv
<1>4. CASE UploadsTimeOut
  <2>1. /\ poll = "settle" /\ poll' = "rejected" /\ crashed' = ~attached
        /\ UNCHANGED <<function, attached, batch, art, unlisted>>
    BY <1>4 DEF UploadsTimeOut
  <2>2. crashed' \in BOOLEAN  BY <2>1
  <2>3. SessionTypeOK'  BY <1>0, <2>1, <2>2, SameFunctionTypes
  <2>4. attached \/ step = "timedOut"  BY <2>1 DEF SessionInv, Handover
  <2>5. Handover'  BY <2>1, <2>4 DEF SessionInv, Handover, function, wait, Startup
  <2> QED  BY <2>1, <2>3, <2>5, SameFunction DEF SessionInv
<1>5. ASSUME NEW a \in Artifacts, UploadEnds(a) PROVE SessionInv'
  <2>1. PICK end \in {"uploaded", "failed"} : art' = [art EXCEPT ![a] = end]
    BY <1>5 DEF UploadEnds
  <2>2. /\ art[a] = "uploading"
        /\ poll' = IF poll = "settle" /\ ~Pending(art') THEN "resolved" ELSE poll
        /\ UNCHANGED <<function, attached, batch, crashed, unlisted>>
    BY <1>5 DEF UploadEnds
  <2>3. SessionTypeOK'  BY <1>0, <2>1, <2>2, SameFunctionTypes
  <2>4. \A b \in Artifacts : art[b] # "absent" => art'[b] # "absent"  BY <1>0, <2>1
  <2>5. poll' \in {"drain", "settle", "resolved"} => poll \in {"drain", "settle", "resolved"}
    BY <2>2
  <2>6. ASSUME kind = "argent", poll' \in {"settle", "resolved"}, ~unlisted', step # "timedOut",
               NEW b \in due
        PROVE  art'[b] \in {"uploaded", "failed"} \/ (art'[b] = "uploading" /\ poll' = "settle")
    <3>1. poll \in {"settle", "resolved"}  BY <2>2, <2>6
    <3>2. art[b] \in {"uploaded", "failed"} \/ (art[b] = "uploading" /\ poll = "settle")
      BY <2>2, <2>6, <3>1 DEF SessionInv, Handover
    <3>3. art'[b] \in {"uploaded", "failed"} \/ (art'[b] = "uploading" /\ poll = "settle")
      BY <1>0, <2>1, <3>2
    <3>4. art'[b] = "uploading" /\ poll = "settle" => poll' = "settle"
      BY <1>0, <2>2 DEF Pending
    <3> QED  BY <3>3, <3>4
  <2>7. poll' \in {"drain", "settle"} => kind = "argent"  BY <2>2 DEF SessionInv, Handover
  <2>8. kind = "argent" /\ poll' \in {"drain", "settle", "resolved"} => attached \/ step = "timedOut"
    BY <2>5 DEF SessionInv, Handover
  <2>9. Handover'
    <3>1. (poll # "off" /\ poll' # "off") \/ poll' = poll  BY <2>2
    <3> QED  BY <2>2, <2>4, <2>6, <2>7, <2>8, <3>1, HandoverBeside
  <2> QED  BY <2>2, <2>3, <2>9, SameFunction DEF SessionInv
<1> QED  BY <1>1, <1>2, <1>3, <1>4, <1>5

LEMMA AgentDeviceSteps ==
  ASSUME SessionInv, ListAgentDevice \/ \E a \in Artifacts : UploadNext(a)
  PROVE  SessionInv'
<1> DEFINE Polls == {"off", "list", "upload", "sleep", "drain", "settle", "resolved", "rejected"}
<1>0. /\ poll \in Polls /\ batch \subseteq Artifacts /\ unlisted \in BOOLEAN /\ crashed \in BOOLEAN
      /\ poll = "upload" <=> batch # {}
      /\ art \in [Artifacts -> {"absent", "offered", "uploading", "uploaded", "failed"}]
      /\ due \subseteq Artifacts
  BY DEF SessionInv, SessionTypeOK
<1>1. CASE ListAgentDevice
  <2>1. /\ kind = "agentDevice" /\ poll = "list" /\ batch' \subseteq Artifacts
        /\ poll' = "upload" <=> batch' # {}
        /\ poll' \in {"sleep", "upload", "resolved"}
        /\ UNCHANGED <<function, attached, art, crashed, unlisted>>
    BY <1>0, <1>1 DEF ListAgentDevice
  <2>2. SessionTypeOK'  BY <1>0, <2>1, SameFunctionTypes
  <2>3. Handover'  BY <2>1, HandoverBeside
  <2> QED  BY <2>1, <2>2, <2>3, SameFunction DEF SessionInv
<1>2. ASSUME NEW a \in Artifacts, UploadNext(a) PROVE SessionInv'
  <2>1. PICK end \in {"offered", "uploaded"} : art' = [art EXCEPT ![a] = end]
    BY <1>2 DEF UploadNext
  <2>2. /\ poll = "upload" /\ batch' = batch \ {a}
        /\ poll' = IF batch' = {} THEN "sleep" ELSE "upload"
        /\ UNCHANGED <<function, attached, crashed, unlisted>>
    BY <1>2 DEF UploadNext
  <2>3. SessionTypeOK'  BY <1>0, <2>1, <2>2, SameFunctionTypes
  <2>4. \A b \in Artifacts : art[b] # "absent" => art'[b] # "absent"  BY <1>0, <2>1
  <2>5. Handover'  BY <2>2, <2>4, HandoverBeside
  <2> QED  BY <2>2, <2>3, <2>5, SameFunction DEF SessionInv
<1> QED  BY <1>1, <1>2

LEMMA EnvironmentSteps ==
  ASSUME SessionInv, TimeOut \/ ServerEnds \/ \E a \in Artifacts : Offer(a)
  PROVE  SessionInv'
<1>1. CASE TimeOut
  <2>1. /\ step' = "timedOut"
        /\ UNCHANGED <<kind, pc, todo, held, how, server, wait, collector, uploader, art, crashed,
                       due, unlisted>>
    BY <1>1 DEF TimeOut
  <2>2. SessionTypeOK'  BY <2>1 DEF SessionInv, SessionTypeOK, wait, uploader
  <2>3. Course' /\ AllStopped' /\ Observed'
    BY <2>1
    DEF wait, SessionInv, Course, AllStopped, Observed, Startup, Waiting, Base, Stoppable, Kept,
        ToStop, AppiumStarts
  <2>4. Handover'  BY <2>1 DEF SessionInv, Handover, wait, uploader, Startup
  <2> QED  BY <2>2, <2>3, <2>4 DEF SessionInv
<1>2. CASE ServerEnds
  <2>1. /\ server' \in {"stopped", "errored"}
        /\ UNCHANGED <<kind, step, pc, todo, held, how, wait, collector, uploader, art, crashed,
                       due, unlisted>>
    BY <1>2 DEF ServerEnds
  <2>2. SessionTypeOK'  BY <2>1 DEF SessionInv, SessionTypeOK, wait, uploader
  <2>3. Course' /\ AllStopped' /\ Observed'
    BY <2>1
    DEF wait, SessionInv, Course, AllStopped, Observed, Startup, Waiting, Base, Stoppable, Kept,
        ToStop, AppiumStarts
  <2>4. Handover'  BY <2>1 DEF SessionInv, Handover, wait, uploader, Startup
  <2> QED  BY <2>2, <2>3, <2>4 DEF SessionInv
<1>3. ASSUME NEW a \in Artifacts, Offer(a) PROVE SessionInv'
  <2>1. /\ art[a] = "absent" /\ art' = [art EXCEPT ![a] = "offered"]
        /\ UNCHANGED <<function, uploader, crashed, unlisted>>
        /\ art \in [Artifacts -> {"absent", "offered", "uploading", "uploaded", "failed"}]
        /\ due \subseteq Artifacts
    BY <1>3 DEF Offer, SessionInv, SessionTypeOK
  <2>2. SessionTypeOK'
    <3>1. /\ poll \in {"off", "list", "upload", "sleep", "drain", "settle", "resolved", "rejected"}
          /\ batch \subseteq Artifacts /\ (poll = "upload" <=> batch # {})
          /\ unlisted \in BOOLEAN /\ crashed \in BOOLEAN
      BY DEF SessionInv, SessionTypeOK
    <3> QED  BY <2>1, <3>1, SameFunctionTypes DEF uploader
  <2>3. \A b \in Artifacts : art[b] # "absent" => art'[b] = art[b]  BY <2>1
  <2>4. \A b \in due : art'[b] = art[b]  BY <2>1, <2>3 DEF SessionInv, Handover
  <2>5. Handover'
    BY <2>1, <2>4 DEF SessionInv, Handover, function, wait, uploader, Startup
  <2> QED  BY <2>1, <2>2, <2>5, SameFunction DEF SessionInv
<1> QED  BY <1>1, <1>2, <1>3

-----------------------------------------------------------------------------
(* Theorems.                                                               *)

LEMMA InitInv == SessionInit => SessionInv
<1> SUFFICES ASSUME SessionInit PROVE SessionInv  OBVIOUS
<1>1. /\ kind \in Kinds /\ kind \in AllKinds /\ pc = "unguarded" /\ todo = Unguarded[kind]
      /\ held = {} /\ how = "none" /\ age = 0 /\ quiet = 0 /\ unseen = 0 /\ poll = "off" /\ batch = {}
      /\ due = {} /\ art = [a \in Artifacts |-> "absent"] /\ step = "running"
      /\ server = "live" /\ collector = "off"
  BY SessionAssumption DEF SessionInit
<1>2. /\ todo \in Seq(Startable) /\ todo # <<>> /\ Once(todo)
      /\ Elems(todo) \cap Resources \subseteq Stoppable
      /\ Base \in Elems(todo)
      /\ kind = "appium" => todo = <<"home", "install", "producer", "ready", "events">>
      /\ kind \in {"appium", "argent"} => "events" \in Elems(todo)
      /\ "poll" \in Elems(todo) => kind = "argent"
  BY <1>1, UnguardedIs
<1>3. ~idleTimeout /\ ~attached /\ ~crashed  BY DEF SessionInit
<1>4. SessionTypeOK
  <2>1. {idleTimeout, maxDuration, overdue, attached, unlisted} \subseteq BOOLEAN
    <3>1. /\ idleTimeout \in BOOLEAN /\ maxDuration \in BOOLEAN /\ overdue \in BOOLEAN
          /\ attached \in BOOLEAN /\ unlisted \in BOOLEAN
      BY DEF SessionInit
    <3> QED  BY <3>1
  <2>2. age \in 0..(IdleLimit + 1) /\ quiet \in 0..(IdleLimit + 1) /\ unseen \in 0..2
    BY <1>1, SessionAssumption
  <2>3. crashed \in BOOLEAN  BY DEF SessionInit
  <2>4. held \subseteq Resources /\ batch \subseteq Artifacts /\ due \subseteq Artifacts
    BY <1>1
  <2> QED  BY <1>1, <1>2, <2>1, <2>2, <2>3, <2>4 DEF SessionTypeOK, Startable
<1>5. kind = "appium" => AppiumStarts  BY <1>1, <1>2 DEF AppiumStarts
<1>6. kind = "agentDevice" => "poll" \notin Elems(todo)  BY <1>2
<1>7. Course  BY <1>1, <1>2, <1>5, <1>6 DEF Course, Waiting
<1>8. AllStopped  BY <1>1 DEF AllStopped
<1>9. Observed  BY <1>1, <1>3 DEF Observed
<1>10. Handover  BY <1>1, <1>3 DEF Handover
<1> QED  BY <1>4, <1>7, <1>8, <1>9, <1>10 DEF SessionInv

LEMMA StepInv == SessionInv /\ [SessionNext]_sessionVars => SessionInv'
<1> SUFFICES ASSUME SessionInv, [SessionNext]_sessionVars PROVE SessionInv'  OBVIOUS
<1>1. CASE Session
  BY <1>1, StartupGoesOnStep, StartupFailsStep, WaitSteps, SleepEndsStep, FinallySteps
  DEF Session
<1>2. CASE Polling
  BY <1>2, ArgentSteps, AgentDeviceSteps DEF Polling
<1>3. CASE Environment
  BY <1>3, WaitSteps, EnvironmentSteps DEF Environment
<1>4. CASE UNCHANGED sessionVars
  <2>1. UNCHANGED function /\ UNCHANGED <<uploader, art, crashed, unlisted>>
    BY <1>4 DEF sessionVars, function
  <2>2. Course' /\ AllStopped' /\ Observed'  BY <2>1, SameFunction
  <2>3. SessionTypeOK'  BY <2>1 DEF SessionInv, SessionTypeOK, function, wait, uploader
  <2>4. Handover'  BY <2>1 DEF SessionInv, Handover, function, wait, uploader, Startup
  <2> QED  BY <2>2, <2>3, <2>4 DEF SessionInv
<1> QED  BY <1>1, <1>2, <1>3, <1>4 DEF SessionNext

LEMMA Invariance == SessionSpec => []SessionInv
BY InitInv, StepInv, PTL DEF SessionSpec

\* Every variable keeps its shape, and the poller of agent-device is uploading
\* just as long as there is something in its batch.
THEOREM SessionTypeCorrect == SessionSpec => []SessionTypeOK
<1>1. SessionInv => SessionTypeOK  BY DEF SessionInv
<1> QED  BY <1>1, Invariance, PTL

\* Whichever function it is and wherever it fails, times out or is aborted, a
\* session over that came as far as its try holds nothing any more: all that
\* the start acquires is in the list of the finally, which stops at nothing but
\* a directory of Appium's that does not go; its preview and tunnel are stopped
\* even then.  Appium that does not get ready leaves its directory at most.
THEOREM LeavesNothingRunning == SessionSpec => []NothingLeftRunning
<1>1. SessionInv => NothingLeftRunning  BY DEF SessionInv, AllStopped, NothingLeftRunning, Kept
<1> QED  BY <1>1, Invariance, PTL

\* The poller of Argent, told to stop by the finally, lists once more and waits
\* for its uploads, so that no file offered before is left behind; and its
\* rejection always meets the finally, unless the step had timed out.
THEOREM DrainsArtifacts == SessionSpec => []ArtifactsDrained
<1>1. SessionInv => QueueDrained  BY DEF SessionInv, Handover, QueueDrained
<1>2. SessionInv => WorkerSurvives  BY DEF SessionInv, Handover, WorkerSurvives
<1>3. SessionInv => ArtifactsDrained  BY <1>1, <1>2 DEF ArtifactsDrained
<1> QED  BY <1>3, Invariance, PTL

\* Only the top of the loop stops for lack of activity; the last event is as old as
\* what it looks at, unless one is unseen.
LEMMA IdleStep ==
  ASSUME SessionInv, [SessionNext]_sessionVars, how' = "idle", how # "idle"
  PROVE  collector # "disabled" /\ (quiet' > IdleLimit \/ unseen' > 0)
<1>1. SleepEnds
  <2>1. ~ StartupGoesOn
    <3> SUFFICES ASSUME StartupGoesOn PROVE FALSE  OBVIOUS
    <3>1. CASE Tail(todo) # <<>>  BY <3>1 DEF StartupGoesOn
    <3>2. CASE Tail(todo) = <<>> /\ pc = "unguarded"  BY <3>2 DEF StartupGoesOn
    <3>3. CASE Tail(todo) = <<>> /\ pc = "guarded"
      <4>1. BeginWait  BY <3>3 DEF StartupGoesOn
      <4> QED  BY <4>1 DEF BeginWait, EnterFinally
    <3> QED  BY <3>1, <3>2, <3>3 DEF StartupGoesOn, Startup
  <2>2. ~ StartupFails
    <3> SUFFICES ASSUME StartupFails PROVE FALSE  OBVIOUS
    <3>1. CASE pc = "unguarded"  BY <3>1 DEF StartupFails, Over
    <3>2. CASE pc = "guarded"  BY <3>2 DEF StartupFails, EnterFinally
    <3> QED  BY <3>1, <3>2 DEF StartupFails, Startup
  <2>3. ~ QueryAnswered  BY DEF QueryAnswered, EnterFinally, SessionInv, SessionTypeOK
  <2>4. ~ EnsureStopped  BY DEF EnsureStopped, SessionInv, Course
  <2>5. ~ Stop /\ ~ AwaitPoll  BY DEF Stop, AwaitPoll, GoOnWithFinally, Over
  <2>6. ~ Polling
    BY DEF Polling, ListArgent, PollerWakes, DrainArgent, UploadsTimeOut, ListAgentDevice,
           UploadEnds, UploadNext, function
  <2>7. ~ QueryFails /\ ~ UNCHANGED sessionVars  BY DEF QueryFails, sessionVars
  <2>8. ~ Environment
    BY DEF Environment, TimeOut, ServerEnds, Overdue, Act, Collect, Offer, function
  <2> QED  BY <2>1, <2>2, <2>3, <2>4, <2>5, <2>6, <2>7, <2>8 DEF SessionNext, Session
<1>2. LoopTop  BY <1>1 DEF SleepEnds
<1>3. ~Aborted  BY <1>2 DEF LoopTop, EnterFinally
<1>4. /\ age' = Older(age) /\ quiet' = Older(quiet) /\ unseen' = unseen
      /\ IdledOut(age')
  BY <1>2, <1>3 DEF LoopTop
<1>5. collector # "disabled" /\ age' > IdleLimit  BY <1>4 DEF IdledOut
<1>6. CASE unseen = 0
  <2>1. age' <= quiet' /\ age' \in Nat /\ quiet' \in Nat
    BY <1>4, <1>6, OlderIs, SessionAssumption DEF SessionInv, Observed
  <2> QED  BY <1>5, <2>1, SessionAssumption
<1>7. CASE unseen # 0
  BY <1>4, <1>5, <1>7 DEF SessionInv, SessionTypeOK
<1> QED  BY <1>6, <1>7

\* The wait, whose collector is a poller of its own, stops for lack of activity only
\* IdleLimit polls after the last event, or while there is an event that the collector
\* has not observed: one that it has observed starts the time anew, in whatever order
\* events, passes and looks at the clock come.  A collection that could not be set up
\* never makes it stop.
THEOREM IdlesOnlyQuiet == SessionSpec => IdleOnlyWhenQuiet
<1> QED  BY IdleStep, Invariance, PTL DEF SessionSpec, IdleOnlyWhenQuiet

-----------------------------------------------------------------------------
(* The function ends: only its wait goes round.                             *)

\* Where the function stands.
CourseRank(p) ==
  CASE p = "unguarded" -> 1 [] p = "guarded" -> 2 [] p \in {"query", "sleep"} -> 3
    [] p = "ensure" -> 4 [] p = "finally" -> 5 [] OTHER -> 6

\* It gets on to a later part, or in a part to the next thing to start or to
\* stop, of which there are fewer each time; the wait starts and stops nothing.
FunctionForward ==
  /\ \/ CourseRank(pc') > CourseRank(pc)
     \/ Startup /\ pc' = pc /\ todo # <<>> /\ todo' = Tail(todo)
     \/ {pc, pc'} \subseteq {"query", "sleep"}
     \/ /\ pc = "finally" /\ UNCHANGED <<pc, todo>>
        /\ First(held) \in held /\ held' = held \ {First(held)}
  /\ Waiting => UNCHANGED held

\* Every step of the function gets it on, and the others leave it where it is.
LEMMA StepForward ==
  SessionInv /\ [SessionNext]_sessionVars => [FunctionForward]_<<pc, todo, held>>
<1> SUFFICES ASSUME SessionInv, [SessionNext]_sessionVars, ~UNCHANGED <<pc, todo, held>>
             PROVE  FunctionForward
  OBVIOUS
<1>1. CASE StartupGoesOn
  <2>1. Startup /\ ~Waiting /\ todo # <<>>
    BY <1>1 DEF StartupGoesOn, Startup, Waiting, SessionInv, Course
  <2>2. CASE Tail(todo) # <<>>
    BY <1>1, <2>1, <2>2 DEF StartupGoesOn, FunctionForward
  <2>3. CASE Tail(todo) = <<>> /\ pc = "unguarded"
    <3>1. pc' = "guarded"  BY <1>1, <2>3 DEF StartupGoesOn
    <3> QED  BY <2>1, <2>3, <3>1 DEF FunctionForward, CourseRank
  <2>4. CASE Tail(todo) = <<>> /\ pc = "guarded"
    <3>1. BeginWait  BY <1>1, <2>4 DEF StartupGoesOn
    <3>2. pc' \in {"query", "finally"}  BY <3>1 DEF BeginWait, EnterFinally
    <3> QED  BY <2>1, <2>4, <3>2 DEF FunctionForward, CourseRank
  <2> QED  BY <2>1, <2>2, <2>3, <2>4 DEF Startup
<1>2. CASE StartupFails
  <2>1. pc \in {"unguarded", "guarded"} /\ pc' \in {"over", "finally"}
    BY <1>2 DEF StartupFails, Startup, Over, EnterFinally
  <2> QED  BY <2>1 DEF FunctionForward, CourseRank, Waiting
<1>3. CASE QueryAnswered
  <2>1. pc = "query" /\ pc' \in {"sleep", "finally"} /\ held' = held
    BY <1>3 DEF QueryAnswered, EnterFinally, SessionInv, SessionTypeOK
  <2> QED  BY <2>1 DEF FunctionForward, CourseRank
<1>4. CASE QueryFails
  BY <1>4 DEF QueryFails, FunctionForward
<1>5. CASE SleepEnds
  <2>1. pc = "sleep" /\ pc' \in {"query", "ensure", "finally"} /\ held' = held
    BY <1>5 DEF SleepEnds, LoopTop, EnterFinally
  <2> QED  BY <2>1 DEF FunctionForward, CourseRank
<1>6. CASE EnsureStopped
  BY <1>6 DEF EnsureStopped, EnterFinally, FunctionForward, CourseRank
<1>7. CASE Stop \/ AwaitPoll
  <2>1. /\ pc = "finally" /\ todo' = todo
        /\ pc' = "over" \/ (pc' = "finally" /\ held' = held \ {First(held)})
    BY <1>7 DEF Stop, AwaitPoll, GoOnWithFinally, Over
  <2>2. First(held) \in held
    BY <2>1, FirstIs, SessionAssumption DEF SessionInv, SessionTypeOK, Course
  <2> QED  BY <2>1, <2>2 DEF FunctionForward, CourseRank, Waiting
<1>8. ~Polling
  BY DEF Polling, ListArgent, PollerWakes, DrainArgent, UploadsTimeOut, ListAgentDevice,
         UploadEnds, UploadNext, function
<1>9. ~Environment /\ ~UNCHANGED sessionVars
  BY DEF Environment, TimeOut, ServerEnds, Overdue, Act, Collect, Offer, function,
         sessionVars
<1> QED
  BY <1>1, <1>2, <1>3, <1>4, <1>5, <1>6, <1>7, <1>8, <1>9 DEF SessionNext, Session

\* A function starts each thing of its lists once and stops each thing it holds
\* once: the rounds of its wait for the session's end are all that it may repeat,
\* and they neither start nor stop anything.  The finally always finds something
\* of what is left to stop, so that it is through after finitely many steps.
THEOREM OnlyWaitRepeats == SessionSpec => [][FunctionForward]_<<pc, todo, held>>
<1> QED  BY StepForward, Invariance, PTL DEF SessionSpec

=============================================================================
