--------------------------- MODULE HttpLogProofs ---------------------------
(***************************************************************************)
(* Proofs about HttpLog: it keeps its type, accounts for every entry it took *)
(* and sends them in order, for any number of entries, retries and calls of  *)
(* cleanUp.                                                                 *)
(*                                                                          *)
(* The invariant keeps the batch before the buffer, both in order, and says  *)
(* that an entry waiting to be sent was received already or comes after all  *)
(* that were (Fresh): a batch whose request timed out may be on either side. *)
(***************************************************************************)
EXTENDS HttpLog, SequenceTheorems, TLAPS

Below(S, T) == \A x \in S, y \in T : x < y

Queue(a, b) ==
  /\ a \in Seq(Entries) /\ b \in Seq(Entries)
  /\ Increasing(a) /\ Increasing(b) /\ Below(Elements(a), Elements(b))

Waiting == Elements(batch) \cup Elements(buffer)

Fresh == \A e \in Waiting : e \notin received => \A r \in received : r < e

AllThere == 1..written = Waiting \cup received \cup trimmed \cup abandoned

Causes ==
  /\ Retention \/ (trimmed = {} /\ expired = 0)
  /\ writable => /\ abandoned = {}
                 /\ \A i \in 1..Len(waiters) : waiters[i] = "loop"
                 /\ \A i \in 1..Len(resumed) : resumed[i] = "loop"

IInv == TypeOK /\ Queue(batch, buffer) /\ Fresh /\ AllThere /\ Causes

-----------------------------------------------------------------------------
(* Cutting and joining increasing sequences.                               *)

\* What is left of a sequence after its first k elements.
LEMMA Cut ==
  ASSUME NEW s \in Seq(Entries), Increasing(s), NEW k \in 0..Len(s)
  PROVE  LET t == SubSeq(s, k + 1, Len(s))
             S == {s[i] : i \in 1..k}
         IN  /\ t \in Seq(Entries) /\ Increasing(t)
             /\ Len(t) = Len(s) - k
             /\ Elements(s) = S \cup Elements(t)
             /\ S \subseteq Entries
<1> DEFINE n == Len(s)
           t == SubSeq(s, k + 1, Len(s))
           S == {s[i] : i \in 1..k}
<1>1. n \in Nat /\ k \in Nat /\ k <= n /\ \A i \in 1..n : s[i] \in Entries
  OBVIOUS
<1>2. \A i \in k + 1 .. n : s[i] \in Entries  BY <1>1
<1>3. t \in Seq(Entries) /\ Len(t) = n - k
      /\ \A i \in 1 .. n - k : t[i] = s[k + i]
  <2>1. /\ t \in Seq(Entries)
        /\ Len(t) = (IF k + 1 <= n THEN n - (k + 1) + 1 ELSE 0)
        /\ \A i \in 1 .. n - (k + 1) + 1 : t[i] = s[(k + 1) + i - 1]
    BY <1>1, <1>2, SubSeqProperties
  <2> HIDE DEF t
  <2> QED  BY <1>1, <2>1
<1> HIDE DEF t
<1>4. Increasing(t)
  <2> SUFFICES ASSUME NEW i \in 1..Len(t), NEW j \in 1..Len(t), i < j
               PROVE  t[i] < t[j]
    BY DEF Increasing
  <2>1. k + i \in 1..n /\ k + j \in 1..n /\ k + i < k + j  BY <1>1, <1>3
  <2>2. s[k + i] < s[k + j]  BY <2>1 DEF Increasing
  <2> QED  BY <1>3, <2>2
<1>5. Elements(s) = S \cup Elements(t)
  <2>1. ASSUME NEW i \in 1..n PROVE s[i] \in S \cup Elements(t)
    <3>1. CASE i <= k
      <4>1. i \in 1..k  BY <1>1, <3>1
      <4> QED  BY <4>1
    <3>2. CASE ~(i <= k)
      <4>1. i - k \in 1..Len(t) /\ k + (i - k) = i  BY <1>1, <1>3, <3>2
      <4>2. t[i - k] = s[k + (i - k)]  BY <1>3, <4>1
      <4> QED  BY <4>1, <4>2 DEF Elements
    <3> QED  BY <3>1, <3>2
  <2>2. ASSUME NEW i \in 1..Len(t) PROVE t[i] \in Elements(s)
    <3>1. k + i \in 1..n  BY <1>1, <1>3
    <3> QED  BY <1>3, <3>1 DEF Elements
  <2>3. \A i \in 1..k : s[i] \in Elements(s)  BY <1>1 DEF Elements
  <2> QED  BY <2>1, <2>2, <2>3 DEF Elements
<1>6. S \subseteq Entries  BY <1>1
<1> QED  BY <1>3, <1>4, <1>5, <1>6 DEF t

\* The first n elements and the rest.
LEMMA Split ==
  ASSUME NEW s \in Seq(Entries), Increasing(s), NEW n \in 1..Len(s)
  PROVE  LET a == SubSeq(s, 1, n)
             b == SubSeq(s, n + 1, Len(s))
         IN  /\ Queue(a, b) /\ a # <<>>
             /\ Elements(s) = Elements(a) \cup Elements(b)
<1> DEFINE a == SubSeq(s, 1, n)
           b == SubSeq(s, n + 1, Len(s))
<1>1. n \in Nat /\ n <= Len(s) /\ Len(s) \in Nat
      /\ \A i \in 1..n : s[i] \in Entries
  OBVIOUS
<1>2. a \in Seq(Entries) /\ Len(a) = n /\ \A i \in 1..n : a[i] = s[i]
  <2>1. /\ a \in Seq(Entries)
        /\ Len(a) = (IF 1 <= n THEN n - 1 + 1 ELSE 0)
        /\ \A i \in 1 .. n - 1 + 1 : a[i] = s[1 + i - 1]
    BY <1>1, SubSeqProperties
  <2> HIDE DEF a
  <2> QED  BY <1>1, <2>1
<1>3. /\ b \in Seq(Entries) /\ Increasing(b)
      /\ Elements(s) = {s[i] : i \in 1..n} \cup Elements(b)
  BY <1>1, Cut
<1>4. ASSUME NEW j \in 1..Len(b)
      PROVE  n + j \in 1..Len(s) /\ b[j] = s[n + j]
  <2>1. \A i \in n + 1 .. Len(s) : s[i] \in Entries  BY <1>1
  <2>2. /\ Len(b) = (IF n + 1 <= Len(s) THEN Len(s) - (n + 1) + 1 ELSE 0)
        /\ \A i \in 1 .. Len(s) - (n + 1) + 1 : b[i] = s[(n + 1) + i - 1]
    BY <1>1, <2>1, SubSeqProperties
  <2> HIDE DEF b
  <2> QED  BY <1>1, <2>2
<1> HIDE DEF a, b
<1>5. Elements(a) = {s[i] : i \in 1..n}  BY <1>2 DEF Elements
<1>6. Increasing(a)  BY <1>1, <1>2 DEF Increasing
<1>7. Below(Elements(a), Elements(b))
  <2> SUFFICES ASSUME NEW i \in 1..n, NEW j \in 1..Len(b) PROVE a[i] < b[j]
    BY <1>2 DEF Below, Elements
  <2>1. i \in 1..Len(s) /\ n + j \in 1..Len(s) /\ i < n + j  BY <1>1, <1>4
  <2>2. s[i] < s[n + j]  BY <2>1 DEF Increasing
  <2> QED  BY <1>2, <1>4, <2>2
<1>8. a # <<>>  BY <1>1, <1>2
<1> QED  BY <1>2, <1>3, <1>5, <1>6, <1>7, <1>8 DEF Queue, a, b

\* A later element at the end.
LEMMA Longer ==
  ASSUME NEW s \in Seq(Entries), Increasing(s), NEW e \in Entries,
         \A x \in Elements(s) : x < e
  PROVE  /\ Append(s, e) \in Seq(Entries) /\ Increasing(Append(s, e))
         /\ Elements(Append(s, e)) = Elements(s) \cup {e}
         /\ Append(s, e) # <<>>
<1> DEFINE t == Append(s, e)
           n == Len(s)
<1>1. /\ t \in Seq(Entries) /\ Len(t) = n + 1 /\ n \in Nat
      /\ \A i \in 1..n : t[i] = s[i]
      /\ t[n + 1] = e
  BY AppendProperties
<1> HIDE DEF t
<1>2. \A i \in 1..n : s[i] < e  BY DEF Elements
<1>3. Increasing(t)
  <2> SUFFICES ASSUME NEW i \in 1 .. n + 1, NEW j \in 1 .. n + 1, i < j
               PROVE  t[i] < t[j]
    BY <1>1 DEF Increasing
  <2>1. i \in 1..n  BY <1>1
  <2>2. CASE j \in 1..n  BY <1>1, <2>1, <2>2 DEF Increasing
  <2>3. CASE j = n + 1  BY <1>1, <1>2, <2>1, <2>3
  <2> QED  BY <1>1, <2>2, <2>3
<1>4. Elements(t) = Elements(s) \cup {e}
  <2>1. 1 .. n + 1 = 1..n \cup {n + 1}  BY <1>1
  <2> QED  BY <1>1, <2>1 DEF Elements
<1>5. t # <<>>  BY <1>1
<1> QED  BY <1>1, <1>3, <1>4, <1>5 DEF t

\* A batch in front of the buffer.
LEMMA Join ==
  ASSUME NEW a, NEW b, Queue(a, b)
  PROVE  /\ a \o b \in Seq(Entries) /\ Increasing(a \o b)
         /\ Elements(a \o b) = Elements(a) \cup Elements(b)
<1> DEFINE c == a \o b
           m == Len(a)
           n == Len(b)
<1>1. a \in Seq(Entries) /\ b \in Seq(Entries) /\ m \in Nat /\ n \in Nat
  BY DEF Queue
<1>2. /\ c \in Seq(Entries) /\ Len(c) = m + n
      /\ \A i \in 1 .. m + n : c[i] = IF i <= m THEN a[i] ELSE b[i - m]
  BY <1>1, ConcatProperties
<1> HIDE DEF c
<1>3. \A i \in 1 .. m + n : i <= m => i \in 1..m /\ c[i] = a[i]
  BY <1>1, <1>2
<1>4. \A i \in 1 .. m + n : ~(i <= m) => i - m \in 1..n /\ c[i] = b[i - m]
  BY <1>1, <1>2
<1>5. Increasing(c)
  <2> SUFFICES ASSUME NEW i \in 1 .. m + n, NEW j \in 1 .. m + n, i < j
               PROVE  c[i] < c[j]
    BY <1>2 DEF Increasing
  <2>1. CASE j <= m
    <3>1. i <= m  BY <1>1, <2>1
    <3> QED  BY <1>3, <2>1, <3>1 DEF Queue, Increasing
  <2>2. CASE i <= m /\ ~(j <= m)
    <3>1. c[i] \in Elements(a) /\ c[j] \in Elements(b)
      BY <1>3, <1>4, <2>2 DEF Elements
    <3> QED  BY <3>1 DEF Queue, Below
  <2>3. CASE ~(i <= m)
    <3>1. ~(j <= m) /\ i - m < j - m  BY <1>1, <2>3
    <3>2. i - m \in 1..n /\ c[i] = b[i - m] /\ j - m \in 1..n /\ c[j] = b[j - m]
      BY <1>4, <2>3, <3>1
    <3> QED  BY <3>1, <3>2 DEF Queue, Increasing
  <2> QED  BY <2>1, <2>2, <2>3
<1>6. Elements(c) = Elements(a) \cup Elements(b)
  <2>1. ASSUME NEW i \in 1 .. m + n PROVE c[i] \in Elements(a) \cup Elements(b)
    BY <1>3, <1>4 DEF Elements
  <2>2. ASSUME NEW i \in 1..m PROVE a[i] \in Elements(c)
    <3>1. i \in 1 .. m + n /\ i <= m  BY <1>1
    <3> QED  BY <1>2, <1>3, <3>1 DEF Elements
  <2>3. ASSUME NEW i \in 1..n PROVE b[i] \in Elements(c)
    <3>1. m + i \in 1 .. m + n /\ ~(m + i <= m) /\ (m + i) - m = i  BY <1>1
    <3>2. c[m + i] = b[(m + i) - m]  BY <1>4, <3>1
    <3>3. c[m + i] = b[i]  BY <3>1, <3>2
    <3> QED  BY <1>2, <3>1, <3>3 DEF Elements
  <2> QED  BY <1>2, <2>1, <2>2, <2>3 DEF Elements
<1> QED  BY <1>2, <1>5, <1>6 DEF c

-----------------------------------------------------------------------------
(* What the operations do to the queue.                                    *)

\* The state of the stream without the parts a flush touches.
Rest ==
  /\ written \in 0..MaxEntries /\ expired \in 0..written
  /\ Retention \/ (trimmed = {} /\ expired = 0)
  /\ trimmed \subseteq Entries
  /\ cleaner \in [Cleaners -> {"idle", "wait", "done"}]

\* Trimming keeps the order, and accounts for what it drops.
LEMMA Trimming ==
  ASSUME Rest, NEW buf \in Seq(Entries), Increasing(buf),
         NEW k \in 0..Len(buf), Trims(buf, k),
         trimmed' = trimmed \cup {buf[i] : i \in 1..k}
  PROVE  LET rest == SubSeq(buf, k + 1, Len(buf))
         IN  /\ rest \in Seq(Entries) /\ Increasing(rest)
             /\ Elements(buf) \cup trimmed = Elements(rest) \cup trimmed'
             /\ Elements(rest) \subseteq Elements(buf)
             /\ trimmed' \subseteq Entries
             /\ Retention \/ trimmed' = {}
<1> DEFINE rest == SubSeq(buf, k + 1, Len(buf))
           S == {buf[i] : i \in 1..k}
<1>1. /\ rest \in Seq(Entries) /\ Increasing(rest)
      /\ Elements(buf) = S \cup Elements(rest) /\ S \subseteq Entries
  BY Cut
<1>2. ASSUME ~Retention PROVE trimmed' = {}
  <2>1. trimmed = {} /\ expired = 0  BY <1>2 DEF Rest
  <2>2. \A i \in 1..k : i \in 1..Len(buf)  OBVIOUS
  <2>3. \A i \in 1..k : buf[i] \in Nat /\ buf[i] > 0
    <3>1. \A i \in 1..k : buf[i] \in Entries  BY <2>2, ElementOfSeq
    <3> QED  BY <3>1, HttpLogAssumption DEF Entries
  <2>4. \A i \in 1..k : buf[i] <= 0  BY <2>1 DEF Trims
  <2>5. \A i \in 1..k : FALSE  BY <2>3, <2>4
  <2> QED  BY <2>1, <2>5
<1> HIDE DEF rest
<1>3. trimmed' = trimmed \cup S  OBVIOUS
<1> HIDE DEF S
<1> QED
  <2>1. trimmed' \subseteq Entries  BY <1>1, <1>3 DEF Rest
  <2>2. Elements(buf) \cup trimmed = Elements(rest) \cup trimmed'
    BY <1>1, <1>3
  <2>3. Elements(rest) \subseteq Elements(buf)  BY <1>1
  <2> QED  BY <1>1, <1>2, <2>1, <2>2, <2>3 DEF rest

\* A flush with no request in flight.
LEMMA Flushing ==
  ASSUME Rest, NEW buf \in Seq(Entries), Increasing(buf),
         NEW who \in Cleaners \cup {"loop"}, batch = <<>>, waiters = <<>>,
         attempt \in 0..Retries, Flush(buf, who)
  PROVE  /\ Queue(batch', buffer')
         /\ Elements(buf) \cup trimmed
              = Elements(batch') \cup Elements(buffer') \cup trimmed'
         /\ Elements(batch') \cup Elements(buffer') \subseteq Elements(buf)
         /\ trimmed' \subseteq Entries /\ (Retention \/ trimmed' = {})
         /\ cleaner' \in [Cleaners -> {"idle", "wait", "done"}]
         /\ attempt' \in 0..Retries
         /\ \/ batch' = <<>> /\ waiters' = <<>>
            \/ batch' # <<>> /\ waiters' = <<who>>
<1>1. PICK k \in 0..Len(buf) :
        LET rest == SubSeq(buf, k + 1, Len(buf))
            Turn(s) == cleaner' = [c \in Cleaners |-> IF c = who THEN s ELSE cleaner[c]]
        IN  /\ Trims(buf, k)
            /\ trimmed' = trimmed \cup {buf[i] : i \in 1..k}
            /\ \/ rest = <<>> /\ buffer' = <<>> /\ Turn("done") /\ UNCHANGED request
               \/ rest # <<>> /\ StartBatch(rest, who) /\ Turn("wait")
  BY DEF Flush
<1> DEFINE rest == SubSeq(buf, k + 1, Len(buf))
<1>2. /\ rest \in Seq(Entries) /\ Increasing(rest)
      /\ Elements(buf) \cup trimmed = Elements(rest) \cup trimmed'
      /\ Elements(rest) \subseteq Elements(buf)
      /\ trimmed' \subseteq Entries /\ (Retention \/ trimmed' = {})
  BY <1>1, Trimming
<1>3. cleaner' \in [Cleaners -> {"idle", "wait", "done"}]
  BY <1>1 DEF Rest
<1>4. \/ rest = <<>> /\ buffer' = <<>> /\ UNCHANGED request
      \/ StartBatch(rest, who)
  BY <1>1
<1> HIDE DEF rest
<1>5. CASE rest = <<>> /\ buffer' = <<>> /\ UNCHANGED request
  <2>1. batch' = <<>> /\ waiters' = <<>> /\ attempt' \in 0..Retries
    BY <1>5 DEF request
  <2>2. Elements(<<>>) = {} /\ Increasing(<<>>) /\ <<>> \in Seq(Entries)
    BY DEF Elements, Increasing
  <2>3. Queue(batch', buffer')  BY <1>5, <2>1, <2>2 DEF Queue, Below
  <2> QED  BY <1>2, <1>3, <1>5, <2>1, <2>2, <2>3
<1>6. CASE StartBatch(rest, who)
  <2>1. PICK n \in 1..Len(rest) :
          /\ batch' = SubSeq(rest, 1, n)
          /\ buffer' = SubSeq(rest, n + 1, Len(rest))
          /\ attempt' = 0 /\ waiters' = <<who>>
    BY <1>6 DEF StartBatch
  <2>2. /\ Queue(batch', buffer') /\ batch' # <<>>
        /\ Elements(rest) = Elements(batch') \cup Elements(buffer')
    BY <1>2, <2>1, Split
  <2>3. attempt' \in 0..Retries  BY <2>1, HttpLogAssumption
  <2> QED  BY <1>2, <1>3, <2>1, <2>2, <2>3
<1> QED  BY <1>4, <1>5, <1>6

\* The facts about the queue that a step has to establish again.
LEMMA Facts ==
  ASSUME IInv
  PROVE  /\ Rest
         /\ buffer \in Seq(Entries) /\ Increasing(buffer)
         /\ batch \in Seq(Entries) /\ Increasing(batch)
         /\ written \in Nat /\ Waiting \subseteq 1..written
         /\ received \subseteq 1..written
BY DEF IInv, TypeOK, Queue, Rest, Causes, AllThere

\* Nothing new is sent: what waits is among what waited.
LEMMA StillFresh ==
  ASSUME Fresh, Waiting' \subseteq Waiting, received' = received
  PROVE  Fresh'
BY DEF Fresh

LEMMA WriteInv ==
  ASSUME IInv, Write
  PROVE  IInv'
<1> DEFINE e == written + 1
<1>1. /\ Rest /\ buffer \in Seq(Entries) /\ Increasing(buffer)
      /\ batch \in Seq(Entries) /\ Increasing(batch)
      /\ Waiting \subseteq 1..written /\ received \subseteq 1..written
  BY Facts
<1>2. /\ e \in Entries /\ written' = e /\ written' \in 0..MaxEntries
      /\ expired' \in 0..written' /\ 1..written' = 1..written \cup {e}
      /\ \A x \in 1..written : x < e
      /\ UNCHANGED <<writable, resumed, expired, received, abandoned, atCleanUp>>
  BY HttpLogAssumption, <1>1, SMTT(30) DEF Write, Rest, Entries
<1> HIDE DEF e
<1>3. /\ Queue(batch', buffer')
      /\ Waiting' \cup trimmed' = Waiting \cup {e} \cup trimmed
      /\ Waiting' \subseteq Waiting \cup {e}
      /\ trimmed' \subseteq Entries /\ (Retention \/ trimmed' = {})
      /\ cleaner' \in [Cleaners -> {"idle", "wait", "done"}]
      /\ attempt' \in 0..Retries
      /\ \/ UNCHANGED <<batch, waiters>>
         \/ batch' = <<>> /\ waiters' = <<>>
         \/ batch' # <<>> /\ waiters' = <<"loop">>
  <2>1. CASE ~InFlight /\ Flush(Append(buffer, e), "loop")
    <3> DEFINE buf == Append(buffer, e)
    <3>1. \A x \in Elements(buffer) : x < e  BY <1>1, <1>2 DEF Waiting
    <3>2. /\ buf \in Seq(Entries) /\ Increasing(buf)
          /\ Elements(buf) = Elements(buffer) \cup {e}
      BY <1>1, <1>2, <3>1, Longer
    <3>3. batch = <<>> /\ waiters = <<>> /\ Elements(batch) = {}
          /\ attempt \in 0..Retries
      BY <2>1 DEF InFlight, IInv, TypeOK, Elements
    <3> HIDE DEF buf
    <3>4. Flush(buf, "loop")  BY <2>1 DEF buf
    <3>5. /\ Queue(batch', buffer')
          /\ Elements(buf) \cup trimmed
               = Elements(batch') \cup Elements(buffer') \cup trimmed'
          /\ Elements(batch') \cup Elements(buffer') \subseteq Elements(buf)
          /\ trimmed' \subseteq Entries /\ (Retention \/ trimmed' = {})
          /\ cleaner' \in [Cleaners -> {"idle", "wait", "done"}]
          /\ attempt' \in 0..Retries
          /\ \/ batch' = <<>> /\ waiters' = <<>>
             \/ batch' # <<>> /\ waiters' = <<"loop">>
      BY <1>1, <3>2, <3>3, <3>4, Flushing
    <3>6. Waiting = Elements(buffer)
          /\ Waiting' = Elements(batch') \cup Elements(buffer')
      BY <3>3 DEF Waiting, Elements
    <3> QED  BY <3>2, <3>5, <3>6
  <2>2. CASE /\ InFlight
             /\ \E k \in 0..Len(buffer) :
                  /\ Trims(buffer, k)
                  /\ buffer' = Append(SubSeq(buffer, k + 1, Len(buffer)), e)
                  /\ trimmed' = trimmed \cup {buffer[i] : i \in 1..k}
             /\ UNCHANGED <<request, cleaner>>
    <3>1. PICK k \in 0..Len(buffer) :
            /\ Trims(buffer, k)
            /\ buffer' = Append(SubSeq(buffer, k + 1, Len(buffer)), e)
            /\ trimmed' = trimmed \cup {buffer[i] : i \in 1..k}
      BY <2>2
    <3> DEFINE rest == SubSeq(buffer, k + 1, Len(buffer))
    <3>2. /\ rest \in Seq(Entries) /\ Increasing(rest)
          /\ Elements(buffer) \cup trimmed = Elements(rest) \cup trimmed'
          /\ Elements(rest) \subseteq Elements(buffer)
          /\ trimmed' \subseteq Entries /\ (Retention \/ trimmed' = {})
      BY <1>1, <3>1, Trimming
    <3>3. buffer' = Append(rest, e)  BY <3>1
    <3> HIDE DEF rest
    <3>4. \A x \in Elements(rest) : x < e  BY <1>1, <1>2, <3>2 DEF Waiting
    <3>5. /\ buffer' \in Seq(Entries) /\ Increasing(buffer')
          /\ Elements(buffer') = Elements(rest) \cup {e}
      BY <1>2, <3>2, <3>3, <3>4, Longer
    <3>6. \A x \in Elements(batch) : x < e  BY <1>1, <1>2 DEF Waiting
    <3>7. Below(Elements(batch), Elements(buffer'))
      BY <3>2, <3>5, <3>6 DEF Below, IInv, Queue
    <3>8. UNCHANGED <<batch, attempt, waiters, cleaner>>  BY <2>2 DEF request
    <3>9. Queue(batch', buffer')  BY <1>1, <3>5, <3>7, <3>8 DEF Queue
    <3>10. Waiting = Elements(batch) \cup Elements(buffer)
           /\ Waiting' = Elements(batch) \cup Elements(buffer')
      BY <3>8 DEF Waiting, Elements
    <3>11. cleaner' \in [Cleaners -> {"idle", "wait", "done"}]
           /\ attempt' \in 0..Retries
      BY <3>8 DEF IInv, TypeOK
    <3> QED  BY <3>2, <3>5, <3>8, <3>9, <3>10, <3>11
  <2> QED  BY <2>1, <2>2 DEF Write, e
<1>4. TypeOK'
  <2>1. batch' \in Seq(Entries) /\ buffer' \in Seq(Entries)
    BY <1>3 DEF Queue
  <2>2. waiters' \in Seq(Cleaners \cup {"loop"})
        /\ (batch' # <<>> <=> waiters' # <<>>)
    <3>1. /\ <<"loop">> \in Seq(Cleaners \cup {"loop"}) /\ <<"loop">> # <<>>
          /\ <<>> \in Seq(Cleaners \cup {"loop"})
      OBVIOUS
    <3>2. CASE UNCHANGED <<batch, waiters>>  BY <3>2 DEF IInv, TypeOK
    <3>3. CASE batch' = <<>> /\ waiters' = <<>>  BY <3>1, <3>3
    <3>4. CASE batch' # <<>> /\ waiters' = <<"loop">>  BY <3>1, <3>4
    <3> QED  BY <1>3, <3>2, <3>3, <3>4
  <2> QED  BY <1>2, <1>3, <2>1, <2>2 DEF IInv, TypeOK
<1>5. Fresh'
  BY <1>1, <1>2, <1>3 DEF IInv, Fresh
<1>6. AllThere'
  <2>1. 1..written = Waiting \cup received \cup trimmed \cup abandoned
    BY DEF IInv, AllThere
  <2>2. 1..written' = Waiting' \cup received' \cup trimmed' \cup abandoned'
    BY <1>2, <1>3, <2>1
  <2> QED  BY <2>2 DEF AllThere
<1>7. Causes'
  <2>1. \A i \in 1..Len(waiters') : writable => waiters'[i] = "loop"
    BY <1>3 DEF IInv, Causes
  <2>2. Retention \/ (trimmed' = {} /\ expired' = 0)
    BY <1>2, <1>3 DEF IInv, Causes
  <2> QED  BY <1>2, <2>1, <2>2 DEF IInv, Causes
<1> QED  BY <1>3, <1>4, <1>5, <1>6, <1>7 DEF IInv

\* A flush by cleanUp, or by whom a settled request resumed: what is common to
\* the steps that move entries from the buffer to a request.
Moved(who) ==
  /\ Queue(batch', buffer')
  /\ Waiting' \cup trimmed' = Waiting \cup trimmed
  /\ Waiting' \subseteq Waiting
  /\ trimmed' \subseteq Entries /\ (Retention \/ trimmed' = {})
  /\ cleaner' \in [Cleaners -> {"idle", "wait", "done"}]
  /\ attempt' \in 0..Retries
  /\ \/ batch' = batch /\ waiters' = waiters
     \/ batch' = <<>> /\ waiters' = <<>>
     \/ batch' # <<>> /\ waiters' = <<who>>
     \/ batch' = batch /\ batch # <<>> /\ waiters' = Append(waiters, who)

LEMMA FlushMoves ==
  ASSUME IInv, NEW who \in Cleaners \cup {"loop"}, ~InFlight, Flush(buffer, who)
  PROVE  Moved(who)
<1>1. Rest /\ buffer \in Seq(Entries) /\ Increasing(buffer)  BY Facts
<1>2. batch = <<>> /\ waiters = <<>> /\ Elements(batch) = {}
      /\ attempt \in 0..Retries
  BY DEF InFlight, IInv, TypeOK, Elements
<1>3. Waiting = Elements(buffer)
      /\ Waiting' = Elements(batch') \cup Elements(buffer')
  BY <1>2 DEF Waiting, Elements
<1> QED  BY <1>1, <1>2, <1>3, Flushing DEF Moved

LEMMA CleanUpMoves ==
  ASSUME IInv, NEW c \in Cleaners, CleanUpFlush(c)
  PROVE  Moved(c)
<1>1. CASE ~InFlight /\ Flush(buffer, c)
  BY <1>1, FlushMoves
<1>2. CASE /\ InFlight
           /\ waiters' = Append(waiters, c)
           /\ cleaner' = [cleaner EXCEPT ![c] = "wait"]
           /\ UNCHANGED <<buffer, batch, attempt, trimmed>>
  <2>1. Waiting' = Waiting  BY <1>2 DEF Waiting, Elements
  <2>2. trimmed' \subseteq Entries /\ (Retention \/ trimmed' = {})
        /\ cleaner' \in [Cleaners -> {"idle", "wait", "done"}]
        /\ attempt' \in 0..Retries
    BY <1>2 DEF IInv, TypeOK, Causes
  <2>3. Queue(batch', buffer')  BY <1>2 DEF IInv
  <2> QED  BY <1>2, <2>1, <2>2, <2>3 DEF Moved, InFlight
<1> QED  BY <1>1, <1>2 DEF CleanUpFlush

\* Such a step keeps the invariant when it keeps writable or is a cleanUp's.
LEMMA MovedInv ==
  ASSUME IInv, NEW who \in Cleaners \cup {"loop"}, Moved(who),
         writable' => writable /\ who = "loop",
         writable' \in BOOLEAN, atCleanUp' \in 0..MaxEntries,
         resumed' \in Seq(Cleaners \cup {"loop"}),
         \A i \in 1..Len(resumed') : writable' => resumed'[i] = "loop",
         UNCHANGED <<expired, received, written, abandoned>>
  PROVE  IInv'
<1>1. waiters' \in Seq(Cleaners \cup {"loop"}) /\ (batch' # <<>> <=> waiters' # <<>>)
  <2>0. waiters \in Seq(Cleaners \cup {"loop"}) /\ (batch # <<>> <=> waiters # <<>>)
    BY DEF IInv, TypeOK
  <2>1. /\ <<who>> \in Seq(Cleaners \cup {"loop"}) /\ <<who>> # <<>>
        /\ <<>> \in Seq(Cleaners \cup {"loop"})
    OBVIOUS
  <2>2. /\ Append(waiters, who) \in Seq(Cleaners \cup {"loop"})
        /\ Append(waiters, who) # <<>>
    BY <2>0, AppendProperties
  <2>3. CASE batch' = batch /\ waiters' = waiters  BY <2>0, <2>3
  <2>4. CASE batch' = <<>> /\ waiters' = <<>>  BY <2>1, <2>4
  <2>5. CASE batch' # <<>> /\ waiters' = <<who>>  BY <2>1, <2>5
  <2>6. CASE batch' = batch /\ batch # <<>> /\ waiters' = Append(waiters, who)
    BY <2>2, <2>6
  <2> QED  BY <2>3, <2>4, <2>5, <2>6 DEF Moved
<1>2. TypeOK'
  <2>1. batch' \in Seq(Entries) /\ buffer' \in Seq(Entries)
    BY DEF Queue, Moved
  <2> QED  BY <1>1, <2>1 DEF Moved, IInv, TypeOK
<1>3. Fresh'  BY StillFresh DEF Moved, IInv
<1>4. AllThere'
  <2>1. 1..written = Waiting \cup received \cup trimmed \cup abandoned
    BY DEF IInv, AllThere
  <2>2. 1..written' = Waiting' \cup received' \cup trimmed' \cup abandoned'
    BY <2>1 DEF Moved
  <2> QED  BY <2>2 DEF AllThere
<1>5. Causes'
  <2>1. ASSUME writable', NEW i \in 1..Len(waiters') PROVE waiters'[i] = "loop"
    <3>1. /\ writable /\ who = "loop" /\ waiters \in Seq(Cleaners \cup {"loop"})
          /\ \A j \in 1..Len(waiters) : waiters[j] = "loop"
      BY <2>1 DEF IInv, Causes, TypeOK
    <3>2. /\ Len(Append(waiters, who)) = Len(waiters) + 1
          /\ \A j \in 1..Len(waiters) : Append(waiters, who)[j] = waiters[j]
          /\ Append(waiters, who)[Len(waiters) + 1] = who
      BY <3>1, AppendProperties
    <3>3. \A j \in 1..Len(waiters) + 1 : j \in 1..Len(waiters) \/ j = Len(waiters) + 1
      BY <3>1
    <3>4. CASE waiters' = waiters  BY <3>1, <3>4
    <3>5. CASE waiters' = <<>>  BY <3>5
    <3>6. CASE waiters' = <<who>>  BY <3>1, <3>6
    <3>7. CASE waiters' = Append(waiters, who)  BY <3>1, <3>2, <3>3, <3>7
    <3> QED  BY <3>4, <3>5, <3>6, <3>7 DEF Moved
  <2>2. Retention \/ (trimmed' = {} /\ expired' = 0)
    BY DEF Moved, IInv, Causes
  <2>3. writable' => abandoned' = {}  BY DEF IInv, Causes
  <2> QED  BY <2>1, <2>2, <2>3 DEF Causes
<1> QED  BY <1>2, <1>3, <1>4, <1>5 DEF Moved, IInv

\* The rest of who was chained to a settled request.
LEMMA OneResumed ==
  ASSUME IInv, resumed # <<>>, resumed' = Tail(resumed)
  PROVE  /\ resumed' \in Seq(Cleaners \cup {"loop"})
         /\ \A i \in 1..Len(resumed') : writable => resumed'[i] = "loop"
         /\ writable => Head(resumed) = "loop"
<1>1. resumed \in Seq(Cleaners \cup {"loop"})  BY DEF IInv, TypeOK
<1>2. /\ Tail(resumed) \in Seq(Cleaners \cup {"loop"})
      /\ Len(Tail(resumed)) = Len(resumed) - 1
      /\ \A i \in 1..Len(Tail(resumed)) : Tail(resumed)[i] = resumed[i + 1]
  BY <1>1, HeadTailProperties
<1>3. Len(resumed) \in Nat /\ Len(resumed) > 0 /\ Head(resumed) = resumed[1]
  BY <1>1
<1>4. \A i \in 1..Len(Tail(resumed)) : i + 1 \in 1..Len(resumed)
  BY <1>2, <1>3
<1>5. writable => \A i \in 1..Len(resumed) : resumed[i] = "loop"
  BY DEF IInv, Causes
<1> QED  BY <1>2, <1>3, <1>4, <1>5

LEMMA UnmovedMoves ==
  ASSUME IInv, NEW who, UNCHANGED <<buffer, request, trimmed>>,
         cleaner' \in [Cleaners -> {"idle", "wait", "done"}]
  PROVE  Moved(who)
<1>1. UNCHANGED <<batch, attempt, waiters>>  BY DEF request
<1>2. Waiting' = Waiting  BY <1>1 DEF Waiting, Elements
<1>3. /\ trimmed' \subseteq Entries /\ (Retention \/ trimmed' = {})
      /\ attempt' \in 0..Retries
  BY <1>1 DEF IInv, TypeOK, Causes
<1>4. Queue(batch', buffer')  BY <1>1 DEF IInv
<1> QED  BY <1>1, <1>2, <1>3, <1>4 DEF Moved

LEMMA ResumeInv ==
  ASSUME IInv, RunLoop \/ \E c \in Cleaners : CleanUp(c) \/ RunCleaner(c)
  PROVE  IInv'
<1>1. ASSUME NEW c \in Cleaners, CleanUp(c) PROVE IInv'
  <2>1. /\ CleanUpFlush(c) /\ writable' = FALSE /\ atCleanUp' = written
        /\ UNCHANGED <<resumed, expired, received, written, abandoned>>
    BY <1>1 DEF CleanUp
  <2>2. /\ resumed' \in Seq(Cleaners \cup {"loop"})
        /\ atCleanUp' \in 0..MaxEntries /\ writable' \in BOOLEAN
    BY <2>1 DEF IInv, TypeOK
  <2>3. Moved(c)  BY <2>1, CleanUpMoves
  <2> QED  BY <2>1, <2>2, <2>3, MovedInv
<1>2. ASSUME NEW c \in Cleaners, RunCleaner(c) PROVE IInv'
  <2>1. /\ resumed # <<>> /\ Head(resumed) = c /\ resumed' = Tail(resumed)
        /\ UNCHANGED <<writable, expired, received, written, abandoned, atCleanUp>>
    BY <1>2 DEF RunCleaner
  <2>2. Moved(c)
    <3>1. CASE buffer # <<>>
      BY <1>2, <3>1, CleanUpMoves DEF RunCleaner
    <3>2. CASE buffer = <<>>
      <4>1. UNCHANGED <<buffer, request, trimmed>>
            /\ cleaner' \in [Cleaners -> {"idle", "wait", "done"}]
        BY <1>2, <3>2 DEF RunCleaner, IInv, TypeOK
      <4> QED  BY <4>1, UnmovedMoves
    <3> QED  BY <3>1, <3>2
  <2>3. c # "loop"  BY HttpLogAssumption
  <2>4. ~writable /\ resumed' \in Seq(Cleaners \cup {"loop"})
    BY <2>1, <2>3, OneResumed
  <2>5. writable' = FALSE /\ atCleanUp' \in 0..MaxEntries
    BY <2>1, <2>4 DEF IInv, TypeOK
  <2> QED  BY <2>1, <2>2, <2>4, <2>5, MovedInv
<1>3. CASE RunLoop
  <2>1. /\ resumed # <<>> /\ resumed' = Tail(resumed)
        /\ UNCHANGED <<writable, expired, received, written, abandoned, atCleanUp>>
    BY <1>3 DEF RunLoop
  <2>2. Moved("loop")
    <3>1. CASE writable /\ buffer # <<>> /\ ~InFlight
      BY <1>3, <3>1, FlushMoves DEF RunLoop
    <3>2. CASE UNCHANGED <<buffer, request, trimmed, cleaner>>
      <4>1. cleaner' \in [Cleaners -> {"idle", "wait", "done"}]
        BY <3>2 DEF IInv, TypeOK
      <4> QED  BY <3>2, <4>1, UnmovedMoves
    <3> QED  BY <1>3, <3>1, <3>2 DEF RunLoop
  <2>3. /\ resumed' \in Seq(Cleaners \cup {"loop"})
        /\ \A i \in 1..Len(resumed') : writable => resumed'[i] = "loop"
    BY <2>1, OneResumed
  <2>4. writable' \in BOOLEAN /\ atCleanUp' \in 0..MaxEntries
    BY <2>1 DEF IInv, TypeOK
  <2> QED  BY <2>1, <2>2, <2>3, <2>4, MovedInv
<1> QED  BY <1>1, <1>2, <1>3
LEMMA ExpireInv ==
  ASSUME IInv, Expire
  PROVE  IInv'
<1>1. /\ Retention /\ expired' = expired + 1 /\ expired < written
      /\ UNCHANGED <<writable, buffer, batch, attempt, waiters, resumed, cleaner,
                     received, written, trimmed, abandoned, atCleanUp>>
  BY DEF Expire, request, history
<1>2. expired' \in 0..written  BY <1>1 DEF IInv, TypeOK
<1>3. TypeOK'  BY <1>1, <1>2 DEF IInv, TypeOK
<1>4. Queue(batch', buffer')  BY <1>1 DEF IInv
<1>5. Waiting' = Waiting  BY <1>1 DEF Waiting, Elements
<1>6. Fresh' /\ AllThere'  BY <1>1, <1>5 DEF IInv, Fresh, AllThere
<1>7. Causes'  BY <1>1 DEF IInv, Causes
<1> QED  BY <1>3, <1>4, <1>6, <1>7 DEF IInv

\* What a request leaves when it is over: the buffer, or, when its batch is put
\* back, all that was waiting.
LEMMA SettleInv ==
  ASSUME IInv, Quiet, InFlight, Settle,
         received' \in {received, received \cup Elements(batch)},
         \/ /\ buffer' = buffer /\ abandoned' = abandoned
            /\ received' = received \cup Elements(batch)
         \/ buffer' = batch \o buffer /\ abandoned' = abandoned
         \/ /\ buffer' = buffer /\ abandoned' = abandoned \cup Elements(batch)
            /\ ~writable,
         UNCHANGED <<writable, cleaner, expired, written, trimmed, atCleanUp>>
  PROVE  IInv'
<1>1. /\ batch' = <<>> /\ attempt' = 0 /\ waiters' = <<>> /\ resumed' = waiters
  BY DEF Settle
<1>2. /\ buffer \in Seq(Entries) /\ Increasing(buffer) /\ Waiting \subseteq 1..written
      /\ Queue(batch, buffer)
  BY Facts DEF IInv
<1>3. /\ batch \o buffer \in Seq(Entries) /\ Increasing(batch \o buffer)
      /\ Elements(batch \o buffer) = Waiting
  BY <1>2, Join DEF Waiting
<1>4. Elements(<<>>) = {} /\ Increasing(<<>>) /\ <<>> \in Seq(Entries)
  BY DEF Elements, Increasing
<1>5. /\ buffer' \in Seq(Entries) /\ Increasing(buffer')
      /\ Waiting' = Elements(buffer')
      /\ Elements(buffer') \subseteq Waiting
  <2>1. Elements(batch') = {}  BY <1>1, <1>4
  <2>2. Waiting' = Elements(buffer')  BY <2>1 DEF Waiting, Elements
  <2>3. Elements(buffer) \subseteq Waiting  BY DEF Waiting
  <2> QED  BY <1>2, <1>3, <2>2, <2>3
<1>6. Queue(batch', buffer')  BY <1>1, <1>4, <1>5 DEF Queue, Below
<1>7. Elements(batch) \subseteq Entries
  <2>1. batch \in Seq(Entries)  BY <1>2 DEF Queue
  <2> QED  BY <2>1, ElementOfSeq DEF Elements
<1>8. TypeOK'
  <2>1. attempt' \in 0..Retries  BY <1>1, HttpLogAssumption
  <2>2. <<>> \in Seq(Cleaners \cup {"loop"})  OBVIOUS
  <2>3. received' \subseteq Entries /\ abandoned' \subseteq Entries
    BY <1>7 DEF IInv, TypeOK
  <2> QED  BY <1>1, <1>4, <1>5, <2>1, <2>2, <2>3 DEF IInv, TypeOK
<1>9. Fresh'
  <2> SUFFICES ASSUME NEW x \in Waiting', x \notin received', NEW r \in received'
               PROVE  r < x
    BY DEF Fresh
  <2>1. x \in Waiting /\ x \notin received  BY <1>5
  <2>2. CASE r \in received  BY <2>1, <2>2 DEF IInv, Fresh
  <2>3. CASE r \in Elements(batch) /\ received' = received \cup Elements(batch)
    <3>1. x \in Elements(buffer)  BY <2>1, <2>3 DEF Waiting
    <3> QED  BY <1>2, <2>3, <3>1 DEF Queue, Below
  <2> QED  BY <2>2, <2>3
<1>10. AllThere'
  <2>1. 1..written = Waiting \cup received \cup trimmed \cup abandoned
    BY DEF IInv, AllThere
  <2>2. Waiting = Elements(batch) \cup Elements(buffer)  BY DEF Waiting
  <2>3. CASE /\ buffer' = buffer /\ abandoned' = abandoned
             /\ received' = received \cup Elements(batch)
    <3>1. Waiting' = Elements(buffer)  BY <1>5, <2>3
    <3> QED  BY <2>1, <2>2, <2>3, <3>1 DEF AllThere
  <2>4. CASE buffer' = batch \o buffer /\ abandoned' = abandoned
    <3>1. Waiting' = Waiting  BY <1>3, <1>5, <2>4
    <3> QED  BY <2>1, <2>2, <2>4, <3>1 DEF AllThere
  <2>5. CASE buffer' = buffer /\ abandoned' = abandoned \cup Elements(batch)
    <3>1. Waiting' = Elements(buffer)  BY <1>5, <2>5
    <3> QED  BY <2>1, <2>2, <2>5, <3>1 DEF AllThere
  <2> QED  BY <2>3, <2>4, <2>5
<1>11. Causes'
  <2>1. Len(waiters') = 0  BY <1>1
  <2> QED  BY <1>1, <2>1 DEF IInv, Causes
<1> QED  BY <1>6, <1>8, <1>9, <1>10, <1>11 DEF IInv

LEMMA RequestInv ==
  ASSUME IInv, RequestSucceeds \/ AttemptFails
  PROVE  IInv'
<1>1. CASE RequestSucceeds
  BY <1>1, SettleInv DEF RequestSucceeds, Receive, history
<1>2. CASE AttemptFails /\ ~(attempt < Retries)
  <2>1. waiters # <<>> /\ waiters \in Seq(Cleaners \cup {"loop"})
    BY <1>2 DEF AttemptFails, InFlight, IInv, TypeOK
  <2>2. 1 \in 1..Len(waiters)  BY <2>1
  <2>3. waiters[1] # "loop" => ~writable  BY <2>2 DEF IInv, Causes
  <2> QED  BY <1>2, <2>3, SettleInv DEF AttemptFails, Receive, GiveBack
<1>3. CASE AttemptFails /\ attempt < Retries
  <2>1. /\ attempt' = attempt + 1
        /\ received' = received \/ received' = received \cup Elements(batch)
        /\ UNCHANGED <<batch, waiters, resumed, buffer, abandoned, writable,
                       cleaner, expired, written, trimmed, atCleanUp>>
    BY <1>3 DEF AttemptFails, Receive
  <2>2. Elements(batch) \subseteq Entries
    <3>1. batch \in Seq(Entries)  BY DEF IInv, TypeOK
    <3> QED  BY <3>1, ElementOfSeq DEF Elements
  <2>3. attempt' \in 0..Retries
    BY <1>3, <2>1, HttpLogAssumption DEF IInv, TypeOK
  <2>4. TypeOK'  BY <2>1, <2>2, <2>3 DEF IInv, TypeOK
  <2>5. Waiting' = Waiting  BY <2>1 DEF Waiting, Elements
  <2>6. Queue(batch', buffer')  BY <2>1 DEF IInv
  <2>7. Fresh'
    <3> SUFFICES ASSUME NEW x \in Waiting, x \notin received', NEW r \in received'
                 PROVE  r < x
      BY <2>5 DEF Fresh
    <3>1. CASE r \in received  BY <2>1, <3>1 DEF IInv, Fresh
    <3>2. CASE r \in Elements(batch) /\ received' = received \cup Elements(batch)
      <4>1. x \in Elements(buffer)  BY <3>2 DEF Waiting
      <4> QED  BY <3>2, <4>1 DEF IInv, Queue, Below
    <3> QED  BY <2>1, <3>1, <3>2
  <2>8. AllThere'
    <3>1. Elements(batch) \subseteq Waiting  BY DEF Waiting
    <3> QED  BY <2>1, <2>5, <3>1 DEF IInv, AllThere
  <2>9. Causes'  BY <2>1 DEF IInv, Causes
  <2> QED  BY <2>4, <2>6, <2>7, <2>8, <2>9 DEF IInv
<1> QED  BY <1>1, <1>2, <1>3

-----------------------------------------------------------------------------

LEMMA InitInv == Init => IInv
<1> SUFFICES ASSUME Init PROVE IInv  OBVIOUS
<1>1. Elements(<<>>) = {} /\ Increasing(<<>>) /\ <<>> \in Seq(Entries)
      /\ <<>> \in Seq(Cleaners \cup {"loop"}) /\ Len(<<>>) = 0
  BY DEF Elements, Increasing
<1>2. TypeOK  BY <1>1, HttpLogAssumption DEF Init, TypeOK
<1>3. Queue(batch, buffer)  BY <1>1 DEF Init, Queue, Below
<1>4. Waiting = {}  BY <1>1 DEF Init, Waiting
<1>5. Fresh /\ AllThere  BY <1>4 DEF Init, Fresh, AllThere
<1>6. Causes  BY <1>1 DEF Init, Causes
<1> QED  BY <1>2, <1>3, <1>5, <1>6 DEF IInv

LEMMA StepInv == IInv /\ [Next]_vars => IInv'
<1> SUFFICES ASSUME IInv, [Next]_vars PROVE IInv'  OBVIOUS
<1>1. CASE Write  BY <1>1, WriteInv
<1>2. CASE Expire  BY <1>2, ExpireInv
<1>3. CASE RequestSucceeds \/ AttemptFails  BY <1>3, RequestInv
<1>4. CASE RunLoop  BY <1>4, ResumeInv
<1>5. ASSUME NEW c \in Cleaners, CleanUp(c) \/ RunCleaner(c) PROVE IInv'
  BY <1>5, ResumeInv
<1>6. CASE UNCHANGED vars
  <2>1. UNCHANGED <<writable, buffer, batch, attempt, waiters, resumed, cleaner,
                    expired, received, written, trimmed, abandoned, atCleanUp>>
    BY <1>6 DEF vars, request, history
  <2>2. Queue(batch', buffer')  BY <2>1 DEF IInv
  <2>3. Waiting' = Waiting  BY <2>1 DEF Waiting, Elements
  <2> QED
    BY <2>1, <2>2, <2>3 DEF IInv, TypeOK, Fresh, AllThere, Causes
<1> QED  BY <1>1, <1>2, <1>3, <1>4, <1>5, <1>6 DEF Next

LEMMA Invariance == Spec => []IInv
BY InitInv, StepInv, PTL DEF Spec

\* Every variable of the stream keeps its type.
THEOREM TypeCorrect == Spec => []TypeOK
<1>1. IInv => TypeOK  BY DEF IInv
<1> QED  BY <1>1, Invariance, PTL

\* What is pending stays in order, and every entry taken is pending, received,
\* expired or given up by a cleanUp, however many calls of cleanUp there are.
THEOREM NothingMissing == Spec => []Accounted
<1>1. IInv => Accounted
  <2> SUFFICES ASSUME IInv PROVE Accounted  OBVIOUS
  <2>1. Increasing(Pending) /\ Elements(Pending) = Waiting
    BY Join DEF IInv, Pending, Waiting
  <2> QED  BY <2>1 DEF IInv, AllThere, Causes, Accounted
<1> QED  BY <1>1, Invariance, PTL

\* The server gets new entries in order only.
THEOREM InOrder == Spec => ReceivedInOrder
<1>1. IInv /\ [Next]_vars =>
        [\A e \in received' \ received : \A r \in received : r < e]_received
  <2> SUFFICES ASSUME IInv, [Next]_vars,
                      NEW e \in received' \ received, NEW r \in received
               PROVE  r < e
    OBVIOUS
  <2>1. received' = received \/ received' = received \cup Elements(batch)
    BY DEF Next, Write, Expire, RequestSucceeds, AttemptFails, Receive, RunLoop,
           CleanUp, RunCleaner, vars
  <2>2. e \in Waiting /\ e \notin received  BY <2>1 DEF Waiting
  <2> QED  BY <2>2 DEF IInv, Fresh
<1> QED  BY <1>1, Invariance, PTL DEF Spec, ReceivedInOrder

=============================================================================
