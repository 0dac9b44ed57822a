----------------------- MODULE TelemetryQueue_proofs -----------------------
(***************************************************************************)
(* The ring of telemetry.cpp implements the FIFO of TelemetryFifo, for     *)
(* every capacity: each step of the array, head and size is a step of the  *)
(* sequence they stand for.                                                *)
(***************************************************************************)
EXTENDS TelemetryQueue, SequenceTheorems, TLAPS

\* The inductive invariant: the indices stay inside the array, the array holds
\* records, and what the next record is stamped with is a number.
RingInv ==
    /\ slots \in [0..(Capacity - 1) -> Fifo!Record]
    /\ head \in 0..(Capacity - 1)
    /\ size \in 0..Capacity
    /\ nextSeq \in Nat /\ mainRevision \in Nat

-----------------------------------------------------------------------------
(* The arithmetic of a ring.                                               *)

\* Below the capacity, and up to twice the capacity, a remainder is a
\* subtraction at most.
LEMMA ModLow ==
    ASSUME NEW c \in Nat \ {0}, NEW a \in 0..(c - 1)
    PROVE  a % c = a
OBVIOUS

LEMMA ModHigh ==
    ASSUME NEW c \in Nat \ {0}, NEW a \in c..(2 * c - 1)
    PROVE  a % c = a - c
OBVIOUS

\* Less than a round from the head, the index wraps at most once.
LEMMA RingWrap ==
    ASSUME NEW c \in Nat \ {0}, NEW h \in 0..(c - 1), NEW n \in 0..c
    PROVE  (h + n) % c = IF h + n < c THEN h + n ELSE h + n - c
<1>1. CASE h + n < c
  BY <1>1, ModLow
<1>2. CASE h + n >= c
  BY <1>2, ModHigh
<1> QED
  BY <1>1, <1>2

\* Two places of the ring less than a round apart are different slots.
LEMMA RingIndex ==
    ASSUME NEW c \in Nat \ {0}, NEW h \in 0..(c - 1), NEW i \in 0..c
    PROVE  /\ (h + i) % c \in 0..(c - 1)
           /\ \A j \in 0..(c - 1) : j # i /\ i # c =>
                  (h + j) % c # (h + i) % c
<1>1. (h + i) % c = IF h + i < c THEN h + i ELSE h + i - c
  BY RingWrap
<1>2. ASSUME NEW j \in 0..(c - 1), j # i, i # c
      PROVE  (h + j) % c # (h + i) % c
  <2>1. j \in 0..c
    OBVIOUS
  <2>2. (h + j) % c = IF h + j < c THEN h + j ELSE h + j - c
    BY <2>1, RingWrap
  <2> QED
    BY <1>1, <1>2, <2>2
<1> QED
  BY <1>1, <1>2

\* Moving the head by k and counting i from there is counting i + k from it.
LEMMA RingShift ==
    ASSUME NEW c \in Nat \ {0}, NEW h \in 0..(c - 1),
           NEW k \in 0..c, NEW i \in 0..(c - 1), i + k <= c
    PROVE  (((h + k) % c) + i) % c = (h + (i + k)) % c
<1>1. CASE h + k < c
  <2>1. (h + k) % c = h + k
    BY <1>1, ModLow
  <2> QED
    BY <2>1
<1>2. CASE h + k >= c
  <2>1. (h + k) % c = h + k - c
    BY <1>2, ModHigh
  <2>2. (h + (i + k)) % c = h + (i + k) - c
    BY <1>2, ModHigh
  <2>3. h + k - c + i \in 0..(c - 1)
    BY <1>2
  <2>4. (h + k - c + i) % c = h + k - c + i
    BY <2>3, ModLow
  <2> QED
    BY <2>1, <2>2, <2>4
<1> QED
  BY <1>1, <1>2

-----------------------------------------------------------------------------

\* Contents is a sequence of size records, read from the head on.
ReadFromHead ==
    /\ Contents \in Seq(Fifo!Record) /\ Len(Contents) = size
    /\ \A j \in 0..(size - 1) :
           /\ (head + j) % Capacity \in 0..(Capacity - 1)
           /\ Contents[j + 1] = slots[(head + j) % Capacity]

\* It is one before a step and after it.
LEMMA ContentsFacts == RingInv => ReadFromHead
<1> SUFFICES ASSUME RingInv PROVE ReadFromHead
  OBVIOUS
<1> USE QueueAssumption DEF QueueAssumption, RingInv
<1>1. \A j \in 0..(size - 1) : (head + j) % Capacity \in 0..(Capacity - 1)
  BY RingIndex
<1>2. \A j \in 0..(size - 1) : Contents[j + 1] = slots[(head + j) % Capacity]
  <2> TAKE j \in 0..(size - 1)
  <2>1. j + 1 \in 1..size /\ (j + 1) - 1 = j
    OBVIOUS
  <2> QED
    BY <2>1 DEF Contents, Slot
<1>3. ASSUME NEW i \in 1..size PROVE Contents[i] \in Fifo!Record
  <2>1. PICK j \in 0..(size - 1) : i = j + 1
    <3> WITNESS i - 1 \in 0..(size - 1)
    <3> QED
      OBVIOUS
  <2> QED
    BY <1>1, <1>2, <2>1
<1>4. Contents \in [1..size -> Fifo!Record]
  BY <1>3 DEF Contents
<1>5. Contents \in Seq(Fifo!Record) /\ Len(Contents) = size
  BY <1>4
<1> QED
  BY <1>1, <1>2, <1>5 DEF ReadFromHead

LEMMA InitRing == Init => RingInv
<1> SUFFICES ASSUME Init PROVE RingInv
  OBVIOUS
<1>1. NoRecord \in Fifo!Record
  BY DEF NoRecord, Fifo!Record, Fifo!Kinds
<1> QED
  BY <1>1, QueueAssumption DEF QueueAssumption, Init, RingInv

LEMMA PushRing ==
    ASSUME RingInv, NEW kind \in Fifo!Kinds, NEW rev \in Nat,
           mainRevision' = rev, Push(kind, rev)
    PROVE  RingInv'
<1> USE QueueAssumption DEF QueueAssumption, RingInv
<1>1. [kind |-> kind, seq |-> nextSeq, rev |-> rev] \in Fifo!Record
  BY DEF Fifo!Record
<1>2. (head + size) % Capacity \in 0..(Capacity - 1)
  BY RingIndex
<1>3. CASE DropSample(kind) \/ DropCritical(kind)
  BY <1>3 DEF Push, DropSample, DropCritical, ringVars
<1>4. CASE Store([kind |-> kind, seq |-> nextSeq, rev |-> rev])
  BY <1>1, <1>2, <1>4 DEF Push, Store
<1> QED
  BY <1>3, <1>4 DEF Push

LEMMA NextRing == RingInv /\ [Next]_vars => RingInv'
<1> SUFFICES ASSUME RingInv, [Next]_vars PROVE RingInv'
  OBVIOUS
<1> USE QueueAssumption DEF QueueAssumption
<1>1. CASE EnqueueSample \/ EnqueueTransition
  BY <1>1, PushRing
  DEF EnqueueSample, EnqueueTransition, Fifo!Kinds, RingInv
<1>2. CASE \E rev \in Revisions : ApplyConfig(rev)
  BY <1>2, PushRing DEF ApplyConfig, Fifo!Kinds
<1>3. CASE TouchCorrection
  BY <1>3 DEF TouchCorrection, ringVars, RingInv
<1>4. CASE \E enabled \in BOOLEAN : SetCriticalOnly(enabled)
  BY <1>4 DEF SetCriticalOnly, ringVars, mainVars, RingInv
<1>5. CASE CopyPrefix \/ Abandon
  BY <1>5 DEF CopyPrefix, Abandon, ringVars, mainVars, RingInv
<1>6. CASE \E k \in 1..MaxBatch : CommitPrefix(k)
  <2>1. PICK k \in 1..MaxBatch : CommitPrefix(k)
    BY <1>6
  <2>2. k \in 0..Capacity /\ k <= size
    <3>1. k <= size
      BY <2>1 DEF CommitPrefix, Matches
    <3> QED
      BY <3>1 DEF RingInv
  <2>3. head' \in 0..(Capacity - 1)
    BY <2>1, <2>2, RingIndex DEF CommitPrefix, HeadAfter, RingInv
  <2>4. size' \in 0..Capacity
    BY <2>1, <2>2 DEF CommitPrefix, RingInv
  <2> QED
    BY <2>1, <2>3, <2>4 DEF CommitPrefix, mainVars, RingInv
<1>7. CASE UNCHANGED vars
  BY <1>7 DEF vars, ringVars, mainVars, RingInv
<1> QED
  BY <1>1, <1>2, <1>3, <1>4, <1>5, <1>6, <1>7 DEF Next

-----------------------------------------------------------------------------
(* Every step of the ring is a step of the FIFO.                           *)

LEMMA InitRefines == Init => Fifo!Init
<1> SUFFICES ASSUME Init PROVE Fifo!Init
  OBVIOUS
<1>1. Contents = <<>>
  <2>1. Contents \in Seq(Fifo!Record) /\ Len(Contents) = 0
    BY InitRing, ContentsFacts DEF Init, ReadFromHead
  <2> QED
    BY <2>1, EmptySeq
<1> QED
  BY <1>1 DEF Init, Fifo!Init

\* As long as the ring stands still, so does the FIFO.
LEMMA ContentsStay == UNCHANGED ringVars => UNCHANGED Contents
  BY DEF ringVars, Contents, Slot

\* Storing at head + size is appending.
LEMMA StoreAppends ==
    ASSUME RingInv, NEW rec \in Fifo!Record, RingInv', Store(rec)
    PROVE  Contents' = Append(Contents, rec)
<1> USE QueueAssumption DEF QueueAssumption
<1> DEFINE new == Append(Contents, rec)
<1>1. ReadFromHead
  BY ContentsFacts
<1>2. ReadFromHead'
  BY ContentsFacts, PTL
<1>3. /\ head' = head /\ size' = size + 1 /\ size < Capacity
      /\ slots' = [slots EXCEPT ![(head + size) % Capacity] = rec]
  BY DEF Store
<1>4. /\ new \in Seq(Fifo!Record) /\ Len(new) = size + 1
      /\ new[size + 1] = rec
      /\ \A i \in 1..size : new[i] = Contents[i]
  BY <1>1 DEF ReadFromHead
<1>5. size \in 0..(Capacity - 1) /\ head \in 0..(Capacity - 1)
  BY <1>3 DEF RingInv
<1> HIDE DEF new
<1>6. ASSUME NEW j \in 0..size PROVE Contents'[j + 1] = new[j + 1]
  <2>1. /\ (head + j) % Capacity \in 0..(Capacity - 1)
        /\ Contents'[j + 1] = slots'[(head + j) % Capacity]
    BY <1>2, <1>3, <1>5 DEF ReadFromHead
  <2>2. CASE j = size
    BY <1>3, <1>4, <2>1, <2>2 DEF RingInv
  <2>3. CASE j # size
    <3>1. j \in 0..(size - 1) /\ j + 1 \in 1..size /\ j \in 0..(Capacity - 1)
      BY <1>5, <2>3
    <3>2. (head + j) % Capacity # (head + size) % Capacity
      BY <1>5, <2>3, <3>1, RingIndex
    <3>3. slots'[(head + j) % Capacity] = slots[(head + j) % Capacity]
      BY <1>3, <2>1, <3>2 DEF RingInv
    <3> QED
      BY <1>1, <1>4, <2>1, <3>1, <3>3 DEF ReadFromHead
  <2> QED
    BY <2>2, <2>3
<1>7. ASSUME NEW i \in 1..Len(Contents') PROVE Contents'[i] = new[i]
  <2>1. i \in 1..(size + 1)
    BY <1>2, <1>3 DEF ReadFromHead
  <2>2. i - 1 \in 0..size /\ (i - 1) + 1 = i
    BY <1>5, <2>1
  <2> QED
    BY <1>6, <2>2
<1> QED
  BY <1>2, <1>3, <1>4, <1>7, SeqEqual DEF ReadFromHead, new

\* Moving the head by k, and size the other way, is dropping the first k.
LEMMA CommitDrops ==
    ASSUME RingInv, RingInv', NEW k \in 1..size, UNCHANGED slots,
           head' = (head + k) % Capacity, size' = size - k
    PROVE  Contents' = SubSeq(Contents, k + 1, Len(Contents))
<1> USE QueueAssumption DEF QueueAssumption
<1> DEFINE rest == SubSeq(Contents, k + 1, Len(Contents))
<1>1. ReadFromHead
  BY ContentsFacts
<1>2. ReadFromHead'
  BY ContentsFacts, PTL
<1>3. size \in 0..Capacity /\ head \in 0..(Capacity - 1)
  BY DEF RingInv
<1>4. /\ rest \in Seq(Fifo!Record) /\ Len(rest) = size - k
      /\ \A i \in 1..(size - k) : rest[i] = Contents[i + k]
  <2>1. Len(Contents) = size /\ \A i \in 1..size : Contents[i] \in Fifo!Record
    BY <1>1, <1>3, ElementOfSeq DEF ReadFromHead
  <2>2. \A i \in (k + 1)..size : Contents[i] \in Fifo!Record
    BY <1>3, <2>1
  <2> QED
    BY <1>3, <2>1, <2>2, SubSeqProperties
<1> HIDE DEF rest
<1>5. ASSUME NEW j \in 0..(size - k - 1) PROVE Contents'[j + 1] = rest[j + 1]
  <2>1. /\ j \in 0..(Capacity - 1) /\ j + k <= Capacity /\ k \in 0..Capacity
        /\ j + k \in 0..(size - 1) /\ j + 1 \in 1..(size - k)
        /\ (j + 1) + k = (j + k) + 1
    BY <1>3
  <2>2. Contents'[j + 1] = slots[(((head + k) % Capacity) + j) % Capacity]
    BY <1>2, <1>3 DEF ReadFromHead
  <2>3. (((head + k) % Capacity) + j) % Capacity = (head + (j + k)) % Capacity
    BY <1>3, <2>1, RingShift
  <2>4. Contents[(j + k) + 1] = slots[(head + (j + k)) % Capacity]
    BY <1>1, <2>1 DEF ReadFromHead
  <2>5. rest[j + 1] = Contents[(j + 1) + k]
    BY <1>4, <2>1
  <2> QED
    BY <2>1, <2>2, <2>3, <2>4, <2>5
<1>6. ASSUME NEW i \in 1..Len(Contents') PROVE Contents'[i] = rest[i]
  <2>1. i \in 1..(size - k)
    BY <1>2 DEF ReadFromHead
  <2>2. i - 1 \in 0..(size - k - 1) /\ (i - 1) + 1 = i
    BY <1>3, <2>1
  <2> QED
    BY <1>5, <2>2
<1> QED
  BY <1>2, <1>4, <1>6, SeqEqual DEF ReadFromHead, rest

\* push(): refused, dropped or stored, in the ring as in the FIFO.
LEMMA PushRefines ==
    ASSUME RingInv, RingInv', NEW kind \in Fifo!Kinds, NEW rev \in Nat,
           Push(kind, rev)
    PROVE  Fifo!Offer(kind, rev)
<1> DEFINE rec == [kind |-> kind, seq |-> nextSeq, rev |-> rev]
<1>1. rec \in Fifo!Record
  BY DEF RingInv, Fifo!Record
<1>2. Len(Contents) = size
  BY ContentsFacts DEF ReadFromHead
<1>3. CASE DropSample(kind)
  BY <1>2, <1>3, ContentsStay
  DEF Push, DropSample, SampleRefused, workerVars,
      Fifo!Offer, Fifo!DropSample, Fifo!SampleRefused, Fifo!SampleLimit,
      Fifo!workerVars
<1>4. CASE DropCritical(kind)
  BY <1>2, <1>4, ContentsStay
  DEF Push, DropCritical, SampleRefused, workerVars,
      Fifo!Offer, Fifo!DropCritical, Fifo!SampleRefused, Fifo!SampleLimit,
      Fifo!workerVars
<1>5. CASE Store(rec)
  <2>1. Contents' = Append(Contents, rec)
    BY <1>1, <1>5, StoreAppends
  <2> QED
    BY <1>2, <1>5, <2>1
    DEF Push, Store, SampleRefused, countVars, workerVars,
        Fifo!Offer, Fifo!Store, Fifo!SampleRefused, Fifo!SampleLimit,
        Fifo!workerVars
<1> QED
  BY <1>3, <1>4, <1>5 DEF Push

\* copyPrefix(): the first places of the ring are the prefix of the FIFO.
LEMMA CopyRefines ==
    ASSUME RingInv, CopyPrefix
    PROVE  Fifo!CopyPrefix
<1> DEFINE n == Fifo!Smaller(size, MaxBatch)
<1>1. /\ Contents \in Seq(Fifo!Record) /\ Len(Contents) = size
      /\ \A i \in 1..size : Contents[i] \in Fifo!Record
  BY ContentsFacts, ElementOfSeq DEF ReadFromHead
<1>2. size \in Nat /\ size # 0 /\ n \in 0..size
  BY QueueAssumption
  DEF QueueAssumption, RingInv, CopyPrefix, Fifo!Smaller
<1>3. /\ SubSeq(Contents, 1, n) \in Seq(Fifo!Record)
      /\ Len(SubSeq(Contents, 1, n)) = n
      /\ \A i \in 1..n : SubSeq(Contents, 1, n)[i] = Contents[i]
  <2>1. \A i \in 1..n : Contents[i] \in Fifo!Record
    BY <1>1, <1>2
  <2> HIDE DEF n
  <2> QED
    BY <1>2, <2>1, SubSeqProperties
<1> HIDE DEF n
<1>4. copied' = [i \in 1..n |-> Contents[i]]
  <2>1. \A i \in 1..n : Contents[i] = Slot(i - 1)
    BY <1>2 DEF Contents
  <2> QED
    BY <2>1 DEF CopyPrefix, n
<1>5. copied' = SubSeq(Contents, 1, n)
  <2>1. copied' \in Seq(Fifo!Record) /\ Len(copied') = n
    BY <1>1, <1>2, <1>4
  <2> QED
    BY <1>2, <1>3, <1>4, <2>1, SeqEqual
<1>6. Contents # <<>>
  BY <1>1, <1>2, EmptySeq
<1>7. UNCHANGED Contents
  BY ContentsStay DEF CopyPrefix
<1> QED
  BY <1>1, <1>5, <1>6, <1>7
  DEF CopyPrefix, countVars, mainVars, n,
      Fifo!CopyPrefix, Fifo!queueVars, Fifo!mainVars

\* commitPrefix(): what matches in the ring is a prefix of the FIFO.
LEMMA CommitRefines ==
    ASSUME RingInv, RingInv', NEW k \in 1..MaxBatch, CommitPrefix(k)
    PROVE  Fifo!CommitPrefix(k)
<1>1. Len(Contents) = size /\ size \in Nat /\ k \in Nat
  BY ContentsFacts, QueueAssumption
  DEF ReadFromHead, RingInv, QueueAssumption
<1>2. Matches(k) /\ k <= size
  BY DEF CommitPrefix, Matches
<1>3. Fifo!StillPrefix(k)
  <2>1. \A i \in 1..k : Contents[i] = Slot(i - 1)
    BY <1>1, <1>2 DEF Contents
  <2> QED
    BY <1>1, <1>2, <2>1 DEF Matches, Fifo!StillPrefix
<1>4. Contents' = SubSeq(Contents, k + 1, Len(Contents))
  <2>1. k \in 1..size
    BY <1>1, <1>2
  <2> QED
    BY <2>1, CommitDrops DEF CommitPrefix, HeadAfter
<1> QED
  BY <1>3, <1>4
  DEF CommitPrefix, countVars, mainVars, Fifo!CommitPrefix, Fifo!mainVars

LEMMA NextRefines ==
    RingInv /\ RingInv' /\ [Next]_vars => [Fifo!Next]_(Fifo!vars)
<1> SUFFICES ASSUME RingInv, RingInv', [Next]_vars
             PROVE  [Fifo!Next]_(Fifo!vars)
  OBVIOUS
<1>1. CASE EnqueueSample
  <2>1. Fifo!EnqueueSample
    BY <1>1, PushRefines
    DEF EnqueueSample, Fifo!EnqueueSample, Fifo!Kinds, RingInv
  <2> QED
    BY <2>1 DEF Fifo!Next
<1>2. CASE EnqueueTransition
  <2>1. Fifo!EnqueueTransition
    BY <1>2, PushRefines
    DEF EnqueueTransition, Fifo!EnqueueTransition, Fifo!Kinds, RingInv
  <2> QED
    BY <2>1 DEF Fifo!Next
<1>3. CASE \E rev \in Revisions : ApplyConfig(rev)
  <2>1. PICK rev \in Revisions : ApplyConfig(rev)
    BY <1>3
  <2>2. rev \in Nat
    BY QueueAssumption DEF QueueAssumption
  <2>3. Fifo!ApplyConfig(rev)
    BY <2>1, <2>2, PushRefines DEF ApplyConfig, Fifo!ApplyConfig, Fifo!Kinds
  <2> QED
    BY <2>3 DEF Fifo!Next
<1>4. CASE TouchCorrection
  <2>1. Fifo!TouchCorrection
    BY <1>4, ContentsStay
    DEF TouchCorrection, countVars, workerVars,
        Fifo!TouchCorrection, Fifo!queueVars, Fifo!workerVars
  <2> QED
    BY <2>1 DEF Fifo!Next
<1>5. CASE \E enabled \in BOOLEAN : SetCriticalOnly(enabled)
  <2>1. PICK enabled \in BOOLEAN : SetCriticalOnly(enabled)
    BY <1>5
  <2>2. Fifo!SetCriticalOnly(enabled)
    BY <2>1, ContentsStay
    DEF SetCriticalOnly, countVars, mainVars, workerVars,
        Fifo!SetCriticalOnly, Fifo!mainVars, Fifo!workerVars
  <2> QED
    BY <2>2 DEF Fifo!Next
<1>6. CASE CopyPrefix
  BY <1>6, CopyRefines DEF Fifo!Next
<1>7. CASE Abandon
  <2>1. Fifo!Abandon
    BY <1>7, ContentsStay
    DEF Abandon, countVars, mainVars, Fifo!Abandon, Fifo!queueVars,
        Fifo!mainVars
  <2> QED
    BY <2>1 DEF Fifo!Next
<1>8. CASE \E k \in 1..MaxBatch : CommitPrefix(k)
  BY <1>8, CommitRefines DEF Fifo!Next
<1>9. CASE UNCHANGED vars
  BY <1>9, ContentsStay
  DEF vars, countVars, mainVars, workerVars,
      Fifo!vars, Fifo!queueVars, Fifo!mainVars, Fifo!workerVars
<1> QED
  BY <1>1, <1>2, <1>3, <1>4, <1>5, <1>6, <1>7, <1>8, <1>9 DEF Next

\* The indices of the ring stay inside its array, whatever its capacity.
THEOREM RingCorrect == Spec => []RingInv
  BY InitRing, NextRing, PTL DEF Spec

\* The ring of telemetry.cpp implements the FIFO that both cores rely on.
THEOREM RingImplementsFifo == Spec => ImplementsFifo
  BY InitRefines, NextRefines, RingCorrect, PTL
  DEF Spec, ImplementsFifo, Fifo!Spec

-----------------------------------------------------------------------------
(* What TelemetryFifo_proofs proves of the FIFO, carried over to the ring.  *)

Proven == INSTANCE TelemetryFifo_proofs WITH queue <- Contents

\* The FIFO proved about is the FIFO that the ring implements.
LEMMA SameInit == Fifo!Init <=> Proven!Init
  BY DEF Fifo!Init, Proven!Init

LEMMA SameNext == [Fifo!Next]_(Fifo!vars) <=> [Proven!Next]_(Proven!vars)
  BY
  DEF Fifo!Next, Proven!Next, Fifo!EnqueueSample,
      Proven!EnqueueSample, Fifo!EnqueueTransition,
      Proven!EnqueueTransition, Fifo!ApplyConfig, Proven!ApplyConfig,
      Fifo!TouchCorrection, Proven!TouchCorrection,
      Fifo!SetCriticalOnly, Proven!SetCriticalOnly, Fifo!CopyPrefix,
      Proven!CopyPrefix, Fifo!Abandon, Proven!Abandon,
      Fifo!CommitPrefix, Proven!CommitPrefix, Fifo!StillPrefix,
      Proven!StillPrefix, Fifo!IsRevisionPrefix,
      Proven!IsRevisionPrefix, Fifo!Smaller, Proven!Smaller,
      Fifo!Offer, Proven!Offer, Fifo!DropSample, Proven!DropSample,
      Fifo!DropCritical, Proven!DropCritical, Fifo!Store,
      Proven!Store, Fifo!SampleRefused, Proven!SampleRefused,
      Fifo!SampleLimit, Proven!SampleLimit, Fifo!vars, Proven!vars,
      Fifo!queueVars, Proven!queueVars, Fifo!mainVars,
      Proven!mainVars, Fifo!workerVars, Proven!workerVars

LEMMA SameFifo == Fifo!Spec <=> Proven!Spec
  BY SameInit, SameNext, PTL DEF Fifo!Spec, Proven!Spec

\* The reserved slots of the ring never hold a sample.
THEOREM RingReserveHolds == Spec => []ReserveHoldsTransitions
<1>1. Fifo!ReserveHoldsTransitions <=> Proven!ReserveHoldsTransitions
  BY DEF Fifo!ReserveHoldsTransitions, Proven!ReserveHoldsTransitions,
         Fifo!SampleLimit, Proven!SampleLimit
<1>2. Spec => Fifo!Spec
  BY RingImplementsFifo DEF ImplementsFifo
<1>3. Proven!Spec => []Proven!ReserveHoldsTransitions
  BY QueueAssumption, Proven!ReserveHolds
<1> QED
  BY <1>1, <1>2, <1>3, SameFifo, PTL DEF ReserveHoldsTransitions

\* Records leave the ring in order, once, under revisions that never go back.
THEOREM RingOrderKept == Spec => []InOrder
<1>1. Fifo!InOrder <=> Proven!InOrder
  BY DEF Fifo!InOrder, Proven!InOrder
<1>2. Spec => Fifo!Spec
  BY RingImplementsFifo DEF ImplementsFifo
<1>3. Proven!Spec => []Proven!InOrder
  BY QueueAssumption, Proven!OrderKept
<1> QED
  BY <1>1, <1>2, <1>3, SameFifo, PTL DEF InOrder

\* What the worker copied is still at the head of the ring when it commits.
THEOREM RingCommitCannotFail == Spec => []CopyStaysPrefix
<1>1. Fifo!CopyStaysPrefix <=> Proven!CopyStaysPrefix
  BY DEF Fifo!CopyStaysPrefix, Proven!CopyStaysPrefix,
         Fifo!StillPrefix, Proven!StillPrefix
<1>2. Spec => Fifo!Spec
  BY RingImplementsFifo DEF ImplementsFifo
<1>3. Proven!Spec => []Proven!CopyStaysPrefix
  BY QueueAssumption, Proven!CommitCannotFail
<1> QED
  BY <1>1, <1>2, <1>3, SameFifo, PTL DEF CopyStaysPrefix

\* No sequence number disappears in the ring without being counted.
THEOREM RingAllAccounted == Spec => []EveryNumberAccounted
<1>1. Fifo!EveryNumberAccounted <=> Proven!EveryNumberAccounted
  BY DEF Fifo!EveryNumberAccounted, Proven!EveryNumberAccounted
<1>2. Spec => Fifo!Spec
  BY RingImplementsFifo DEF ImplementsFifo
<1>3. Proven!Spec => []Proven!EveryNumberAccounted
  BY QueueAssumption, Proven!AllAccounted
<1> QED
  BY <1>1, <1>2, <1>3, SameFifo, PTL DEF EveryNumberAccounted

\* The ring, the counters and the worker's array keep their types.
THEOREM RingTypeCorrect == Spec => []TypeOK
<1>1. Fifo!TypeOK <=> Proven!TypeOK
  BY DEF Fifo!TypeOK, Proven!TypeOK, Fifo!Record, Proven!Record,
         Fifo!Kinds, Proven!Kinds
<1>2. Spec => Fifo!Spec
  BY RingImplementsFifo DEF ImplementsFifo
<1>3. Proven!Spec => []Proven!TypeOK
  BY QueueAssumption, Proven!TypeCorrect
<1>4. RingInv /\ Fifo!TypeOK => TypeOK
  BY DEF RingInv, TypeOK
<1> QED
  BY <1>1, <1>2, <1>3, <1>4, SameFifo, RingCorrect, PTL

=============================================================================
