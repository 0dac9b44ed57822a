----------------------- MODULE TelemetryFifo_proofs -----------------------
(***************************************************************************)
(* Proofs of the safety properties of TelemetryFifo, for every capacity,   *)
(* reserve, batch size and number of records.                              *)
(***************************************************************************)
EXTENDS TelemetryFifo, SequenceTheorems, TLAPS

\* The inductive invariant: the properties together, and one fact they need of
\* each other, that no number not yet handed out was ever committed.
IndInv ==
    /\ TypeOK
    /\ ReserveHoldsTransitions
    /\ InOrder
    /\ CopyStaysPrefix
    /\ EveryNumberAccounted
    /\ drained <= nextSeq

-----------------------------------------------------------------------------
(* What push() and commitPrefix() do to a sequence.                        *)

\* Appending leaves the old elements in place and puts the new one last.
LEMMA AppendFacts ==
    ASSUME NEW S, NEW s \in Seq(S), NEW e \in S
    PROVE  /\ Append(s, e) \in Seq(S)
           /\ Len(Append(s, e)) = Len(s) + 1
           /\ Append(s, e)[Len(s) + 1] = e
           /\ \A i \in 1..Len(s) : Append(s, e)[i] = s[i]
OBVIOUS

\* Dropping the first k elements shifts the others down by k.
LEMMA DropFacts ==
    ASSUME NEW S, NEW s \in Seq(S), NEW k \in 0..Len(s)
    PROVE  /\ SubSeq(s, k + 1, Len(s)) \in Seq(S)
           /\ Len(SubSeq(s, k + 1, Len(s))) = Len(s) - k
           /\ \A i \in 1..(Len(s) - k) :
                  SubSeq(s, k + 1, Len(s))[i] = s[i + k]
<1>1. Len(s) \in Nat /\ \A i \in 1..Len(s) : s[i] \in S
  BY LenProperties, ElementOfSeq
<1>2. \A i \in (k + 1)..Len(s) : s[i] \in S
  BY <1>1
<1> QED
  BY <1>1, <1>2, SubSeqProperties

\* Taking the first n elements keeps them where they are.
LEMMA TakeFacts ==
    ASSUME NEW S, NEW s \in Seq(S), NEW n \in 0..Len(s)
    PROVE  /\ SubSeq(s, 1, n) \in Seq(S)
           /\ Len(SubSeq(s, 1, n)) = n
           /\ \A i \in 1..n : SubSeq(s, 1, n)[i] = s[i]
<1>1. Len(s) \in Nat /\ \A i \in 1..Len(s) : s[i] \in S
  BY LenProperties, ElementOfSeq
<1>2. \A i \in 1..n : s[i] \in S
  BY <1>1
<1> QED
  BY <1>1, <1>2, SubSeqProperties

-----------------------------------------------------------------------------

LEMMA InitInv == Init => IndInv
<1> SUFFICES ASSUME Init PROVE IndInv
  OBVIOUS
<1> USE QueueAssumption DEF QueueAssumption, Init
<1>1. <<>> \in Seq(Record) /\ Len(<<>>) = 0 /\ DOMAIN <<>> = {}
  OBVIOUS
<1>2. TypeOK
  <2>1. criticalOnly \in BOOLEAN
    BY Zenon
  <2>2. queue \in Seq(Record) /\ Len(queue) <= Capacity
    BY <1>1
  <2>3. copied \in Seq(Record) /\ Len(copied) <= MaxBatch
    BY <1>1
  <2> QED
    BY <2>1, <2>2, <2>3 DEF TypeOK
<1>3. ReserveHoldsTransitions /\ InOrder
  BY <1>1 DEF ReserveHoldsTransitions, InOrder
<1>4. CopyStaysPrefix /\ EveryNumberAccounted
  BY <1>1 DEF CopyStaysPrefix, StillPrefix, EveryNumberAccounted
<1> QED
  BY <1>2, <1>3, <1>4 DEF IndInv

\* One call of push() with the revision the main loop then runs: the record
\* takes a free slot it is entitled to, or a counter takes note of it.
LEMMA OfferInv ==
    ASSUME IndInv, NEW kind \in Kinds, NEW rev \in Nat,
           rev >= mainRevision, mainRevision' = rev, Offer(kind, rev)
    PROVE  IndInv'
<1> DEFINE rec == [kind |-> kind, seq |-> nextSeq, rev |-> rev]
<1> USE QueueAssumption DEF QueueAssumption, IndInv
<1>1. rec \in Record /\ Len(queue) \in Nat
  BY LenProperties DEF TypeOK, Record
<1>2. /\ nextSeq' = nextSeq + 1
      /\ UNCHANGED <<criticalOnly, diverted, copied, committed, drained>>
      /\ DropSample(rec) \/ DropCritical(rec) \/ Store(rec)
  BY DEF Offer, workerVars
<1>3. CASE DropSample(rec) \/ DropCritical(rec)
  <2> USE DEF DropSample, DropCritical
  <2>1. TypeOK'
    BY <1>2, <1>3 DEF TypeOK
  <2>2. ReserveHoldsTransitions' /\ CopyStaysPrefix'
    BY <1>2, <1>3 DEF ReserveHoldsTransitions, CopyStaysPrefix, StillPrefix
  <2>3. InOrder' /\ drained' <= nextSeq'
    <3>1. \A i \in DOMAIN queue : /\ queue[i].seq \in drained..(nextSeq - 1)
                                  /\ queue[i].rev \in Nat
                                  /\ queue[i].rev <= mainRevision'
      <4>1. \A i \in DOMAIN queue : queue[i] \in Record
        BY LenProperties, ElementOfSeq DEF TypeOK
      <4> QED
        BY <4>1 DEF InOrder, TypeOK, Record
    <3>2. drained \in Nat /\ nextSeq \in Nat /\ drained <= nextSeq
          /\ nextSeq' = nextSeq + 1
      BY <1>2 DEF TypeOK
    <3>3. \A i \in DOMAIN queue : queue[i].seq \in drained..(nextSeq' - 1)
      BY <3>1, <3>2
    <3>4. UNCHANGED <<queue, drained>>
      BY <1>2, <1>3
    <3> QED
      BY <3>1, <3>2, <3>3, <3>4 DEF InOrder
  <2>4. EveryNumberAccounted'
    BY <1>1, <1>2, <1>3 DEF EveryNumberAccounted, TypeOK
  <2> QED
    BY <2>1, <2>2, <2>3, <2>4
<1>4. CASE Store(rec)
  <2> USE DEF Store
  <2>1. /\ queue' \in Seq(Record)
        /\ Len(queue') = Len(queue) + 1
        /\ queue'[Len(queue) + 1] = rec
        /\ \A i \in 1..Len(queue) : queue'[i] = queue[i]
    BY <1>1, <1>4, AppendFacts DEF TypeOK
  <2>2. /\ DOMAIN queue = 1..Len(queue)
        /\ DOMAIN queue' = 1..(Len(queue) + 1)
        /\ \A i \in DOMAIN queue : queue[i] \in Record
    BY <2>1, LenProperties, ElementOfSeq DEF TypeOK
  <2>3. TypeOK'
    BY <1>1, <1>2, <1>4, <2>1 DEF TypeOK
  <2>4. ReserveHoldsTransitions'
    <3>1. Len(queue) + 1 > SampleLimit => kind = "transition"
      BY <1>1, <1>4 DEF SampleRefused, SampleLimit, Kinds
    <3> QED
      BY <1>1, <2>1, <2>2, <3>1 DEF ReserveHoldsTransitions
  <2>5. InOrder' /\ drained' <= nextSeq'
    <3>1. rec.seq = nextSeq /\ rec.rev = mainRevision'
      OBVIOUS
    <3>2. \A i \in DOMAIN queue : /\ queue[i].seq \in drained..(nextSeq - 1)
                                  /\ queue[i].seq \in Nat
                                  /\ queue[i].rev \in Nat
                                  /\ queue[i].rev <= mainRevision'
      BY <2>2 DEF InOrder, TypeOK, Record
    <3> HIDE DEF rec
    <3>3. \A i \in DOMAIN queue' :
              \/ i \in DOMAIN queue /\ queue'[i] = queue[i]
              \/ i = Len(queue) + 1 /\ queue'[i] = rec
      BY <1>1, <2>1, <2>2
    <3>4. drained \in Nat /\ nextSeq \in Nat /\ drained <= nextSeq
          /\ mainRevision' \in Nat
      BY DEF TypeOK
    <3>5. ASSUME NEW i \in DOMAIN queue'
          PROVE  /\ queue'[i].seq \in drained..nextSeq
                 /\ queue'[i].rev <= mainRevision'
      BY <3>1, <3>2, <3>3, <3>4
    <3>6. ASSUME NEW i \in DOMAIN queue', NEW j \in DOMAIN queue', i < j
          PROVE  /\ queue'[i].seq < queue'[j].seq
                 /\ queue'[i].rev <= queue'[j].rev
      <4>1. i \in DOMAIN queue /\ queue'[i] = queue[i]
        BY <1>1, <2>2, <3>3, <3>6
      <4>2. CASE j \in DOMAIN queue /\ queue'[j] = queue[j]
        BY <3>6, <4>1, <4>2 DEF InOrder
      <4>3. CASE queue'[j] = rec
        BY <3>1, <3>2, <3>4, <4>1, <4>3
      <4> QED
        BY <3>3, <4>2, <4>3
    <3>7. nextSeq = nextSeq' - 1 /\ drained' <= nextSeq'
      BY <1>2, <3>4
    <3> QED
      BY <1>2, <3>5, <3>6, <3>7 DEF InOrder
  <2>6. CopyStaysPrefix'
    <3>1. Len(copied) \in Nat
      BY LenProperties DEF TypeOK
    <3> QED
      BY <1>1, <1>2, <2>1, <3>1 DEF CopyStaysPrefix, StillPrefix
  <2>7. EveryNumberAccounted'
    BY <1>1, <1>2, <1>4, <2>1 DEF EveryNumberAccounted, TypeOK
  <2> QED
    BY <2>3, <2>4, <2>5, <2>6, <2>7
<1> QED
  BY <1>2, <1>3, <1>4

\* A commit removes the oldest records; the others keep their order, the
\* reserve is respected a fortiori, and the committed ones are counted.
LEMMA CommitInv ==
    ASSUME IndInv, NEW k \in 1..MaxBatch, CommitPrefix(k)
    PROVE  IndInv'
<1> USE QueueAssumption DEF QueueAssumption, IndInv
<1>1. Len(queue) \in Nat /\ Len(copied) \in Nat /\ copied # <<>>
  <2>1. PICK m \in 1..Len(copied) : IsRevisionPrefix(SubSeq(copied, 1, m), k)
    BY DEF CommitPrefix
  <2> QED
    BY <2>1, LenProperties DEF TypeOK
<1>2. k <= Len(queue) /\ k <= Len(copied) /\ k \in Nat \ {0}
  <2>1. PICK m \in 1..Len(copied) : IsRevisionPrefix(SubSeq(copied, 1, m), k)
    BY DEF CommitPrefix
  <2>2. Len(SubSeq(copied, 1, m)) = m
    BY <1>1, <2>1, TakeFacts DEF TypeOK
  <2> QED
    BY <1>1, <2>1, <2>2 DEF IsRevisionPrefix, CommitPrefix, StillPrefix
<1>3. /\ queue' \in Seq(Record)
      /\ Len(queue') = Len(queue) - k
      /\ \A i \in 1..(Len(queue) - k) : queue'[i] = queue[i + k]
  BY <1>1, <1>2, DropFacts DEF CommitPrefix, TypeOK
<1>4. /\ DOMAIN queue = 1..Len(queue)
      /\ DOMAIN queue' = 1..(Len(queue) - k)
      /\ \A i \in DOMAIN queue : queue[i] \in Record
  BY <1>1, <1>3, LenProperties, ElementOfSeq DEF TypeOK
<1>5. copied[k] = queue[k] /\ drained' = queue[k].seq + 1
  BY <1>2 DEF CommitPrefix, StillPrefix
<1>6. /\ copied' = <<>> /\ committed' = committed + k
      /\ UNCHANGED <<criticalOnly, droppedSamples, droppedCritical,
                     nextSeq, mainRevision, diverted>>
  BY DEF CommitPrefix, mainVars
<1>7. TypeOK'
  <2>1. drained' \in Nat /\ committed' \in Nat
    <3>1. queue[k].seq \in Nat
      BY <1>1, <1>2, <1>4 DEF Record
    <3> QED
      BY <1>2, <1>5, <1>6, <3>1 DEF TypeOK
  <2>2. <<>> \in Seq(Record) /\ Len(<<>>) = 0
    OBVIOUS
  <2> QED
    BY <1>1, <1>2, <1>3, <1>6, <2>1, <2>2 DEF TypeOK
<1>8. ReserveHoldsTransitions'
  <2>1. SampleLimit \in Nat
    BY DEF SampleLimit
  <2>2. ASSUME NEW i \in DOMAIN queue', i > SampleLimit
        PROVE  queue'[i].kind = "transition"
    <3>1. i + k \in DOMAIN queue /\ i + k > SampleLimit
      BY <1>1, <1>2, <1>4, <2>1, <2>2
    <3> QED
      BY <1>3, <1>4, <3>1 DEF ReserveHoldsTransitions
  <2> QED
    BY <2>2 DEF ReserveHoldsTransitions, SampleLimit
<1>9. InOrder' /\ drained' <= nextSeq'
  <2>1. \A i \in DOMAIN queue' : /\ i + k \in DOMAIN queue /\ k < i + k
                                 /\ queue'[i] = queue[i + k]
    BY <1>1, <1>2, <1>3, <1>4
  <2>2. \A i \in DOMAIN queue : queue[i].seq \in Nat /\ queue[i].seq < nextSeq
    BY <1>4 DEF InOrder, TypeOK, Record
  <2>3. k \in DOMAIN queue
    BY <1>1, <1>2, <1>4
  <2>4. \A i \in DOMAIN queue' : /\ queue[k].seq < queue'[i].seq
                                 /\ queue'[i].seq \in Nat
                                 /\ queue'[i].seq < nextSeq
                                 /\ queue'[i].rev <= mainRevision
    BY <2>1, <2>2, <2>3 DEF InOrder
  <2>5. \A i, j \in DOMAIN queue' :
            i < j => /\ queue'[i].seq < queue'[j].seq
                     /\ queue'[i].rev <= queue'[j].rev
    BY <1>1, <1>2, <1>4, <2>1 DEF InOrder
  <2>6. drained' \in Nat /\ drained' <= nextSeq
    BY <1>5, <2>2, <2>3 DEF TypeOK
  <2>7. \A i \in DOMAIN queue' : queue'[i].seq \in drained'..(nextSeq - 1)
    BY <1>5, <2>2, <2>3, <2>4, <2>6 DEF TypeOK
  <2> QED
    BY <1>6, <2>4, <2>5, <2>6, <2>7 DEF InOrder
<1>10. CopyStaysPrefix'
  BY <1>1, <1>2, <1>3, <1>6 DEF CopyStaysPrefix, StillPrefix
<1>11. EveryNumberAccounted'
  BY <1>1, <1>2, <1>3, <1>6 DEF EveryNumberAccounted, TypeOK
<1> QED
  BY <1>7, <1>8, <1>9, <1>10, <1>11

-----------------------------------------------------------------------------

LEMMA NextInv == IndInv /\ [Next]_vars => IndInv'
<1> SUFFICES ASSUME IndInv, [Next]_vars PROVE IndInv'
  OBVIOUS
<1> USE QueueAssumption DEF QueueAssumption
<1>1. CASE EnqueueSample
  BY <1>1, OfferInv DEF EnqueueSample, Kinds, IndInv, TypeOK
<1>2. CASE EnqueueTransition
  BY <1>2, OfferInv DEF EnqueueTransition, Kinds, IndInv, TypeOK
<1>3. CASE \E rev \in Revisions : ApplyConfig(rev)
  <2>1. PICK rev \in Revisions : ApplyConfig(rev)
    BY <1>3
  <2>2. rev \in Nat /\ rev >= mainRevision
    BY <2>1 DEF ApplyConfig, IndInv, TypeOK
  <2> QED
    BY <2>1, <2>2, OfferInv DEF ApplyConfig, Kinds
<1>4. CASE TouchCorrection
  <2>1. \A i \in DOMAIN queue : queue[i] \in Record
    BY LenProperties, ElementOfSeq DEF IndInv, TypeOK
  <2>2. Len(queue) \in Nat
    BY LenProperties DEF IndInv, TypeOK
  <2> QED
    BY <1>4, <2>1, <2>2
    DEF TouchCorrection, queueVars, workerVars, IndInv, TypeOK,
        ReserveHoldsTransitions, InOrder, CopyStaysPrefix, StillPrefix,
        EveryNumberAccounted, Record
<1>5. CASE \E enabled \in BOOLEAN : SetCriticalOnly(enabled)
  BY <1>5
  DEF SetCriticalOnly, mainVars, workerVars, IndInv, TypeOK,
      ReserveHoldsTransitions, InOrder, CopyStaysPrefix, StillPrefix,
      EveryNumberAccounted
<1>6. CASE CopyPrefix
  <2>1. Len(queue) \in Nat /\ Len(queue) # 0
    BY <1>6, LenProperties, EmptySeq DEF CopyPrefix, IndInv, TypeOK
  <2> DEFINE n == Smaller(Len(queue), MaxBatch)
  <2>2. n \in 0..Len(queue) /\ n <= MaxBatch
    BY <2>1 DEF Smaller
  <2>3. /\ copied' \in Seq(Record) /\ Len(copied') = n
        /\ \A i \in 1..n : copied'[i] = queue[i]
    BY <1>6, <2>2, TakeFacts DEF CopyPrefix, IndInv, TypeOK
  <2>4. UNCHANGED <<queue, criticalOnly, droppedSamples, droppedCritical,
                    nextSeq, mainRevision, diverted, committed, drained>>
    BY <1>6 DEF CopyPrefix, queueVars, mainVars
  <2>5. CopyStaysPrefix'
    BY <2>1, <2>2, <2>3, <2>4 DEF CopyStaysPrefix, StillPrefix
  <2> QED
    BY <2>2, <2>3, <2>4, <2>5
    DEF IndInv, TypeOK, ReserveHoldsTransitions, InOrder, EveryNumberAccounted
<1>7. CASE Abandon
  <2>1. <<>> \in Seq(Record) /\ Len(<<>>) = 0 /\ Len(queue) \in Nat
    BY LenProperties DEF IndInv, TypeOK
  <2>2. copied' = <<>>
    BY <1>7 DEF Abandon
  <2>3. UNCHANGED <<queue, criticalOnly, droppedSamples, droppedCritical,
                    nextSeq, mainRevision, diverted, committed, drained>>
    BY <1>7 DEF Abandon, queueVars, mainVars
  <2>4. CopyStaysPrefix'
    BY <2>1, <2>2, <2>3 DEF CopyStaysPrefix, StillPrefix
  <2> QED
    BY <2>1, <2>2, <2>3, <2>4
    DEF IndInv, TypeOK, ReserveHoldsTransitions, InOrder, EveryNumberAccounted
<1>8. CASE \E k \in 1..MaxBatch : CommitPrefix(k)
  BY <1>8, CommitInv
<1>9. CASE UNCHANGED vars
  BY <1>9
  DEF vars, queueVars, mainVars, workerVars, IndInv, TypeOK,
      ReserveHoldsTransitions, InOrder, CopyStaysPrefix, StillPrefix,
      EveryNumberAccounted
<1> QED
  BY <1>1, <1>2, <1>3, <1>4, <1>5, <1>6, <1>7, <1>8, <1>9 DEF Next

\* The queue of telemetry.cpp, with its producer and its consumer, keeps all
\* its promises together, whatever the sizes of its arrays.
THEOREM Invariance == Spec => []IndInv
  BY InitInv, NextInv, PTL DEF Spec

\* The state stays within its types and the queue within its capacity.
THEOREM TypeCorrect == Spec => []TypeOK
<1>1. IndInv => TypeOK
  BY DEF IndInv
<1> QED
  BY Invariance, <1>1, PTL

\* The reserved slots never hold a sample.
THEOREM ReserveHolds == Spec => []ReserveHoldsTransitions
<1>1. IndInv => ReserveHoldsTransitions
  BY DEF IndInv
<1> QED
  BY Invariance, <1>1, PTL

\* Records leave in order, once, under revisions that never go back.
THEOREM OrderKept == Spec => []InOrder
<1>1. IndInv => InOrder
  BY DEF IndInv
<1> QED
  BY Invariance, <1>1, PTL

\* What the worker copied is still at the head when it commits.
THEOREM CommitCannotFail == Spec => []CopyStaysPrefix
<1>1. IndInv => CopyStaysPrefix
  BY DEF IndInv
<1> QED
  BY Invariance, <1>1, PTL

\* No sequence number disappears without being counted.
THEOREM AllAccounted == Spec => []EveryNumberAccounted
<1>1. IndInv => EveryNumberAccounted
  BY DEF IndInv
<1> QED
  BY Invariance, <1>1, PTL

=============================================================================
