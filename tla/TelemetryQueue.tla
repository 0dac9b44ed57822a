--------------------------- MODULE TelemetryQueue ---------------------------
(***************************************************************************)
(* The queue between the main loop and the uploader worker as the firmware *)
(* implements it: a fixed array used as a ring, a head index and a size    *)
(* (src/src/telemetry.cpp).  Module TelemetryFifo says what the two cores   *)
(* may rely on; this module is the detailed one that implements it.        *)
(***************************************************************************)
EXTENDS TelemetryQueueParameters, Sequences

VARIABLES
    slots,            \* records_, the array
    head,             \* head_
    size,             \* size_
    criticalOnly,     \* criticalOnly_
    droppedSamples,   \* droppedSamples_
    droppedCritical,  \* droppedCritical_
    nextSeq, mainRevision, copied,   \* as in TelemetryFifo
    committed, drained, diverted     \* history, as in TelemetryFifo

Slot(i) == slots[(head + i) % Capacity]

\* The ring read from its head: the queue TelemetryFifo speaks of.
Contents == [i \in 1..size |-> Slot(i - 1)]

Fifo == INSTANCE TelemetryFifo WITH queue <- Contents

ringVars   == <<slots, head, size>>
countVars  == <<droppedSamples, droppedCritical>>
mainVars   == <<nextSeq, mainRevision, diverted>>
workerVars == <<copied, committed, drained>>
vars       == <<ringVars, criticalOnly, countVars, mainVars, workerVars>>

NoRecord == [kind |-> "sample", seq |-> 0, rev |-> 0]

Init ==
    /\ slots = [i \in 0..(Capacity - 1) |-> NoRecord]
    /\ head = 0 /\ size = 0
    /\ criticalOnly = FALSE
    /\ droppedSamples = 0 /\ droppedCritical = 0
    /\ nextSeq = 0 /\ mainRevision = 0 /\ diverted = 0
    /\ copied = <<>> /\ committed = 0 /\ drained = 0

-----------------------------------------------------------------------------
(* The main loop: push().                                                  *)

\* push() refuses a sample above this depth; the faulty variant, used by no
\* action, lets one too many in.
MutRefusedLate(kind) ==
    kind = "sample" /\ (criticalOnly \/ size > Capacity - Reserved)

SampleRefused(kind) ==
    kind = "sample" /\ (criticalOnly \/ size >= Capacity - Reserved)

\* Faulty variants, used by no action: a refusal that is not counted, and one
\* that makes room at the head.
MutDropUncounted(kind) ==
    /\ SampleRefused(kind)
    /\ UNCHANGED <<ringVars, countVars>>

MutDropOldest(kind) ==
    /\ ~SampleRefused(kind)
    /\ size >= Capacity
    /\ slots' = [slots EXCEPT ![head] =
                    [kind |-> kind, seq |-> nextSeq, rev |-> mainRevision]]
    /\ head' = (head + 1) % Capacity
    /\ droppedCritical' = droppedCritical + 1
    /\ UNCHANGED <<size, droppedSamples>>

DropSample(kind) ==
    /\ SampleRefused(kind)
    /\ droppedSamples' = droppedSamples + 1
    /\ UNCHANGED <<ringVars, droppedCritical>>

DropCritical(kind) ==
    /\ ~SampleRefused(kind)
    /\ size >= Capacity
    /\ droppedCritical' = droppedCritical + 1
    /\ UNCHANGED <<ringVars, droppedSamples>>

\* A faulty variant that forgets the head; no action uses it.
MutStoreFromZero(rec) ==
    /\ ~SampleRefused(rec.kind)
    /\ size < Capacity
    /\ slots' = [slots EXCEPT ![size] = rec]
    /\ size' = size + 1
    /\ UNCHANGED <<head, countVars>>

Store(rec) ==
    /\ ~SampleRefused(rec.kind)
    /\ size < Capacity
    /\ slots' = [slots EXCEPT ![(head + size) % Capacity] = rec]
    /\ size' = size + 1
    /\ UNCHANGED <<head, countVars>>

Push(kind, rev) ==
    /\ nextSeq < MaxSeq
    /\ nextSeq' = nextSeq + 1
    /\ UNCHANGED <<criticalOnly, diverted, workerVars>>
    /\ \/ DropSample(kind)
       \/ DropCritical(kind)
       \/ Store([kind |-> kind, seq |-> nextSeq, rev |-> rev])

EnqueueSample == Push("sample", mainRevision) /\ UNCHANGED mainRevision

EnqueueTransition ==
    Push("transition", mainRevision) /\ UNCHANGED mainRevision

\* A faulty variant that takes any revision; no action uses it.
MutApplyAnyConfig(rev) ==
    /\ mainRevision' = rev
    /\ Push("transition", rev)

ApplyConfig(rev) ==
    /\ rev > mainRevision
    /\ mainRevision' = rev
    /\ Push("transition", rev)

TouchCorrection ==
    /\ nextSeq < MaxSeq
    /\ nextSeq' = nextSeq + 1
    /\ diverted' = diverted + 1
    /\ UNCHANGED <<ringVars, criticalOnly, countVars, mainRevision, workerVars>>

-----------------------------------------------------------------------------
(* The worker: setCriticalOnly(), copyPrefix(), commitPrefix().            *)

SetCriticalOnly(enabled) ==
    /\ copied = <<>>
    /\ criticalOnly' = enabled
    /\ UNCHANGED <<ringVars, countVars, mainVars, workerVars>>

CopyPrefix ==
    /\ copied = <<>>
    /\ size # 0
    /\ copied' = [i \in 1..Fifo!Smaller(size, MaxBatch) |-> Slot(i - 1)]
    /\ UNCHANGED <<ringVars, criticalOnly, countVars, mainVars,
                   committed, drained>>

Abandon ==
    /\ copied # <<>>
    /\ copied' = <<>>
    /\ UNCHANGED <<ringVars, criticalOnly, countVars, mainVars,
                   committed, drained>>

Matches(k) ==
    /\ k <= size
    /\ \A i \in 1..k : Slot(i - 1) = copied[i]

\* head_ after a commit, and a faulty variant that does not wrap, used by no
\* action.
MutHeadAfter(k) == head + k

HeadAfter(k) == (head + k) % Capacity

CommitPrefix(k) ==
    /\ \E m \in 1..Len(copied) : Fifo!IsRevisionPrefix(SubSeq(copied, 1, m), k)
    /\ Matches(k)
    /\ head' = HeadAfter(k)
    /\ size' = size - k
    /\ committed' = committed + k
    /\ drained' = copied[k].seq + 1
    /\ copied' = <<>>
    /\ UNCHANGED <<slots, criticalOnly, countVars, mainVars>>

-----------------------------------------------------------------------------

Next ==
    \/ EnqueueSample
    \/ EnqueueTransition
    \/ \E rev \in Revisions : ApplyConfig(rev)
    \/ TouchCorrection
    \/ \E enabled \in BOOLEAN : SetCriticalOnly(enabled)
    \/ CopyPrefix
    \/ Abandon
    \/ \E k \in 1..MaxBatch : CommitPrefix(k)

Spec == Init /\ [][Next]_vars

-----------------------------------------------------------------------------
(* Properties.                                                             *)

\* The indices stay inside the array and the array holds records only.
TypeOK ==
    /\ slots \in [0..(Capacity - 1) -> Fifo!Record]
    /\ head \in 0..(Capacity - 1)
    /\ size \in 0..Capacity
    /\ Fifo!TypeOK

\* The ring is the FIFO: every step of the array, head and size is a step of
\* the sequence they stand for, in particular across the wrap of the head.
ImplementsFifo == Fifo!Spec

\* What follows for the array in use, each explained in TelemetryFifo: the
\* reserve holds transitions only, ...
ReserveHoldsTransitions == Fifo!ReserveHoldsTransitions

\* ... records leave once and in order, ...
InOrder == Fifo!InOrder

\* ... what was copied is still at the head when it is committed, ...
CopyStaysPrefix == Fifo!CopyStaysPrefix

\* ... and every sequence number is accounted for.
EveryNumberAccounted == Fifo!EveryNumberAccounted

=============================================================================
