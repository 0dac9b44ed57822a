--------------------------- MODULE TelemetryFifo ---------------------------
(***************************************************************************)
(* What TelemetryQueue promises its two users, with the ring taken away: a *)
(* bounded FIFO of records.  The main loop (Core 1) is the only producer,  *)
(* the uploader worker (Core 0) the only consumer.  The worker never pops: *)
(* it copies a prefix, makes it durable without holding the queue's lock,  *)
(* and only then commits, that is removes, the prefix it copied.           *)
(*                                                                         *)
(* Every operation of the queue runs inside one portMUX critical section,  *)
(* so each is one step; what interleaves is the gap between a copy and its *)
(* commit.                                                                 *)
(***************************************************************************)
EXTENDS TelemetryQueueParameters, Sequences

VARIABLES
    queue,            \* the records, oldest first
    criticalOnly,     \* set by the worker around an OTA transfer
    droppedSamples,   \* samples refused so far
    droppedCritical,  \* transitions refused so far
    nextSeq,          \* nextTelemetrySeq, the main loop's counter
    mainRevision,     \* activeConfig.revision of the main loop
    copied,           \* the worker's local array between copy and commit
    committed,        \* history: how many records were committed
    drained,          \* history: a bound above every committed sequence number
    diverted          \* history: sequence numbers given to touch corrections

queueVars  == <<queue, criticalOnly, droppedSamples, droppedCritical>>
mainVars   == <<nextSeq, mainRevision, diverted>>
workerVars == <<copied, committed, drained>>
vars       == <<queueVars, mainVars, workerVars>>

-----------------------------------------------------------------------------

Kinds  == {"sample", "transition"}
Record == [kind : Kinds, seq : Nat, rev : Nat]

\* push() refuses a sample above this depth, a transition only when full.
SampleLimit == Capacity - Reserved

SampleRefused(kind, size) ==
    kind = "sample" /\ (criticalOnly \/ size >= SampleLimit)

Smaller(a, b) == IF a < b THEN a ELSE b

\* k is the length of the leading run of recs that shares one revision.
IsRevisionPrefix(recs, k) ==
    /\ k \in 1..Len(recs)
    /\ \A i \in 1..k : recs[i].rev = recs[1].rev
    /\ k < Len(recs) => recs[k + 1].rev # recs[1].rev

-----------------------------------------------------------------------------

Init ==
    /\ queue = <<>>
    /\ criticalOnly = FALSE
    /\ droppedSamples = 0 /\ droppedCritical = 0
    /\ nextSeq = 0 /\ mainRevision = 0 /\ diverted = 0
    /\ copied = <<>>
    /\ committed = 0 /\ drained = 0

-----------------------------------------------------------------------------
(* The main loop.                                                          *)

DropSample(rec) ==
    /\ SampleRefused(rec.kind, Len(queue))
    /\ droppedSamples' = droppedSamples + 1
    /\ UNCHANGED <<queue, droppedCritical>>

DropCritical(rec) ==
    /\ ~SampleRefused(rec.kind, Len(queue))
    /\ Len(queue) >= Capacity
    /\ droppedCritical' = droppedCritical + 1
    /\ UNCHANGED <<queue, droppedSamples>>

Store(rec) ==
    /\ ~SampleRefused(rec.kind, Len(queue))
    /\ Len(queue) < Capacity
    /\ queue' = Append(queue, rec)
    /\ UNCHANGED <<droppedSamples, droppedCritical>>

Offer(kind, rev) ==
    LET rec == [kind |-> kind, seq |-> nextSeq, rev |-> rev]
    IN  /\ nextSeq < MaxSeq
        /\ nextSeq' = nextSeq + 1
        /\ UNCHANGED <<criticalOnly, diverted, workerVars>>
        /\ DropSample(rec) \/ DropCritical(rec) \/ Store(rec)

EnqueueSample == Offer("sample", mainRevision) /\ UNCHANGED mainRevision

EnqueueTransition ==
    Offer("transition", mainRevision) /\ UNCHANGED mainRevision

\* A newer configuration takes effect: the boundary record carries it.
ApplyConfig(rev) ==
    /\ rev > mainRevision
    /\ mainRevision' = rev
    /\ Offer("transition", rev)

\* A button correction reserves a number for a sample that goes elsewhere.
TouchCorrection ==
    /\ nextSeq < MaxSeq
    /\ nextSeq' = nextSeq + 1
    /\ diverted' = diverted + 1
    /\ UNCHANGED <<queueVars, mainRevision, workerVars>>

-----------------------------------------------------------------------------
(* The worker.                                                             *)

\* Only around an OTA transfer, never in the middle of a freeze.
SetCriticalOnly(enabled) ==
    /\ copied = <<>>
    /\ criticalOnly' = enabled
    /\ UNCHANGED <<queue, droppedSamples, droppedCritical, mainVars,
                   workerVars>>

CopyPrefix ==
    /\ copied = <<>>
    /\ queue # <<>>
    /\ copied' = SubSeq(queue, 1, Smaller(Len(queue), MaxBatch))
    /\ UNCHANGED <<queueVars, mainVars, committed, drained>>

\* freezeQueueIfNeeded returns early: a short batch, a failed flash write, or a
\* commitPrefix() that answered false and so removed nothing.
Abandon ==
    /\ copied # <<>>
    /\ copied' = <<>>
    /\ UNCHANGED <<queueVars, mainVars, committed, drained>>

\* The queue still starts with the first k copied records.
StillPrefix(k) ==
    /\ k <= Len(queue)
    /\ \A i \in 1..k : queue[i] = copied[i]

CommitPrefix(k) ==
    /\ \E m \in 1..Len(copied) : IsRevisionPrefix(SubSeq(copied, 1, m), k)
    /\ StillPrefix(k)
    /\ queue' = SubSeq(queue, k + 1, Len(queue))
    /\ committed' = committed + k
    /\ drained' = copied[k].seq + 1
    /\ copied' = <<>>
    /\ UNCHANGED <<criticalOnly, droppedSamples, droppedCritical, mainVars>>

-----------------------------------------------------------------------------

Next ==
    \/ EnqueueSample
    \/ EnqueueTransition
    \/ \E rev \in Revisions : ApplyConfig(rev)
    \/ TouchCorrection
    \/ \E enabled \in BOOLEAN : SetCriticalOnly(enabled)
    \/ CopyPrefix
    \/ Abandon
    \/ \E k \in 1..MaxBatch : CommitPrefix(k)

Spec == Init /\ [][Next]_vars

-----------------------------------------------------------------------------
(* Properties.                                                             *)

\* The types; the queue and the worker's array stay inside their arrays.
TypeOK ==
    /\ queue \in Seq(Record) /\ Len(queue) <= Capacity
    /\ criticalOnly \in BOOLEAN
    /\ droppedSamples \in Nat /\ droppedCritical \in Nat
    /\ nextSeq \in Nat /\ mainRevision \in Nat /\ diverted \in Nat
    /\ copied \in Seq(Record) /\ Len(copied) <= MaxBatch
    /\ committed \in Nat /\ drained \in Nat

\* The slots above SampleLimit only ever hold transitions: a sample cannot
\* use the reserve that push() keeps for state transitions, at any moment
\* and after any pattern of commits.
ReserveHoldsTransitions ==
    \A i \in DOMAIN queue : i > SampleLimit => queue[i].kind = "transition"

\* Records leave in the order of their sequence numbers, no number is handed
\* to the worker twice, and the revision stamps never go back: this is what
\* makes (device, boot, seq) an identity and a revision run a contiguous one.
InOrder ==
    /\ \A i \in DOMAIN queue : queue[i].seq \in drained..(nextSeq - 1)
    /\ \A i \in DOMAIN queue : queue[i].rev <= mainRevision
    /\ \A i, j \in DOMAIN queue :
           i < j => queue[i].seq < queue[j].seq /\ queue[i].rev <= queue[j].rev

\* What the worker copied is still the head of the queue when it comes back
\* from the flash write, whatever the main loop pushed meanwhile; so the
\* commit after a rename cannot fail and leave a record both in the queue and
\* in the spool.
CopyStaysPrefix ==
    Len(copied) <= Len(queue) /\ StillPrefix(Len(copied))

\* Every sequence number is committed, still queued, counted as dropped or
\* given to a touch correction: a gap in the history is always explained.
EveryNumberAccounted ==
    nextSeq = committed + Len(queue) + droppedSamples + droppedCritical
              + diverted

=============================================================================
