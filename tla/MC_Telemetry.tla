---------------------------- MODULE MC_Telemetry ----------------------------
(* Safety of the ring and of the way from the queue to the server.  Each is *)
(* checked in an instance of its own: a behaviour is one of a single part,  *)
(* chosen at its start, while the others stay as they were.                 *)
(*                                                                          *)
(* Ring: four slots with two reserved let head and tail wrap within MaxSeq  *)
(* numbers, two revisions give a batch a boundary inside it.  Path: two     *)
(* boots are one power loss, two anchors let the boots' clocks differ, two  *)
(* copies of a request put a late one beside its retry.  Anchors and copies *)
(* are only compared, so they are model values and permute freely.          *)
(* Restored: one boot and one sample under a server that is restored twice. *)
EXTENDS TelemetryQueue, PipelineProperties, TLC

CONSTANTS Anchors, Tries

VARIABLE part

queueVars ==
    <<slots, head, size, criticalOnly, droppedSamples, droppedCritical, nextSeq,
      mainRevision, copied, committed, drained, diverted>>
pathVars ==
    <<boot, usedBoots, queue, recordSeq, mainConfig, box, ackedRevision, work,
      prefix, post, answer, active, pending, anchor, probe, halted, stored, spool,
      dead, wire, db, backup, restores, frozen, delivered, evicted>>

Path == INSTANCE TelemetryPipeline WITH
    QueueCapacity <- 2, MaxBatch <- 2, SpoolLimit <- 2, DeadLimit <- 1,
    BootIds <- {1, 2}, MaxSamples <- 1, MaxRevision <- 2, MaxRestores <- 0

Restored == INSTANCE TelemetryPipeline WITH
    QueueCapacity <- 2, MaxBatch <- 2, SpoolLimit <- 2, DeadLimit <- 1,
    Anchors <- {1}, BootIds <- {1}, Tries <- {1},
    MaxSamples <- 1, MaxRevision <- 2, MaxRestores <- 2

InRing(A) == part = "ring" /\ A /\ UNCHANGED <<part, pathVars>>
InPath(A) == part = "path" /\ A /\ UNCHANGED <<part, queueVars>>
InRestored(A) == part = "restored" /\ A /\ UNCHANGED <<part, queueVars>>

SumInit ==
    /\ part \in {"ring", "path", "restored"} /\ Init /\ Path!Init
    /\ part # "path" => boot = 1    \* one start for the other parts

SumNext == InRing(Next) \/ InPath(Path!Next) \/ InRestored(Restored!Next)

SumSpec == SumInit /\ [][SumNext]_<<part, queueVars, pathVars>>

MCRevisions == {1, 2}
MCSymmetry  == Permutations(Anchors) \cup Permutations(Tries)

=============================================================================
