---------------------- MODULE TelemetryQueueParameters ----------------------
(* The sizes of the telemetry queue, shared by what the queue promises      *)
(* (TelemetryFifo) and by the ring that keeps the promise (TelemetryQueue). *)
EXTENDS Naturals

CONSTANTS Capacity,   \* TelemetryQueue::kCapacity
          Reserved,   \* TelemetryQueue::kReservedTransitionSlots
          MaxBatch,   \* kTelemetryUploadMaximumRecords, the worker's array
          Revisions,  \* the configuration revisions the server publishes
          MaxSeq      \* bound: how many sequence numbers a boot hands out

ASSUME QueueAssumption ==
    /\ Capacity \in Nat \ {0}
    /\ Reserved \in 0..Capacity
    /\ MaxBatch \in Nat \ {0}
    /\ Revisions \subseteq Nat
    /\ MaxSeq \in Nat

=============================================================================
