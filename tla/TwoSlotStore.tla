---------------------------- MODULE TwoSlotStore ----------------------------
(***************************************************************************)
(* The two-slot store of device_config_storage.cpp and, written again, of   *)
(* command_journal.cpp.  A save picks the slot that a load would not read,  *)
(* writes a checksummed blob there, reads it back, and only then moves a    *)
(* one-byte marker.  Any write may fail or be cut off by a power loss; a    *)
(* blob may then be torn, which its checksum tells.                         *)
(***************************************************************************)
EXTENDS Naturals

CONSTANTS
    Values,       \* the configurations, or the journal records
    None, Torn,   \* an empty slot, an unreadable one
    Stamp,        \* the revision, or acceptedAtMs, of a value
    SkipsEqual    \* a save of what is loaded does nothing (configuration)

ASSUME TwoSlotAssumption ==
    /\ None \notin Values /\ Torn \notin Values \cup {None}
    /\ Stamp \in [Values -> Nat]
    /\ SkipsEqual \in BOOLEAN

VARIABLES
    slots, marker,        \* flash
    step, target, saving  \* the save under way

vars == <<slots, marker, step, target, saving>>

NoSlot == 2    \* also a marker that was never written

-----------------------------------------------------------------------------

Readable(i) == slots[i] \in Values

MarkedSlot ==
    IF Readable(marker) THEN marker
    ELSE IF Readable(1 - marker) THEN 1 - marker ELSE NoSlot

\* Both readable: the higher stamp, and slot 0 when they are equal.
NewestSlot ==
    IF Readable(1) /\ (Readable(0) => Stamp[slots[1]] > Stamp[slots[0]]) THEN 1
    ELSE IF Readable(0) THEN 0 ELSE NoSlot

Selected == IF marker = NoSlot THEN NewestSlot ELSE MarkedSlot

Loaded == IF Selected = NoSlot THEN None ELSE slots[Selected]

\* A faulty variant that goes by the marker alone; no action uses it.
MutTarget == IF marker = 0 THEN 1 ELSE 0

Target == IF Selected = 0 THEN 1 ELSE 0

-----------------------------------------------------------------------------

Init ==
    /\ slots = [i \in {0, 1} |-> None] /\ marker = NoSlot
    /\ step = "idle" /\ target = 0 /\ saving = None

BeginSave ==
    /\ step = "idle"
    /\ saving' \in Values
    /\ SkipsEqual => saving' # Loaded
    /\ target' = Target
    /\ step' = "write"
    /\ UNCHANGED <<slots, marker>>

\* putBytes reports success; what flash holds is for the read-back to tell.
WriteSlot ==
    /\ step = "write"
    /\ \E blob \in {saving, Torn} : slots' = [slots EXCEPT ![target] = blob]
    /\ step' = "verify"
    /\ UNCHANGED <<marker, target, saving>>

\* A faulty variant without the read-back; no action uses it.
MutVerify ==
    /\ step = "verify"
    /\ step' = "mark"
    /\ UNCHANGED <<slots, marker, target, saving>>

Verify ==
    /\ step = "verify"
    /\ slots[target] = saving
    /\ step' = "mark"
    /\ UNCHANGED <<slots, marker, target, saving>>

WriteMarker ==
    /\ step = "mark"
    /\ marker' = target
    /\ step' = "done"
    /\ UNCHANGED <<slots, target, saving>>

ReturnOk ==
    /\ step = "done"
    /\ step' = "idle" /\ saving' = None
    /\ UNCHANGED <<slots, marker, target>>

\* Power is lost, or the save returns an error: the write under way was done,
\* not done or, for a blob, left half done.
Interrupt ==
    /\ step # "idle"
    /\ \/ UNCHANGED <<slots, marker>>
       \/ /\ step = "write"
          /\ \E blob \in {saving, Torn} : slots' = [slots EXCEPT ![target] = blob]
          /\ UNCHANGED marker
       \/ /\ step = "mark"
          /\ marker' = target
          /\ UNCHANGED slots
    /\ step' = "idle" /\ saving' = None
    /\ UNCHANGED target

Next == \/ BeginSave \/ WriteSlot \/ Verify \/ WriteMarker \/ ReturnOk
        \/ Interrupt

Spec == Init /\ [][Next]_vars

-----------------------------------------------------------------------------
(* Properties.                                                             *)

\* The types, and what a save relies on: a marker points at a readable slot,
\* and the slot being written is not the one it points at.
StoreInv ==
    /\ slots \in [{0, 1} -> Values \cup {None, Torn}]
    /\ marker \in {0, 1, NoSlot}
    /\ target \in {0, 1}
    /\ saving \in Values \cup {None}
    /\ step \in {"idle", "write", "verify", "mark", "done"}
    /\ step = "idle" <=> saving = None
    /\ marker # NoSlot => Readable(marker)
    /\ step = "write" => target = Target
    /\ step = "verify" => marker # target
    /\ step \in {"mark", "done"} => slots[target] = saving
    /\ step = "done" => marker = target

\* The store is atomic: whatever interrupts a save, the next load returns the
\* old value or the new one, and never changes by itself afterwards.
Atomic == INSTANCE AtomicStore WITH value <- Loaded, saving <- saving

ImplementsAtomicStore == Atomic!Spec

=============================================================================
