--------------------------- MODULE SettingsStore ---------------------------
(***************************************************************************)
(* The store of the provisioned settings (device_settings.cpp): two slots    *)
(* of several fields, each slot with a valid flag, and a one-byte marker.    *)
(* Unlike the TwoSlotStore a save goes by the marker alone, and it makes     *)
(* several writes, one field at a time.  A write is atomic in NVS; power may *)
(* be lost, or a write fail, before or after any of them.                    *)
(***************************************************************************)
EXTENDS Naturals

CONSTANTS
    Values,    \* the settings an operator provisions
    None,      \* no settings, an empty field
    Fields     \* how many fields make up the settings

ASSUME SettingsAssumption ==
    /\ None \notin Values
    /\ Fields \in Nat \ {0}

VARIABLES
    valid, field, marker,       \* flash; field[s][f] names the value it is of
    step, saving, target, next  \* the save under way, the field it writes next

vars == <<valid, field, marker, step, saving, target, next>>

Slots    == {0, 1}
NoMarker == 2

-----------------------------------------------------------------------------
(* loadDeviceSettings: the marked slot, and the other one if that is not    *)
(* valid; slot 0 counts as marked if nothing is.                            *)

Primary == IF marker \in Slots THEN marker ELSE 0

Readable(s) == valid[s] /\ \A f \in 1..Fields : field[s][f] # None

Loaded ==
    IF Readable(Primary) THEN field[Primary]
    ELSE IF Readable(1 - Primary) THEN field[1 - Primary]
    ELSE [f \in 1..Fields |-> None]

Whole(v) == [f \in 1..Fields |-> v]

-----------------------------------------------------------------------------

Init ==
    /\ valid = [s \in Slots |-> FALSE]
    /\ field = [s \in Slots |-> Whole(None)]
    /\ marker = NoMarker
    /\ step = "idle" /\ saving = None /\ target = 0 /\ next = 1

\* A faulty variant that takes the active slot; no action uses it.
MutTarget == IF marker = 0 THEN 0 ELSE 1

Target == IF marker = 0 THEN 1 ELSE 0

BeginSave ==
    /\ step = "idle"
    /\ saving' \in Values
    /\ target' = Target
    /\ step' = "invalidate" /\ next' = 1
    /\ UNCHANGED <<valid, field, marker>>

\* A faulty variant that leaves the flag up; no action uses it.
MutInvalidate ==
    /\ step = "invalidate"
    /\ step' = "fields"
    /\ UNCHANGED <<valid, field, marker, saving, target, next>>

Invalidate ==
    /\ step = "invalidate"
    /\ valid' = [valid EXCEPT ![target] = FALSE]
    /\ step' = "fields"
    /\ UNCHANGED <<field, marker, saving, target, next>>

WriteField ==
    /\ step = "fields"
    /\ field' = [field EXCEPT ![target][next] = saving]
    /\ next' = next + 1
    /\ step' = IF next = Fields THEN "validate" ELSE "fields"
    /\ UNCHANGED <<valid, marker, saving, target>>

Validate ==
    /\ step = "validate"
    /\ valid' = [valid EXCEPT ![target] = TRUE]
    /\ step' = "mark"
    /\ UNCHANGED <<field, marker, saving, target, next>>

WriteMarker ==
    /\ step = "mark"
    /\ marker' = target
    /\ step' = "idle" /\ saving' = None
    /\ UNCHANGED <<valid, field, target, next>>

\* A write failed, or power was lost: the save ends where it stands.
Interrupt ==
    /\ step # "idle"
    /\ step' = "idle" /\ saving' = None
    /\ UNCHANGED <<valid, field, marker, target, next>>

Next == \/ BeginSave \/ Invalidate \/ WriteField \/ Validate \/ WriteMarker
        \/ Interrupt

Spec == Init /\ [][Next]_vars

-----------------------------------------------------------------------------
(* Properties.                                                             *)

\* What is loaded was saved as a whole: never the network name of one
\* provisioning with the token of another.
NeverMixed == \E v \in Values \cup {None} : Loaded = Whole(v)

\* Once a marker is written a save happens entirely or not at all: the next
\* load returns the old settings until it returns all of the new ones.
OnceMarkedAtomic ==
    [][marker # NoMarker => Loaded' \in {Loaded, Whole(saving)}]_vars

\* device_settings.cpp says that a reset at any point before the marker moves
\* leaves the previous active slot untouched: a device once provisioned is
\* provisioned at every later start.
StaysProvisioned ==
    [][Loaded # Whole(None) => Loaded' # Whole(None)]_vars

=============================================================================
