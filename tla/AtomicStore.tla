---------------------------- MODULE AtomicStore ----------------------------
(***************************************************************************)
(* What the stores in NVS promise their callers: a save that is cut short,  *)
(* by a power loss or a failing write, happened entirely or not at all, and *)
(* does not happen later; a save reported as done is what a load returns.   *)
(***************************************************************************)
CONSTANTS Values, None

VARIABLES value,   \* what a load returns now
          saving   \* what is being saved, or None

vars == <<value, saving>>

Init == value = None /\ saving = None

Begin ==
    /\ saving = None
    /\ saving' \in Values
    /\ UNCHANGED value

TakeEffect ==
    /\ saving # None
    /\ value' = saving
    /\ UNCHANGED saving

Succeed ==
    /\ saving # None /\ value = saving
    /\ saving' = None
    /\ UNCHANGED value

Interrupt ==
    /\ saving # None
    /\ value' \in {value, saving}
    /\ saving' = None

Next == Begin \/ TakeEffect \/ Succeed \/ Interrupt

Spec == Init /\ [][Next]_vars

=============================================================================
