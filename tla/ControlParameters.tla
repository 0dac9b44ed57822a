------------------------- MODULE ControlParameters -------------------------
(* The parameters of ControlCommand and what is assumed of them, in a       *)
(* module of their own so that the instances TLC checks state them too.     *)
EXTENDS Naturals

CONSTANTS
    MaxCommands,    \* bound: commands the console creates, in this order
    MaxLeases,      \* bound: leases given out per command
    MaxReboots,     \* bound: power losses
    StorageFaults,  \* whether a journal write may fail
    ActionOf        \* what each command asks for

Commands == 1..MaxCommands
Actions  == {"local", "reboot", "recalibrate", "open_dev_ota"}

ASSUME ControlAssumption ==
    /\ {MaxCommands, MaxLeases, MaxReboots} \subseteq Nat
    /\ StorageFaults \in BOOLEAN
    /\ ActionOf \in [Commands -> Actions]

=============================================================================
