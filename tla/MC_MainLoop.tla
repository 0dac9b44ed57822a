---------------------------- MODULE MC_MainLoop ----------------------------
(* Safety of what the main loop decides on its own, the presence state, and *)
(* of what it is asked to do, remote commands.  Of each other the two see   *)
(* only that a confirmation is pending, which Presence leaves open, so a    *)
(* behaviour is one of a single part, chosen at its start, while the other  *)
(* stays as it was.                                                         *)
(*                                                                          *)
(* Presence: two configurations, one with a long bridge and a cooldown, one *)
(* with neither and a long minimum.  Commands: one to reboot, one for main. *)
EXTENDS Presence, ControlProperties

VARIABLE part

commandVars ==
    <<row, acks, record, step, halted, restartAfter, call, reply, journal, wire,
      slot, mainActive, reboots, effects>>

Command == INSTANCE ControlCommand

InPresence(A) == part = "presence" /\ A /\ UNCHANGED <<part, commandVars>>
InCommand(A)  == part = "command" /\ A /\ UNCHANGED <<part, presenceVars>>

MCConfig(minimumOn, pirHold, soundHold, bridge, cooldown) ==
    [minimumOn |-> minimumOn, pirHold |-> pirHold, soundHold |-> soundHold,
     bridge |-> bridge, cooldown |-> cooldown]

MCBridging == MCConfig(1, 3, 1, 4, 2)
MCPlain    == MCConfig(3, 1, 2, 0, 0)
MCConfigs  == {MCBridging, MCPlain}
MCLongest  == MCConfig(3, 3, 2, 4, 2)

MCRebootThenOpen == <<"reboot", "open_dev_ota">>

SumInit ==
    /\ part \in {"presence", "command"} /\ Init /\ Command!Init
    /\ part = "command" => config = MCPlain    \* one start for the other part

SumNext == InPresence(Next) \/ InCommand(Command!Next)

SumSpec == SumInit /\ [][SumNext]_<<part, presenceVars, commandVars>>

=============================================================================
