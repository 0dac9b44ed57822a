------------------------- MODULE MC_ControlCommand -------------------------
(* TLC instances of ControlCommand, named for what the commands ask for.    *)
EXTENDS ControlCommand

MCOpen                == <<"open_dev_ota">>
MCLocal               == <<"local">>

=============================================================================
