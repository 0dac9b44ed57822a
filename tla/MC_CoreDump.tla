---------------------------- MODULE MC_CoreDump ----------------------------
(* TLC instance of CoreDump: the values are given in the cfg file.  Nothing *)
(* but power fails, and five boots are two crashes with starts between.     *)
EXTENDS CoreDump
=============================================================================
