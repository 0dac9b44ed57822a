-------------------------- MODULE MC_SettingsStore --------------------------
(* TLC instances of SettingsStore: the values are given in the cfg files.   *)
EXTENDS SettingsStore
=============================================================================
