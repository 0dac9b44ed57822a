---------------------------- MODULE MC_OtaGuard ----------------------------
(* One instance of OtaGuard: a queue of two records, one slot kept for      *)
(* critical ones, and room for one correction.                              *)
EXTENDS OtaGuard

=============================================================================
