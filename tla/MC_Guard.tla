------------------------------ MODULE MC_Guard ------------------------------
(* Safety of the two-slot store, and of what surrounds the transfer of an   *)
(* image.  They share no state, so a behaviour is one of a single part,     *)
(* chosen at its start, while the other stays as it was.                    *)
(*                                                                          *)
(* Store: three values, two of them with one stamp, as the records of one   *)
(* command have it; revisions never do.  Transfer: a queue of two records,  *)
(* one slot kept for critical ones, and room for one correction.            *)
EXTENDS TwoSlotStore, OtaGuard

CONSTANTS v1, v2, v3

VARIABLE part

InStore(A)    == part = "store" /\ A /\ UNCHANGED <<part, transferVars>>
InTransfer(A) == part = "transfer" /\ A /\ UNCHANGED <<part, vars>>

SumInit ==
    /\ part \in {"store", "transfer"} /\ Init /\ GuardInit
    /\ part = "store" => otaPhase = "inactive"    \* one start for the other part

SumNext == InStore(Next) \/ InTransfer(GuardNext)

SumSpec == SumInit /\ [][SumNext]_<<part, vars, transferVars>>

MCValues == {v1, v2, v3}
MCStamp  == [v \in MCValues |-> IF v = v3 THEN 2 ELSE 1]

=============================================================================
