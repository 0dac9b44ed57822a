---------------------------- MODULE Installation ----------------------------
(* What installing over the air promises, whatever power losses, failing    *)
(* writes, lost reports and uploads come in between: the device trusts one  *)
(* image, and another takes its place by being chosen, started on trial,    *)
(* validated and promoted, in that order.  One that falls short leaves the  *)
(* trusted image where it was.  A promoted release is recorded as the       *)
(* confirmed one before anything else is chosen, what is chosen is never an *)
(* older release, and the server hears of a release only after that.        *)
EXTENDS Naturals

CONSTANTS Releases, CounterOf, NoRelease, Factory, Development, Nothing

VARIABLES trusted,    \* the image every start falls back on
          candidate,  \* the image that may take its place, or Nothing
          phase,      \* how far the candidate has come
          confirmed,  \* the release recorded as confirmed
          floor       \* the highest counter the server knows to be confirmed

vars == <<trusted, candidate, phase, confirmed, floor>>

Counter(r) == IF r = NoRelease THEN 0 ELSE CounterOf[r]
Newer      == {r \in Releases : Counter(r) > Counter(confirmed)}

Init == /\ trusted = Factory /\ candidate = Nothing /\ phase = "rest"
        /\ confirmed = NoRelease /\ floor = 0

Choose ==
    /\ phase = "rest" /\ phase' = "chosen"
    /\ candidate' \in Newer \cup {Development}
    /\ UNCHANGED <<trusted, confirmed, floor>>

Try ==
    /\ phase = "chosen" /\ phase' = "trial"
    /\ UNCHANGED <<trusted, candidate, confirmed, floor>>

Validate ==
    /\ phase = "trial" /\ phase' = "validated"
    /\ UNCHANGED <<trusted, candidate, confirmed, floor>>

Abandon ==
    /\ phase \in {"trial", "validated"} /\ phase' = "rest"
    /\ candidate' = Nothing
    /\ UNCHANGED <<trusted, confirmed, floor>>

Promote ==
    /\ phase = "validated" /\ phase' = "promoted"
    /\ trusted' = candidate /\ candidate' = Nothing
    /\ UNCHANGED <<confirmed, floor>>

Record ==
    /\ phase = "promoted" /\ phase' = "rest"
    /\ confirmed' = IF trusted = Development THEN confirmed ELSE trusted
    /\ UNCHANGED <<trusted, candidate, floor>>

Learn ==
    /\ floor' \in (floor + 1)..Counter(confirmed)
    /\ UNCHANGED <<trusted, candidate, phase, confirmed>>

Next == \/ Choose \/ Try \/ Validate \/ Abandon \/ Promote \/ Record \/ Learn

Spec == Init /\ [][Next]_vars

=============================================================================
