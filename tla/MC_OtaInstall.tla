---------------------------- MODULE MC_OtaInstall ----------------------------
(* TLC instances of OtaInstall: two releases, two partitions.               *)
EXTENDS OtaInstall, TLC

CONSTANTS r1, r2, ota_0, ota_1

MCReleases == {r1, r2}
MCOne      == {r1}
MCCounter  == r1 :> 1 @@ r2 :> 2
MCCounter1 == r1 :> 1
MCSlots    == {ota_0, ota_1}

(* The right manifest of each release, and one whose signature is wrong.    *)
MCManifests ==
    {[of |-> r, parses |-> TRUE, trusted |-> TRUE, signed |-> TRUE] : r \in Releases}
MCManifestsFaulty ==
    MCManifests \cup {[of |-> r1, parses |-> TRUE, trusted |-> TRUE, signed |-> FALSE]}

=============================================================================
