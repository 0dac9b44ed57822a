----------------------------- MODULE OtaJournal -----------------------------
(* What the OTA code computes without a state of its own: the journal of an *)
(* image transaction (ota_install_state), the boot policy that reads it     *)
(* (ota_boot_policy) and the verification of a release (ota_manifest,       *)
(* ota_release, ota_control_validation).  A release stands for its id,      *)
(* firmware version and build id, an image for its digest.                  *)
EXTENDS Naturals, FiniteSets

CONSTANTS
    Releases,     \* the signed releases the console can select
    CounterOf,    \* the counter of each release
    NoRelease,    \* an empty release id
    Factory,      \* the image flashed over USB
    Development,  \* the image of a development upload
    Torn,         \* a slot erased, or written in part
    Slots         \* the two application partitions

ASSUME OtaAssumption ==
    /\ CounterOf \in [Releases -> Nat \ {0}]
    /\ \A r, s \in Releases : CounterOf[r] = CounterOf[s] => r = s
    /\ NoRelease \notin Releases
    /\ Cardinality({Factory, Development, Torn} \ Releases) = 3
    /\ IsFiniteSet(Slots) /\ Cardinality(Slots) = 2

Images     == Releases \cup {Factory, Development}
Names      == Releases \cup {NoRelease}
Counter(r) == IF r = NoRelease THEN 0 ELSE CounterOf[r]

(* OtaInstallState.  image is the digest of the accepted image, Torn while  *)
(* none is accepted (pendingImageAccepted <=> the digest is not zero).      *)
Journal == [pending     : {"none", "production", "development"},
            release     : Names,
            slot        : Slots,
            image       : Images \cup {Torn},
            validated   : BOOLEAN,
            confirmed   : Names,
            previous    : Names,
            development : BOOLEAN]

AnySlot == CHOOSE s \in Slots : TRUE

Cleared(j) == [j EXCEPT !.pending = "none", !.release = NoRelease,
                        !.slot = AnySlot, !.image = Torn, !.validated = FALSE]

EmptyJournal == [pending |-> "none", release |-> NoRelease, slot |-> AnySlot,
                 image |-> Torn, validated |-> FALSE, confirmed |-> NoRelease,
                 previous |-> NoRelease, development |-> FALSE]

Accepted(j) == j.image # Torn

JournalValid(j) ==
    /\ j.confirmed = NoRelease => j.previous = NoRelease
    /\ j.pending = "none" => j = Cleared(j)
    /\ j.validated => Accepted(j)
    /\ j.pending = "development" => j.release = NoRelease
    /\ j.pending = "production" => Counter(j.release) > Counter(j.confirmed)

(* The release the running image is, by version and build, if the journal   *)
(* names it as confirmed and no development image has taken over.           *)
RunsConfirmed(j, image) ==
    JournalValid(j) /\ ~j.development /\ j.confirmed # NoRelease /\ j.confirmed = image

CanStage(j, r) == JournalValid(j) /\ Counter(r) > Counter(j.confirmed)

Staged(j, r, s) == [Cleared(j) EXCEPT !.pending = "production", !.release = r, !.slot = s]

CanStageDevelopment(j) == JournalValid(j) /\ j.pending = "none"

StagedDevelopment(j, s) == [Cleared(j) EXCEPT !.pending = "development", !.slot = s]

CanAccept(j, s) == JournalValid(j) /\ j.pending # "none" /\ ~Accepted(j) /\ j.slot = s

WithAccepted(j, image) == [j EXCEPT !.image = image]

IdentityMatches(j, s, image) ==
    JournalValid(j) /\ j.pending # "none" /\ Accepted(j) /\ j.slot = s /\ j.image = image

Cancelled(j, kind) == IF j.pending = kind THEN Cleared(j) ELSE j

CanValidate(j, image) ==
    /\ JournalValid(j) /\ j.pending # "none" /\ Accepted(j)
    /\ j.pending = "production" => j.release = image

Validated(j) == [j EXCEPT !.validated = TRUE]

CanConfirmDevelopment(j) ==
    JournalValid(j) /\ j.pending = "development" /\ Accepted(j) /\ j.validated

\* A faulty variant that does not mark the image as a development one.
MutDevelopmentConfirmed(j) == Cleared(j)

DevelopmentConfirmed(j) == [Cleared(j) EXCEPT !.development = TRUE]

CanConfirmRelease(j, image) ==
    JournalValid(j) /\ j.pending = "production" /\ j.validated /\ j.release = image

\* A faulty variant that clears the transaction and names no release.
MutReleaseConfirmed(j) == Cleared(j)

ReleaseConfirmed(j) ==
    [Cleared(j) EXCEPT !.previous = j.confirmed, !.confirmed = j.release, !.development = FALSE]

(* decideOtaBootRecovery: what to do with the image that was started.       *)
Recovery(j, state, s, image) ==
    LET same == IdentityMatches(j, s, image)
        named == j.pending = "production" => j.release = image
    IN  CASE ~JournalValid(j) -> "halt"
          [] j.pending = "none" /\ state = "pending_verify" -> "rollback"
          [] j.pending = "none" /\ state \in {"valid", "undefined"} -> "ordinary"
          [] j.pending # "none" /\ state = "pending_verify" ->
                IF same /\ named THEN "validate" ELSE "rollback"
          [] j.pending # "none" /\ state = "valid" /\ same /\ named /\ j.validated ->
                IF j.pending = "production" THEN "promote" ELSE "clear"
          [] j.pending # "none" /\ state \in {"valid", "undefined"} /\ ~same ->
                IF j.pending = "production" THEN "report_rollback" ELSE "clear"
          [] OTHER -> "halt"

(* A manifest as the server may hand it out: it describes some release, and *)
(* its bytes (with the model and the size they state), the key it names and *)
(* the signature may each be wrong.                                         *)
Manifest == [of : Releases, parses : BOOLEAN, trusted : BOOLEAN, signed : BOOLEAN]

(* otaVerifyP256Sha256Digest over the manifest's digest. *)
SignatureGood(m) == m.signed

(* validateOtaRelease, in the order of its checks. *)
ReleaseAccepted(m, confirmed) ==
    m.parses /\ CounterOf[m.of] > Counter(confirmed) /\ m.trusted /\ SignatureGood(m)

(* validateOtaControlClaims: everything the poll said of the release is in  *)
(* the signed manifest.                                                     *)
ClaimsMatch(r, m) == m.of = r

=============================================================================
