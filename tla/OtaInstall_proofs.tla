------------------------ MODULE OtaInstall_proofs ------------------------
(* What the installation of an image over the air promises, for any number  *)
(* of releases, losses of power, failing flash writes and uploads.          *)
(*                                                                          *)
(* The trusted partition carries the argument: the one that has run and was *)
(* not aborted.  A start never changes which one it is, whatever it starts: *)
(* an image chosen and not yet started goes on trial while the one before   *)
(* it stays trusted, and an image on trial at the reset is aborted.  Only   *)
(* ConfirmAfterPersistence moves it, and only once the journal in flash     *)
(* names the image on trial as the pending one, accepted and validated.     *)
EXTENDS OtaInstall, TLAPS, FiniteSetTheorems

Steps == {"boot", "idle", "fail", "manifest", "stream", "write", "accepted", "restart",
          "upload", "upload_written", "upload_ended", "upload_failed"}

\* TypeOK, and the types of what it leaves out.
TypeInv ==
    /\ TypeOK
    /\ step \in Steps /\ {healthy, pendingRun, staged} \subseteq BOOLEAN
    /\ snapshot \in [known : BOOLEAN, healthy : BOOLEAN, prepared : BOOLEAN]
    /\ server = [target |-> server.target, completed |-> server.completed,
                 floor |-> server.floor, latest |-> server.latest]
    /\ server.floor \in Nat

\* Both partitions hold what their entries say, up to the one being written.
SlotInv ==
    /\ image[running] # Torn
    /\ otadata[running] \in {"undefined", "valid", "pending_verify"}
    /\ otadata[Inactive] # "pending_verify"
    /\ OnTrial => /\ boot = running /\ image[Inactive] # Torn
                  /\ otadata[Inactive] \in {"undefined", "valid"}
    /\ Chosen => boot = Inactive /\ image[Inactive] # Torn
    /\ boot = Inactive => otadata[Inactive] \in {"new", "invalid", "aborted"}

\* What the main loop does is about the image on trial, and it has told so.
TrialInv ==
    /\ main \in {"waiting", "awaiting_persistence", "platform_error"} <=> OnTrial
    /\ notice = "prepare" => main = "awaiting_persistence"
    /\ notice = "confirmed" => main = "confirmed"
    /\ main = "confirmed" => otadata[running] = "valid"
    /\ snapshot.prepared /\ Validating => pendingRun /\ install.validated

\* The journal names the release in the slot.
NamedBy(j, s) == j.pending = "production" => j.release = image[s]

\* Where the worker is says what it has in its hands.
StepInv ==
    /\ step = "boot" => install = EmptyJournal /\ due = {}
    /\ pendingRun => step = "idle"
    /\ OnTrial => step \in {"boot", "idle"} /\ (step = "idle" => ~healthy \/ pendingRun)
    /\ Chosen =>
           \/ step \in {"restart", "upload_ended"}
           \/ step = "upload_failed" /\ staged
           \/ step \in {"idle", "fail"} /\ ~pendingRun
              /\ (~healthy \/ install.pending = "development")
    /\ step \in {"manifest", "stream", "write", "accepted", "upload", "upload_written",
                 "upload_ended", "restart"} => healthy
    /\ step \in {"manifest", "stream", "write", "accepted"} => desired \in Releases
    /\ step = "manifest" => install.pending = "none"
    /\ step \in {"stream", "write", "accepted"} =>
           install.pending = "production" /\ install.slot = Inactive
    /\ step = "accepted" => image[Inactive] # Torn
    /\ step \in {"upload_written", "upload_ended"} => staged
    /\ step \in {"upload", "upload_written", "upload_ended", "upload_failed"} /\ staged =>
           healthy /\ install.pending = "development" /\ install.slot = Inactive
    /\ step \in {"upload", "upload_written"} /\ staged => ~Accepted(install)
    /\ step = "upload" /\ ~staged => install.pending = "none"
    /\ step = "upload_ended" => Chosen
    /\ step = "fail" => outcome[1] \in {"failed", "rejected"}
    /\ "rolled_back" \in due =>
           /\ step = "idle" /\ ~pendingRun /\ ~Chosen /\ ~OnTrial
           /\ healthy => install.pending = "production"
           /\ install.release # NoRelease =>
                  healthy /\ ~MatchesIn(install, running)

\* What flash says of the transaction and what the worker holds of it.
CopyInv ==
    /\ step # "boot" /\ healthy =>
           \/ journal = install
           \/ /\ Chosen /\ step \in {"upload_failed", "idle"}
              /\ install.pending = "development"
              /\ journal = WithAccepted(install, image[Inactive])
    /\ Counter(install.confirmed) <= Counter(Loaded.confirmed)
    /\ pendingRun =>
           /\ MatchesIn(install, running) /\ NamedBy(install, running)
           /\ \/ journal \in {install, Validated(install)}
              \/ main = "confirmed" /\ notice = "none" /\ ~healthy /\ journal = Promoted

\* What flash says of the transaction fits what is in the partitions.
JournalInv ==
    /\ Chosen \/ OnTrial =>
           /\ journal.pending \in {"production", "development"} /\ journal.slot = boot
           /\ Accepted(journal) => boot \in passed
    /\ otadata[Trusted] = "valid" => Trusted \in passed
    /\ MatchesIn(journal, Trusted) =>
           otadata[Trusted] = "valid" /\ journal.validated /\ NamedBy(journal, Trusted)
    /\ journal.confirmed # NoRelease /\ ~journal.development /\ ~MatchesIn(journal, Trusted) =>
           image[Trusted] = journal.confirmed

InstallInv == TypeInv /\ SlotInv /\ TrialInv /\ StepInv /\ CopyInv /\ JournalInv
              /\ FloorIsConfirmed
-----------------------------------------------------------------------------
(* Slots, images and counters.                                              *)

\* There are two partitions, and the other one of the other one is the first.
LEMMA TwoSlots ==
  /\ AnySlot \in Slots
  /\ \A s \in Slots :
        /\ OtherSlot(s) \in Slots /\ OtherSlot(s) # s /\ OtherSlot(OtherSlot(s)) = s
        /\ \A t \in Slots : t = s \/ t = OtherSlot(s)
<1>1. IsFiniteSet(Slots) /\ Cardinality(Slots) = 2
  BY OtaAssumption
<1>2. \A s \in Slots : \E t \in Slots : t # s /\ Slots = {s, t}
  <2> TAKE s \in Slots
  <2>1. IsFiniteSet(Slots \ {s}) /\ Cardinality(Slots \ {s}) = 1
    BY <1>1, FS_RemoveElement
  <2>2. PICK t : Slots \ {s} = {t}
    BY <2>1, FS_Singleton
  <2> QED
    BY <2>2
<1>3. Slots # {}
  BY <1>1, FS_EmptySet
<1>4. AnySlot \in Slots
  BY <1>3 DEF AnySlot
<1>5. ASSUME NEW s \in Slots
      PROVE  /\ OtherSlot(s) \in Slots /\ OtherSlot(s) # s
             /\ \A t \in Slots : t = s \/ t = OtherSlot(s)
  <2>1. PICK t \in Slots : t # s /\ Slots = {s, t}
    BY <1>2
  <2>2. \A u \in Slots : u # s => u = t
    BY <2>1
  <2>3. OtherSlot(s) \in Slots /\ OtherSlot(s) # s
    BY <2>1 DEF OtherSlot
  <2> QED
    BY <2>2, <2>3
<1> QED
  BY <1>4, <1>5

\* The partition the worker writes to.
LEMMA InactiveSlot ==
  ASSUME running \in Slots
  PROVE  /\ Inactive \in Slots /\ Inactive # running /\ OtherSlot(Inactive) = running
         /\ \A s \in Slots : s = running \/ s = Inactive
BY TwoSlots DEF Inactive

\* A release is neither an erased slot nor one of the images without a release.
LEMMA ApartImages ==
  /\ Torn \notin Releases /\ Factory \notin Releases /\ Development \notin Releases
  /\ Factory # Torn /\ Development # Torn /\ Factory # Development
<1> DEFINE Three == {Factory, Development, Torn} \ Releases
<1>1. Cardinality(Three) = 3
  BY OtaAssumption
<1>2. ASSUME NEW x, NEW y, Three \subseteq {x, y}
      PROVE  FALSE
  <2>1. IsFiniteSet({x}) /\ Cardinality({x}) = 1
    BY FS_Singleton
  <2>2. IsFiniteSet({x} \cup {y}) /\ Cardinality({x} \cup {y}) \in {1, 2}
    BY <2>1, FS_AddElement
  <2>3. Three \in SUBSET ({x} \cup {y})
    BY <1>2
  <2>4. Cardinality(Three) <= Cardinality({x} \cup {y})
    BY <2>2, <2>3, FS_Subset
  <2> QED
    BY <1>1, <2>2, <2>4
<1>3. ASSUME Torn \in Releases \/ Factory = Torn \/ Development = Torn
      PROVE  FALSE
  <2>1. Three \subseteq {Factory, Development}
    BY <1>3
  <2> QED
    BY <2>1, <1>2
<1>4. ASSUME Factory \in Releases \/ Factory = Development
      PROVE  FALSE
  <2>1. Three \subseteq {Development, Torn}
    BY <1>4
  <2> QED
    BY <2>1, <1>2
<1>5. ASSUME Development \in Releases
      PROVE  FALSE
  <2>1. Three \subseteq {Factory, Torn}
    BY <1>5
  <2> QED
    BY <2>1, <1>2
<1> QED
  BY <1>3, <1>4, <1>5

\* Counters are numbers, and only the empty release has none.
LEMMA Counters ==
  /\ NoRelease \notin Releases
  /\ \A r \in Names : Counter(r) \in Nat
  /\ Counter(NoRelease) = 0
  /\ \A r \in Releases : Counter(r) = CounterOf[r] /\ Counter(r) > 0
BY OtaAssumption DEF Names, Counter

-----------------------------------------------------------------------------
(* What the operations on a journal leave in it.                            *)

\* A journal, field by field.
State(p, r, s, i, v, k, q, d) ==
    [pending |-> p, release |-> r, slot |-> s, image |-> i, validated |-> v,
     confirmed |-> k, previous |-> q, development |-> d]

\* The marks of a journal; the provers keep them apart from formulas by name.
No  == FALSE
Yes == TRUE

\* The fields of a journal written field by field.
LEMMA StateFields ==
  ASSUME NEW p, NEW r, NEW s, NEW i, NEW v, NEW k, NEW q, NEW d
  PROVE  LET j == State(p, r, s, i, v, k, q, d)
         IN  /\ j.pending = p /\ j.release = r /\ j.slot = s /\ j.image = i
             /\ j.validated = v /\ j.confirmed = k /\ j.previous = q /\ j.development = d
BY DEF State

\* A journal is made of its fields.
LEMMA JournalState ==
  ASSUME NEW j \in Journal
  PROVE  j = State(j.pending, j.release, j.slot, j.image, j.validated, j.confirmed,
                   j.previous, j.development)
BY DEF Journal, State

\* Fields of the right types make a journal.
LEMMA StateJournal ==
  ASSUME NEW p \in {"none", "production", "development"}, NEW r \in Names, NEW s \in Slots,
         NEW i \in Images \cup {Torn}, NEW v \in BOOLEAN, NEW k \in Names,
         NEW q \in Names, NEW d \in BOOLEAN
  PROVE  State(p, r, s, i, v, k, q, d) \in Journal
BY DEF State, Journal

\* Clearing, field by field.
LEMMA ClearedState ==
  ASSUME NEW p, NEW r, NEW s, NEW i, NEW v, NEW k, NEW q, NEW d
  PROVE  Cleared(State(p, r, s, i, v, k, q, d))
             = State("none", NoRelease, AnySlot, Torn, No, k, q, d)
<1> DEFINE j == State(p, r, s, i, v, k, q, d)
<1>0. j = State(p, r, s, i, v, k, q, d)
  OBVIOUS
<1> HIDE DEF j
<1> DEFINE c1 == [j EXCEPT !.pending = "none"]
<1> DEFINE c2 == [c1 EXCEPT !.release = NoRelease]
<1> DEFINE c3 == [c2 EXCEPT !.slot = AnySlot]
<1> DEFINE c4 == [c3 EXCEPT !.image = Torn]
<1> DEFINE c5 == [c4 EXCEPT !.validated = No]
<1>c1. c1 = State("none", r, s, i, v, k, q, d)
  BY <1>0 DEF State
<1> HIDE DEF c1
<1>c2. c2 = State("none", NoRelease, s, i, v, k, q, d)
  BY <1>c1 DEF State
<1> HIDE DEF c2
<1>c3. c3 = State("none", NoRelease, AnySlot, i, v, k, q, d)
  BY <1>c2 DEF State
<1> HIDE DEF c3
<1>c4. c4 = State("none", NoRelease, AnySlot, Torn, v, k, q, d)
  BY <1>c3 DEF State
<1> HIDE DEF c4
<1>c5. c5 = State("none", NoRelease, AnySlot, Torn, No, k, q, d)
  BY <1>c4 DEF State
<1> HIDE DEF c5
<1> QED
  BY ONLY <1>c5, Zenon DEF Cleared, No, j, c1, c2, c3, c4, c5

\* Staging a release, field by field.
LEMMA StagedState ==
  ASSUME NEW p, NEW r, NEW s, NEW i, NEW v, NEW k, NEW q, NEW d, NEW x, NEW t
  PROVE  Staged(State(p, r, s, i, v, k, q, d), x, t)
             = State("production", x, t, Torn, No, k, q, d)
<1> DEFINE j == State(p, r, s, i, v, k, q, d)
<1>0. j = State(p, r, s, i, v, k, q, d)
  OBVIOUS
<1> DEFINE e == Cleared(j)
<1>1. e = State("none", NoRelease, AnySlot, Torn, No, k, q, d)
  BY ClearedState DEF j, e
<1> HIDE DEF e
<1> HIDE DEF j
<1> DEFINE c1 == [e EXCEPT !.pending = "production"]
<1> DEFINE c2 == [c1 EXCEPT !.release = x]
<1> DEFINE c3 == [c2 EXCEPT !.slot = t]
<1>c1. c1 = State("production", NoRelease, AnySlot, Torn, No, k, q, d)
  BY <1>1 DEF State
<1> HIDE DEF c1
<1>c2. c2 = State("production", x, AnySlot, Torn, No, k, q, d)
  BY <1>c1 DEF State
<1> HIDE DEF c2
<1>c3. c3 = State("production", x, t, Torn, No, k, q, d)
  BY <1>c2 DEF State
<1> HIDE DEF c3
<1> QED
  BY ONLY <1>c3, Zenon DEF Staged, No, Yes, j, e, c1, c2, c3

\* Staging an upload, field by field.
LEMMA UploadState ==
  ASSUME NEW p, NEW r, NEW s, NEW i, NEW v, NEW k, NEW q, NEW d, NEW t
  PROVE  StagedDevelopment(State(p, r, s, i, v, k, q, d), t)
             = State("development", NoRelease, t, Torn, No, k, q, d)
<1> DEFINE j == State(p, r, s, i, v, k, q, d)
<1>0. j = State(p, r, s, i, v, k, q, d)
  OBVIOUS
<1> DEFINE e == Cleared(j)
<1>1. e = State("none", NoRelease, AnySlot, Torn, No, k, q, d)
  BY ClearedState DEF j, e
<1> HIDE DEF e
<1> HIDE DEF j
<1> DEFINE c1 == [e EXCEPT !.pending = "development"]
<1> DEFINE c2 == [c1 EXCEPT !.slot = t]
<1>c1. c1 = State("development", NoRelease, AnySlot, Torn, No, k, q, d)
  BY <1>1 DEF State
<1> HIDE DEF c1
<1>c2. c2 = State("development", NoRelease, t, Torn, No, k, q, d)
  BY <1>c1 DEF State
<1> HIDE DEF c2
<1> QED
  BY ONLY <1>c2, Zenon DEF StagedDevelopment, No, Yes, j, e, c1, c2

\* Accepting an image, field by field.
LEMMA AcceptedState ==
  ASSUME NEW p, NEW r, NEW s, NEW i, NEW v, NEW k, NEW q, NEW d, NEW x
  PROVE  WithAccepted(State(p, r, s, i, v, k, q, d), x)
             = State(p, r, s, x, v, k, q, d)
<1> DEFINE j == State(p, r, s, i, v, k, q, d)
<1>0. j = State(p, r, s, i, v, k, q, d)
  OBVIOUS
<1> HIDE DEF j
<1> DEFINE c1 == [j EXCEPT !.image = x]
<1>c1. c1 = State(p, r, s, x, v, k, q, d)
  BY <1>0 DEF State
<1> HIDE DEF c1
<1> QED
  BY ONLY <1>c1, Zenon DEF WithAccepted, No, Yes, j, c1

\* Validating, field by field.
LEMMA ValidatedState ==
  ASSUME NEW p, NEW r, NEW s, NEW i, NEW v, NEW k, NEW q, NEW d
  PROVE  Validated(State(p, r, s, i, v, k, q, d))
             = State(p, r, s, i, Yes, k, q, d)
<1> DEFINE j == State(p, r, s, i, v, k, q, d)
<1>0. j = State(p, r, s, i, v, k, q, d)
  OBVIOUS
<1> HIDE DEF j
<1> DEFINE c1 == [j EXCEPT !.validated = Yes]
<1>c1. c1 = State(p, r, s, i, Yes, k, q, d)
  BY <1>0 DEF State
<1> HIDE DEF c1
<1> QED
  BY ONLY <1>c1, Zenon DEF Validated, No, Yes, j, c1

\* Confirming a development image, field by field.
LEMMA DevelopmentState ==
  ASSUME NEW p, NEW r, NEW s, NEW i, NEW v, NEW k, NEW q, NEW d
  PROVE  DevelopmentConfirmed(State(p, r, s, i, v, k, q, d))
             = State("none", NoRelease, AnySlot, Torn, No, k, q, Yes)
<1> DEFINE j == State(p, r, s, i, v, k, q, d)
<1>0. j = State(p, r, s, i, v, k, q, d)
  OBVIOUS
<1> DEFINE e == Cleared(j)
<1>1. e = State("none", NoRelease, AnySlot, Torn, No, k, q, d)
  BY ClearedState DEF j, e
<1> HIDE DEF e
<1> HIDE DEF j
<1> DEFINE c1 == [e EXCEPT !.development = Yes]
<1>c1. c1 = State("none", NoRelease, AnySlot, Torn, No, k, q, Yes)
  BY <1>1 DEF State
<1> HIDE DEF c1
<1> QED
  BY ONLY <1>c1, Zenon DEF DevelopmentConfirmed, No, Yes, j, e, c1

\* Confirming a release, field by field.
LEMMA ReleaseState ==
  ASSUME NEW p, NEW r, NEW s, NEW i, NEW v, NEW k, NEW q, NEW d
  PROVE  ReleaseConfirmed(State(p, r, s, i, v, k, q, d))
             = State("none", NoRelease, AnySlot, Torn, No, r, k, No)
<1> DEFINE j == State(p, r, s, i, v, k, q, d)
<1>0. j = State(p, r, s, i, v, k, q, d)
  OBVIOUS
<1> DEFINE e == Cleared(j)
<1>1. e = State("none", NoRelease, AnySlot, Torn, No, k, q, d)
  BY ClearedState DEF j, e
<1> HIDE DEF e
<1> HIDE DEF j
<1>f. j.confirmed = k /\ j.release = r
  BY StateFields DEF j
<1> DEFINE c1 == [e EXCEPT !.previous = k]
<1> DEFINE c2 == [c1 EXCEPT !.confirmed = r]
<1> DEFINE c3 == [c2 EXCEPT !.development = No]
<1>c1. c1 = State("none", NoRelease, AnySlot, Torn, No, k, k, d)
  BY <1>1 DEF State
<1> HIDE DEF c1
<1>c2. c2 = State("none", NoRelease, AnySlot, Torn, No, r, k, d)
  BY <1>c1 DEF State
<1> HIDE DEF c2
<1>c3. c3 = State("none", NoRelease, AnySlot, Torn, No, r, k, No)
  BY <1>c2 DEF State
<1> HIDE DEF c3
<1> QED
  BY ONLY <1>c3, <1>f, Zenon DEF ReleaseConfirmed, No, Yes, j, e, c1, c2, c3

-----------------------------------------------------------------------------
(* The same of a valid journal.                                             *)

\* A journal in flash was never written, or it is valid.
Holds(j) == j = Absent \/ (j \in Journal /\ JournalValid(j))

\* The types of a journal's fields.
LEMMA JournalFields ==
  ASSUME NEW j \in Journal
  PROVE  /\ j.pending \in {"none", "production", "development"} /\ j.release \in Names
         /\ j.slot \in Slots /\ j.image \in Images \cup {Torn} /\ j.validated \in BOOLEAN
         /\ j.confirmed \in Names /\ j.previous \in Names /\ j.development \in BOOLEAN
         /\ Counter(j.confirmed) \in Nat /\ Counter(j.release) \in Nat
<1>1. /\ j.pending \in {"none", "production", "development"} /\ j.release \in Names
      /\ j.slot \in Slots /\ j.image \in Images \cup {Torn} /\ j.validated \in BOOLEAN
      /\ j.confirmed \in Names /\ j.previous \in Names /\ j.development \in BOOLEAN
  BY DEF Journal
<1>2. Counter(j.confirmed) \in Nat /\ Counter(j.release) \in Nat
  BY <1>1, Counters
<1> QED
  BY <1>1, <1>2

\* What a journal must satisfy, field by field, while something is pending.
LEMMA PendingValid ==
  ASSUME NEW j, j.pending # "none", j.confirmed = NoRelease => j.previous = NoRelease,
         j.validated => j.image # Torn, j.pending = "development" => j.release = NoRelease,
         j.pending = "production" => Counter(j.release) > Counter(j.confirmed)
  PROVE  JournalValid(j)
BY DEF JournalValid, Accepted

\* And while nothing is.
LEMMA RestValid ==
  ASSUME NEW k \in Names, NEW q \in Names, NEW d \in BOOLEAN,
         k = NoRelease => q = NoRelease
  PROVE  LET j == State("none", NoRelease, AnySlot, Torn, No, k, q, d)
         IN  /\ j \in Journal /\ JournalValid(j)
             /\ j.pending = "none" /\ j.release = NoRelease /\ j.image = Torn
             /\ j.confirmed = k /\ j.previous = q /\ j.development = d
<1> DEFINE j == State("none", NoRelease, AnySlot, Torn, No, k, q, d)
<1>1. /\ j.pending = "none" /\ j.release = NoRelease /\ j.image = Torn /\ j.validated = No
      /\ j.confirmed = k /\ j.previous = q /\ j.development = d
  BY StateFields
<1>2. Cleared(j) = j
  BY ClearedState
<1>3. AnySlot \in Slots /\ NoRelease \in Names
  BY TwoSlots DEF Names
<1>4. No \in BOOLEAN
  BY DEF No
<1>5. j \in Journal
  BY <1>3, <1>4, StateJournal
<1> HIDE DEF j
<1>6. ~j.validated
  BY <1>1, Zenon DEF No
<1>7. JournalValid(j)
  BY <1>1, <1>2, <1>6 DEF JournalValid
<1> QED
  BY <1>1, <1>5, <1>7 DEF j

\* Clearing keeps what is confirmed and forgets the transaction.
LEMMA ClearedJournal ==
  ASSUME NEW j \in Journal, JournalValid(j)
  PROVE  LET c == Cleared(j)
         IN  /\ c \in Journal /\ JournalValid(c)
             /\ c.pending = "none" /\ c.release = NoRelease /\ c.image = Torn
             /\ c.confirmed = j.confirmed
             /\ c.development = j.development
<1> DEFINE c == Cleared(j)
<1>1. c = State("none", NoRelease, AnySlot, Torn, No, j.confirmed, j.previous, j.development)
  BY JournalState, ClearedState
<1>2. j.release \in Names /\ j.confirmed \in Names /\ j.previous \in Names
      /\ j.development \in BOOLEAN
  BY JournalFields
<1>3. No \in BOOLEAN /\ Yes \in BOOLEAN
  BY DEF No, Yes
<1>4. j.confirmed = NoRelease => j.previous = NoRelease
  BY DEF JournalValid
<1> HIDE DEF c
<1>5. /\ c \in Journal /\ JournalValid(c)
      /\ c.pending = "none" /\ c.release = NoRelease /\ c.image = Torn
      /\ c.confirmed = j.confirmed /\ c.development = j.development
  BY <1>1, <1>2, <1>3, <1>4, RestValid
<1> QED
  BY <1>4, <1>5 DEF c

\* Confirming a development image keeps the release confirmed before.
LEMMA DevelopmentJournal ==
  ASSUME NEW j \in Journal, JournalValid(j)
  PROVE  LET c == DevelopmentConfirmed(j)
         IN  /\ c \in Journal /\ JournalValid(c)
             /\ c.pending = "none" /\ c.release = NoRelease /\ c.image = Torn
             /\ c.confirmed = j.confirmed
             /\ c.development
<1> DEFINE c == DevelopmentConfirmed(j)
<1>1. c = State("none", NoRelease, AnySlot, Torn, No, j.confirmed, j.previous, Yes)
  BY JournalState, DevelopmentState
<1>2. j.release \in Names /\ j.confirmed \in Names /\ j.previous \in Names
      /\ j.development \in BOOLEAN
  BY JournalFields
<1>3. No \in BOOLEAN /\ Yes \in BOOLEAN
  BY DEF No, Yes
<1>4. j.confirmed = NoRelease => j.previous = NoRelease
  BY DEF JournalValid
<1> HIDE DEF c
<1>5. /\ c \in Journal /\ JournalValid(c)
      /\ c.pending = "none" /\ c.release = NoRelease /\ c.image = Torn
      /\ c.confirmed = j.confirmed /\ c.development = Yes
  BY <1>1, <1>2, <1>3, <1>4, RestValid
<1>6. c.development
  BY <1>5, Zenon DEF Yes
<1> QED
  BY <1>5, <1>6 DEF c

\* Confirming a release names it, above the one confirmed before.
LEMMA ReleaseJournal ==
  ASSUME NEW j \in Journal, JournalValid(j), j.pending = "production"
  PROVE  LET c == ReleaseConfirmed(j)
         IN  /\ c \in Journal /\ JournalValid(c)
             /\ c.pending = "none" /\ c.release = NoRelease /\ c.image = Torn
             /\ c.confirmed = j.release
             /\ Counter(j.release) > Counter(j.confirmed)
<1> DEFINE c == ReleaseConfirmed(j)
<1>1. c = State("none", NoRelease, AnySlot, Torn, No, j.release, j.confirmed, No)
  BY JournalState, ReleaseState
<1>2. j.release \in Names /\ j.confirmed \in Names /\ j.previous \in Names
      /\ j.development \in BOOLEAN
  BY JournalFields
<1>3. No \in BOOLEAN /\ Yes \in BOOLEAN
  BY DEF No, Yes
<1>4. Counter(j.release) > Counter(j.confirmed) /\ j.release # NoRelease
  <2>1. Counter(j.release) > Counter(j.confirmed)
    BY DEF JournalValid
  <2> QED
    BY <2>1, JournalFields, Counters
<1> HIDE DEF c
<1>5. /\ c \in Journal /\ JournalValid(c)
      /\ c.pending = "none" /\ c.release = NoRelease /\ c.image = Torn
      /\ c.confirmed = j.release /\ c.development = No
  BY <1>1, <1>2, <1>3, <1>4, RestValid
<1> QED
  BY <1>4, <1>5 DEF c

\* Cancelling either clears the journal or leaves it.
LEMMA CancelledJournal ==
  ASSUME NEW j \in Journal, JournalValid(j), NEW kind
  PROVE  LET c == Cancelled(j, kind)
         IN  /\ c \in Journal /\ JournalValid(c)
             /\ c.confirmed = j.confirmed /\ c.development = j.development
             /\ j.pending = kind => /\ c.pending = "none" /\ c.release = NoRelease
                                    /\ c.image = Torn
BY ClearedJournal DEF Cancelled

\* A valid journal with nothing pending names no release and no image.
LEMMA NothingPending ==
  ASSUME NEW j \in Journal, JournalValid(j), j.pending = "none"
  PROVE  j.release = NoRelease /\ j.image = Torn
<1>1. j = Cleared(j)
  BY DEF JournalValid
<1> QED
  BY <1>1, ClearedJournal

\* A staged release is one above what is confirmed, in the slot given.
LEMMA StagedJournal ==
  ASSUME NEW j \in Journal, JournalValid(j),
         NEW r \in Names, NEW s \in Slots, Counter(r) > Counter(j.confirmed)
  PROVE  LET c == Staged(j, r, s)
         IN  /\ c \in Journal /\ JournalValid(c)
             /\ c.pending = "production"
             /\ c.release = r
             /\ c.slot = s
             /\ c.image = Torn
             /\ c.confirmed = j.confirmed
             /\ c.development = j.development
<1> DEFINE c == Staged(j, r, s)
<1>1. c = State("production", r, s, Torn, No, j.confirmed, j.previous, j.development)
  BY JournalState, StagedState
<1>2. /\ c.pending = "production"
      /\ c.release = r
      /\ c.slot = s
      /\ c.image = Torn
      /\ c.validated = No
      /\ c.confirmed = j.confirmed
      /\ c.previous = j.previous
      /\ c.development = j.development
  BY <1>1, StateFields
<1>3. /\ j.pending \in {"none", "production", "development"} /\ j.release \in Names
      /\ j.slot \in Slots /\ j.image \in Images \cup {Torn} /\ j.validated \in BOOLEAN
      /\ j.confirmed \in Names /\ j.previous \in Names /\ j.development \in BOOLEAN
  BY JournalFields
<1>4. No \in BOOLEAN /\ Yes \in BOOLEAN /\ NoRelease \in Names
  BY DEF No, Yes, Names
<1> HIDE DEF c
<1>5. c \in Journal
  BY <1>1, <1>3, <1>4, StateJournal
<1>6. JournalValid(c)
  <2>1. j.confirmed = NoRelease => j.previous = NoRelease
    BY DEF JournalValid
  <2>2. ~c.validated
    BY <1>2, Zenon DEF No
  <2> QED
    BY <1>2, <2>1, <2>2, PendingValid
<1> QED
  BY <1>2, <1>5, <1>6 DEF c

\* A staged upload has no release.
LEMMA UploadJournal ==
  ASSUME NEW j \in Journal, JournalValid(j),
         NEW s \in Slots
  PROVE  LET c == StagedDevelopment(j, s)
         IN  /\ c \in Journal /\ JournalValid(c)
             /\ c.pending = "development"
             /\ c.release = NoRelease
             /\ c.slot = s
             /\ c.image = Torn
             /\ c.confirmed = j.confirmed
             /\ c.development = j.development
<1> DEFINE c == StagedDevelopment(j, s)
<1>1. c = State("development", NoRelease, s, Torn, No, j.confirmed, j.previous, j.development)
  BY JournalState, UploadState
<1>2. /\ c.pending = "development"
      /\ c.release = NoRelease
      /\ c.slot = s
      /\ c.image = Torn
      /\ c.validated = No
      /\ c.confirmed = j.confirmed
      /\ c.previous = j.previous
      /\ c.development = j.development
  BY <1>1, StateFields
<1>3. /\ j.pending \in {"none", "production", "development"} /\ j.release \in Names
      /\ j.slot \in Slots /\ j.image \in Images \cup {Torn} /\ j.validated \in BOOLEAN
      /\ j.confirmed \in Names /\ j.previous \in Names /\ j.development \in BOOLEAN
  BY JournalFields
<1>4. No \in BOOLEAN /\ Yes \in BOOLEAN /\ NoRelease \in Names
  BY DEF No, Yes, Names
<1> HIDE DEF c
<1>5. c \in Journal
  BY <1>1, <1>3, <1>4, StateJournal
<1>6. JournalValid(c)
  <2>1. j.confirmed = NoRelease => j.previous = NoRelease
    BY DEF JournalValid
  <2>2. ~c.validated
    BY <1>2, Zenon DEF No
  <2> QED
    BY <1>2, <2>1, <2>2, PendingValid
<1> QED
  BY <1>2, <1>5, <1>6 DEF c

\* Accepting changes the image alone.
LEMMA AcceptedJournal ==
  ASSUME NEW j \in Journal, JournalValid(j),
         j.pending # "none", ~Accepted(j), NEW x \in Images \cup {Torn}
  PROVE  LET c == WithAccepted(j, x)
         IN  /\ c \in Journal /\ JournalValid(c)
             /\ c.pending = j.pending
             /\ c.release = j.release
             /\ c.slot = j.slot
             /\ c.image = x
             /\ c.validated = j.validated
             /\ c.confirmed = j.confirmed
             /\ c.development = j.development
<1> DEFINE c == WithAccepted(j, x)
<1>1. c = State(j.pending, j.release, j.slot, x, j.validated, j.confirmed, j.previous, j.development)
  BY JournalState, AcceptedState
<1>2. /\ c.pending = j.pending
      /\ c.release = j.release
      /\ c.slot = j.slot
      /\ c.image = x
      /\ c.validated = j.validated
      /\ c.confirmed = j.confirmed
      /\ c.previous = j.previous
      /\ c.development = j.development
  BY <1>1, StateFields
<1>3. /\ j.pending \in {"none", "production", "development"} /\ j.release \in Names
      /\ j.slot \in Slots /\ j.image \in Images \cup {Torn} /\ j.validated \in BOOLEAN
      /\ j.confirmed \in Names /\ j.previous \in Names /\ j.development \in BOOLEAN
  BY JournalFields
<1>4. No \in BOOLEAN /\ Yes \in BOOLEAN /\ NoRelease \in Names
  BY DEF No, Yes, Names
<1> HIDE DEF c
<1>5. c \in Journal
  BY <1>1, <1>3, <1>4, StateJournal
<1>6. JournalValid(c)
  <2>1. /\ j.confirmed = NoRelease => j.previous = NoRelease
        /\ ~j.validated /\ (j.pending = "development" => j.release = NoRelease)
        /\ j.pending = "production" => Counter(j.release) > Counter(j.confirmed)
    BY DEF JournalValid
  <2> QED
    BY <1>2, <2>1, PendingValid
<1> QED
  BY <1>2, <1>5, <1>6 DEF c

\* Validating changes the mark alone.
LEMMA ValidatedJournal ==
  ASSUME NEW j \in Journal, JournalValid(j),
         j.pending # "none", Accepted(j)
  PROVE  LET c == Validated(j)
         IN  /\ c \in Journal /\ JournalValid(c)
             /\ c.pending = j.pending
             /\ c.release = j.release
             /\ c.slot = j.slot
             /\ c.image = j.image
             /\ c.validated
             /\ c.confirmed = j.confirmed
             /\ c.development = j.development
<1> DEFINE c == Validated(j)
<1>1. c = State(j.pending, j.release, j.slot, j.image, Yes, j.confirmed, j.previous, j.development)
  BY JournalState, ValidatedState
<1>2. /\ c.pending = j.pending
      /\ c.release = j.release
      /\ c.slot = j.slot
      /\ c.image = j.image
      /\ c.validated = Yes
      /\ c.confirmed = j.confirmed
      /\ c.previous = j.previous
      /\ c.development = j.development
  BY <1>1, StateFields
<1>3. /\ j.pending \in {"none", "production", "development"} /\ j.release \in Names
      /\ j.slot \in Slots /\ j.image \in Images \cup {Torn} /\ j.validated \in BOOLEAN
      /\ j.confirmed \in Names /\ j.previous \in Names /\ j.development \in BOOLEAN
  BY JournalFields
<1>4. No \in BOOLEAN /\ Yes \in BOOLEAN /\ NoRelease \in Names
  BY DEF No, Yes, Names
<1> HIDE DEF c
<1>5. c \in Journal
  BY <1>1, <1>3, <1>4, StateJournal
<1>6. JournalValid(c)
  <2>1. /\ j.confirmed = NoRelease => j.previous = NoRelease
        /\ (j.pending = "development" => j.release = NoRelease)
        /\ j.pending = "production" => Counter(j.release) > Counter(j.confirmed)
    BY DEF JournalValid
  <2> QED
    BY <1>2, <2>1, PendingValid DEF Accepted
<1>7. c.validated
  BY <1>2, Zenon DEF Yes
<1> QED
  BY <1>2, <1>5, <1>6, <1>7 DEF c

\* An empty journal is valid and names nothing; an absent one reads as it.
LEMMA EmptyJournals ==
  /\ EmptyJournal \in Journal /\ JournalValid(EmptyJournal)
  /\ EmptyJournal.pending = "none" /\ EmptyJournal.confirmed = NoRelease
  /\ EmptyJournal.release = NoRelease /\ EmptyJournal.image = Torn
  /\ Absent.pending = "absent" /\ Absent.confirmed = NoRelease /\ Absent.image = Torn
  /\ Absent \notin Journal
<1>1. EmptyJournal = State("none", NoRelease, AnySlot, Torn, No, NoRelease, NoRelease, No)
  BY Zenon DEF EmptyJournal, State, No
<1>2. NoRelease \in Names /\ No \in BOOLEAN
  BY DEF Names, No
<1>3. /\ EmptyJournal \in Journal /\ JournalValid(EmptyJournal)
      /\ EmptyJournal.pending = "none" /\ EmptyJournal.confirmed = NoRelease
      /\ EmptyJournal.release = NoRelease /\ EmptyJournal.image = Torn
  BY <1>1, <1>2, RestValid
<1>4. Absent = State("absent", NoRelease, AnySlot, Torn, No, NoRelease, NoRelease, No)
  BY <1>1 DEF Absent, State
<1>5. Absent.pending = "absent" /\ Absent.confirmed = NoRelease /\ Absent.image = Torn
  BY <1>4, StateFields
<1> QED
  BY <1>3, <1>5, JournalFields

-----------------------------------------------------------------------------
(* Reading, saving and reporting.                                           *)

\* What the boot loader may have written of a partition.
EntryStates == {"none", "undefined", "new", "pending_verify", "valid", "invalid", "aborted"}

\* The journal in flash and the one in RAM are valid.
Journals == Holds(journal) /\ install \in Journal /\ JournalValid(install)

\* The confirmed release in flash is never an older one.
Grows == Counter(journal.confirmed) <= Counter(journal'.confirmed)

\* The types, by the names used here.
LEMMA Types ==
  ASSUME TypeInv
  PROVE  /\ image \in [Slots -> Images \cup {Torn}] /\ otadata \in [Slots -> EntryStates]
         /\ boot \in Slots /\ running \in Slots /\ passed \subseteq Slots
         /\ Journals
BY DEF TypeInv, TypeOK, EntryStates, Journals, Holds

\* The worker reads the confirmed release as it stands in flash.
LEMMA LoadedJournal ==
  ASSUME Holds(journal)
  PROVE  /\ Loaded \in Journal /\ JournalValid(Loaded)
         /\ Loaded.confirmed = journal.confirmed
         /\ journal.confirmed \in Names /\ Counter(journal.confirmed) \in Nat
         /\ journal \in Journal => Loaded = journal
         /\ Loaded = journal \/ Loaded = EmptyJournal
         /\ journal = Absent => Loaded = EmptyJournal
BY EmptyJournals, JournalFields, Counters DEF Holds, Loaded, Names

\* A save leaves the new value or the old one, and the new one if it succeeds.
LEMMA SaveOutcome ==
  ASSUME NEW j, NEW s \in Save(j)
  PROVE  /\ s.ok \in BOOLEAN /\ (s.ok => s.stored = j)
         /\ s.stored = j \/ s.stored = journal
<1>1. \/ s = [ok |-> TRUE, stored |-> j]
      \/ s = [ok |-> FALSE, stored |-> j]
      \/ s = [ok |-> FALSE, stored |-> journal]
  BY Zenon DEF Save
<1>2. CASE s = [ok |-> TRUE, stored |-> j]
  BY <1>2
<1>3. CASE s = [ok |-> FALSE, stored |-> j]
  BY <1>3
<1>4. CASE s = [ok |-> FALSE, stored |-> journal]
  BY <1>4
<1> QED
  BY <1>1, <1>2, <1>3, <1>4

\* What flash holds after a save.
LEMMA SavedJournal ==
  ASSUME NEW j, NEW s \in Save(j), Saved(s)
  PROVE  /\ s.ok \in BOOLEAN /\ (s.ok => journal' = j)
         /\ journal' = j \/ journal' = journal
BY SaveOutcome DEF Saved

\* A valid journal describes a slot if its four fields say so.
LEMMA Matching ==
  ASSUME NEW j, Holds(j), NEW s
  PROVE  MatchesIn(j, s) <=> /\ j.pending # "none" /\ j.image # Torn
                             /\ j.slot = s /\ j.image = image[s]
BY EmptyJournals DEF Holds, MatchesIn, IdentityMatches, Accepted

\* The same in the next state.
LEMMA MatchingNext ==
  ASSUME NEW j, Holds(j), NEW s
  PROVE  IdentityMatches(j, s, image'[s])
             <=> /\ j.pending # "none" /\ j.image # Torn
                 /\ j.slot = s /\ j.image = image'[s]
BY EmptyJournals DEF Holds, IdentityMatches, Accepted

\* What the server makes of a report is bounded by what the report says runs.
LEMMA ReceiveOutcome ==
  ASSUME TypeInv, NEW b, UNCHANGED remote \/ Receive(b),
         b.phase = "running" => b.running \in Names
  PROVE  /\ server' = [target |-> server.target, completed |-> server'.completed,
                       floor |-> server'.floor, latest |-> server'.latest]
         /\ server'.floor \in Nat
         /\ \/ server'.floor = server.floor
            \/ /\ b.phase = "running" /\ server'.floor = Counter(b.running)
               /\ server'.floor > server.floor
<1>1. /\ server = [target |-> server.target, completed |-> server.completed,
                   floor |-> server.floor, latest |-> server.latest]
      /\ server.floor \in Nat
  BY DEF TypeInv
<1>2. CASE UNCHANGED remote
  BY <1>1, <1>2 DEF remote
<1>3. CASE Receive(b) /\ ~UNCHANGED remote
  <2> DEFINE c == server.completed \/ EndsTarget(b)
             f == IF b.phase = "running" THEN AtLeast(server.floor, Counter(b.running))
                  ELSE server.floor
             t == server.target
             g == server.floor
             l == server.latest
             old == server.completed
  <2>1. server' = [server EXCEPT !.completed = c, !.latest = b, !.floor = f]
    BY <1>3 DEF Receive
  <2>2. server = [target |-> t, completed |-> old, floor |-> g, latest |-> l]
    BY <1>1
  <2>3. f \in Nat /\ (f = g \/ (b.phase = "running" /\ f = Counter(b.running) /\ f > g))
    BY <1>1, Counters DEF AtLeast
  <2> HIDE DEF c, f, t, g, l, old
  <2>4. server' = [target |-> t, completed |-> c, floor |-> f, latest |-> b]
    BY <2>1, <2>2
  <2>5. server'.target = t /\ server'.completed = c /\ server'.floor = f
        /\ server'.latest = b
    BY <2>4
  <2>6. server' = [target |-> t, completed |-> server'.completed,
                   floor |-> server'.floor, latest |-> server'.latest]
    BY <2>4, <2>5
  <2> QED
    BY <2>3, <2>5, <2>6 DEF t, g
<1> QED
  BY <1>2, <1>3

\* A report says that the confirmed release runs, or that none does.
LEMMA ReportFields ==
  ASSUME NEW r, NEW phase, NEW error, NEW previous, NEW good, NEW runs,
         runs \in {NoRelease, install.confirmed}
  PROVE  LET b == Report(r, phase, error, previous, runs, good)
         IN  b.phase = phase /\ b.running \in {NoRelease, install.confirmed}
BY DEF Report

\* What a step leaves of the server.
RemoteInv ==
    /\ server' = [target |-> server'.target, completed |-> server'.completed,
                  floor |-> server'.floor, latest |-> server'.latest]
    /\ server'.target \in Names /\ server'.floor \in Nat
    /\ server'.floor <= server.floor \/ server'.floor <= Counter(install.confirmed)

\* A report that names what is confirmed, answered or not.
LEMMA Reported ==
  ASSUME TypeInv, NEW b, Answer(b) \/ NoAnswer(b),
         b.phase = "running" => b.running \in {NoRelease, install.confirmed}
  PROVE  RemoteInv
<1>1. UNCHANGED remote \/ Receive(b)
  BY DEF Answer, NoAnswer
<1>2. install.confirmed \in Names /\ server.target \in Names /\ NoRelease \in Names
  BY Types, JournalFields DEF Journals, TypeInv, TypeOK, Names
<1>3. b.phase = "running" => b.running \in Names
  BY <1>2
<1>4. /\ server' = [target |-> server.target, completed |-> server'.completed,
                    floor |-> server'.floor, latest |-> server'.latest]
      /\ server'.floor \in Nat
      /\ \/ server'.floor = server.floor
         \/ b.phase = "running" /\ server'.floor = Counter(b.running)
  BY <1>1, <1>3, ReceiveOutcome
<1>5. server'.target = server.target
  BY <1>4
<1>6. server.floor \in Nat /\ Counter(install.confirmed) \in Nat /\ Counter(NoRelease) = 0
  BY <1>2, Counters DEF TypeInv
<1> QED
  BY <1>2, <1>4, <1>5, <1>6 DEF RemoteInv

\* A selection names a release and keeps what is known to be confirmed.
LEMMA Selection ==
  ASSUME TypeInv, SelectRelease
  PROVE  /\ server' = [target |-> server'.target, completed |-> server'.completed,
                       floor |-> server'.floor, latest |-> server'.latest]
         /\ server'.target \in Names /\ server'.floor = server.floor
<1>1. PICK r \in Releases : server' = [server EXCEPT !.target = r, !.completed = FALSE]
  BY DEF SelectRelease
<1> DEFINE t == server.target
           old == server.completed
           f == server.floor
           l == server.latest
           m == [server EXCEPT !.target = r]
<1>2. server = [target |-> t, completed |-> old, floor |-> f, latest |-> l]
  BY DEF TypeInv
<1> HIDE DEF t, old, l, f
<1>3. m = [target |-> r, completed |-> old, floor |-> f, latest |-> l]
  BY <1>2
<1> HIDE DEF m
<1>4. \A x : [m EXCEPT !.completed = x]
                 = [target |-> r, completed |-> x, floor |-> f, latest |-> l]
  BY <1>3
<1>5. server' = [target |-> r, completed |-> FALSE, floor |-> f, latest |-> l]
  BY <1>1, <1>4, Zenon DEF m
<1>6. server'.target = r /\ server'.completed = FALSE /\ server'.floor = f
      /\ server'.latest = l
  BY <1>5
<1>7. server' = [target |-> server'.target, completed |-> server'.completed,
                 floor |-> server'.floor, latest |-> server'.latest]
  BY <1>5, <1>6
<1> QED
  BY <1>6, <1>7 DEF f, Names

\* The steps that reach the server.
LEMMA RemoteKept ==
  ASSUME [Next]_vars
  PROVE  \/ UNCHANGED server
         \/ Reports \/ ReportUnanswered \/ AlreadyRunning \/ BeginRelease \/ StageRelease
         \/ SelectImage \/ ReportEnd \/ SelectRelease
<1>1. Start \/ PublishSnapshot \/ Validator \/ Notices => UNCHANGED server
  BY DEF Start, StartUnreadable, StartOrdinary, StartValidation, StartPromotion,
         StartRollbackReport, StartRefused, Started, PublishSnapshot, Validator,
         HealthyWindow, PrepareConfirmation, ConfirmAfterPersistence, ConfirmFails,
         HardFailure, RollbackFails, Notices, TakePrepare, TakeConfirmed, TakeFailed, remote
<1>2. DevelopmentUpload \/ Restart \/ PowerLoss => UNCHANGED server
  BY DEF DevelopmentUpload, OpenDevelopment, StageDevelopment, WriteDevelopment, UploadFails,
         EndUpload, AcceptDevelopment, RejectDevelopment, CloseFailedUpload, Restart,
         PowerLoss, remote
<1>3. DownloadFails \/ BeginStream \/ AcceptImage \/ TerminalGateFails => UNCHANGED server
  BY DEF DownloadFails, BeginStream, AcceptImage, TerminalGateFails, remote
<1>4. UNCHANGED vars => UNCHANGED server
  BY DEF vars, remote
<1> QED
  BY <1>1, <1>2, <1>3, <1>4 DEF Next, Production

\* No step raises the floor above the confirmed release the worker holds.
LEMMA RemoteSteps == ASSUME TypeInv, StepInv, [Next]_vars PROVE RemoteInv
<1>1. CASE UNCHANGED server
  BY <1>1 DEF RemoteInv, TypeInv, TypeOK
<1>2. RunningName \in {NoRelease, install.confirmed}
  BY DEF RunningName
<1>3. ASSUME NEW r, NEW phase, NEW error, NEW previous, NEW good,
             LET b == Report(r, phase, error, previous, RunningName, good)
             IN  Answer(b) \/ NoAnswer(b)
      PROVE  RemoteInv
  <2> DEFINE b == Report(r, phase, error, previous, RunningName, good)
  <2>1. b.running \in {NoRelease, install.confirmed}
    BY <1>2, ReportFields
  <2>2. Answer(b) \/ NoAnswer(b)
    BY <1>3
  <2> HIDE DEF b
  <2> QED
    BY <2>1, <2>2, Reported
<1>4. ASSUME Answer(ValidatingBody) \/ NoAnswer(ValidatingBody)
      PROVE  RemoteInv
  <2>1. ValidatingBody.phase # "running"
    BY DEF ValidatingBody, Report
  <2> QED
    BY <1>4, <2>1, Reported
<1>5. CASE Reports \/ ReportUnanswered
  <2>1. \/ Answer(RunningBody) \/ NoAnswer(RunningBody)
        \/ Answer(ValidatingBody) \/ NoAnswer(ValidatingBody)
        \/ Answer(RollbackBody) \/ NoAnswer(RollbackBody)
    BY <1>5 DEF Reports, ReportUnanswered, ReportRunning, ReportValidating, ReportRollback
  <2> QED
    BY <2>1, <1>3, <1>4 DEF RunningBody, RollbackBody
<1>6. CASE AlreadyRunning
  BY <1>3, <1>6 DEF AlreadyRunning
<1>7. CASE BeginRelease
  BY <1>1, <1>3, <1>7 DEF BeginRelease, remote
<1>8. CASE StageRelease
  BY <1>1, <1>3, <1>8 DEF StageRelease, remote
<1>9. CASE SelectImage
  BY <1>1, <1>3, <1>9 DEF SelectImage, remote
<1>10. CASE ReportEnd
  BY <1>3, <1>10 DEF ReportEnd, EndBody
<1>11. CASE SelectRelease
  BY <1>11, Selection DEF RemoteInv, TypeInv
<1> QED
  BY <1>1, <1>5, <1>6, <1>7, <1>8, <1>9, <1>10, <1>11, RemoteKept


-----------------------------------------------------------------------------
(* What the boot loader makes of the two partitions.                        *)

\* The entry of each partition after a start.
LEMMA BootedCells ==
  ASSUME NEW data \in [Slots -> EntryStates]
  PROVE  /\ \A s \in Slots : Aborted(data)[s] = IF data[s] = "pending_verify" THEN "aborted"
                                                                          ELSE data[s]
         /\ \A s \in Slots : Booted(data)[s] =
               IF s = BootChoice(Aborted(data)) /\ Aborted(data)[s] = "new"
               THEN "pending_verify" ELSE Aborted(data)[s]
         /\ Booted(data) \in [Slots -> EntryStates]
<1> DEFINE old == Aborted(data)
           c   == BootChoice(old)
<1>1. old \in [Slots -> EntryStates]
  BY DEF Aborted, EntryStates
<1>2. \A s \in Slots : old[s] = IF data[s] = "pending_verify" THEN "aborted" ELSE data[s]
  BY DEF Aborted
<1>3. Booted(data) = [old EXCEPT ![c] = IF @ = "new" THEN "pending_verify" ELSE @]
  BY DEF Booted
<1> HIDE DEF old, c
<1>4. Booted(data) \in [Slots -> EntryStates]
  BY <1>1, <1>3 DEF EntryStates
<1>5. \A s \in Slots : Booted(data)[s] =
          IF s = c /\ old[s] = "new" THEN "pending_verify" ELSE old[s]
  BY <1>1, <1>3
<1> QED
  BY <1>2, <1>4, <1>5 DEF old, c

\* A start of the device, in the three situations there are: it drops the
\* image on trial, starts the one chosen, or goes on with the one it ran.
BootDrops ==
    /\ OnTrial /\ running' = Inactive
    /\ otadata'[Inactive] = otadata[Inactive]
    /\ otadata'[running] \in {"aborted", "invalid"}
BootTries ==
    /\ ~OnTrial /\ Chosen /\ running' = Inactive
    /\ otadata'[Inactive] = "pending_verify"
    /\ otadata'[running] = otadata[running]
BootKeeps ==
    /\ ~OnTrial /\ ~Chosen /\ running' = running
    /\ otadata'[running] = otadata[running]
    /\ otadata'[Inactive] = otadata[Inactive]

\* What the boot loader starts, whatever was going on when power failed.
LEMMA BootSituations ==
  ASSUME TypeInv, SlotInv, NEW data,
         \/ data = otadata
         \/ OnTrial /\ data = [otadata EXCEPT ![running] = "invalid"],
         Boot(data)
  PROVE  /\ running' \in Slots /\ otadata' \in [Slots -> EntryStates]
         /\ BootDrops \/ BootTries \/ BootKeeps
<1> DEFINE old == Aborted(data)
<1>1. /\ otadata \in [Slots -> EntryStates] /\ running \in Slots /\ boot \in Slots
      /\ Inactive \in Slots /\ Inactive # running /\ OtherSlot(Inactive) = running
      /\ OtherSlot(running) = Inactive /\ (boot = running \/ boot = Inactive)
  BY Types, InactiveSlot DEF Inactive
<1>2. /\ data \in [Slots -> EntryStates] /\ data[Inactive] = otadata[Inactive]
      /\ data[running] = otadata[running] \/ (OnTrial /\ data[running] = "invalid")
  BY <1>1 DEF EntryStates
<1>3. /\ otadata' = Booted(data) /\ running' = BootChoice(old)
  BY DEF Boot
<1>4. /\ old[running] = IF data[running] = "pending_verify" THEN "aborted" ELSE data[running]
      /\ old[Inactive] = otadata[Inactive]
      /\ Booted(data) \in [Slots -> EntryStates]
      /\ Booted(data)[running] = IF running = BootChoice(old) /\ old[running] = "new"
                                 THEN "pending_verify" ELSE old[running]
      /\ Booted(data)[Inactive] = IF Inactive = BootChoice(old) /\ old[Inactive] = "new"
                                  THEN "pending_verify" ELSE old[Inactive]
  BY <1>1, <1>2, BootedCells DEF SlotInv
<1> HIDE DEF old
<1>5. ASSUME OnTrial
      PROVE  running' = Inactive /\ BootDrops
  <2>1. boot = running /\ old[running] \in {"aborted", "invalid"}
    BY <1>2, <1>4, <1>5 DEF SlotInv, OnTrial
  <2>2. BootChoice(old) = Inactive
    BY <1>1, <2>1 DEF BootChoice, Usable
  <2> QED
    BY <1>1, <1>3, <1>4, <1>5, <2>1, <2>2 DEF BootDrops, SlotInv
<1>6. ASSUME ~OnTrial, Chosen
      PROVE  running' = Inactive /\ BootTries
  <2>1. boot = Inactive /\ old[Inactive] = "new" /\ image[Inactive] # Torn
        /\ old[running] = otadata[running]
    BY <1>2, <1>4, <1>6 DEF SlotInv, OnTrial, Chosen
  <2>2. BootChoice(old) = Inactive
    BY <1>1, <2>1 DEF BootChoice, Usable
  <2> QED
    BY <1>1, <1>3, <1>4, <1>6, <2>1, <2>2 DEF BootTries
<1>7. ASSUME ~OnTrial, ~Chosen
      PROVE  running' = running /\ BootKeeps
  <2>1. /\ old[running] \in {"undefined", "valid"} /\ image[running] # Torn
        /\ old[running] = otadata[running]
        /\ boot = Inactive => old[Inactive] \in {"invalid", "aborted"}
    BY <1>2, <1>4, <1>7 DEF SlotInv, OnTrial, Chosen
  <2>2. BootChoice(old) = running
    BY <1>1, <2>1 DEF BootChoice, Usable
  <2> QED
    BY <1>1, <1>3, <1>4, <1>7, <2>1, <2>2 DEF BootKeeps
<1> QED
  BY <1>1, <1>3, <1>4, <1>5, <1>6, <1>7

\* Steps that start the device.
Boots == PowerLoss \/ HardFailure \/ Restart

\* A start leaves flash in one of the three situations, and RAM fresh.
LEMMA BootOutcome ==
  ASSUME TypeInv, SlotInv, TrialInv, Boots
  PROVE  /\ running' \in Slots /\ otadata' \in [Slots -> EntryStates]
         /\ BootDrops \/ BootTries \/ BootKeeps
         /\ UNCHANGED <<image, boot, journal, passed>>
         /\ main' = ValidatorAt(otadata'[running'])
         /\ notice' = "none" /\ step' = "boot" /\ install' = EmptyJournal
         /\ healthy' = FALSE /\ pendingRun' = FALSE /\ due' = {} /\ staged' = FALSE
         /\ desired' = NoRelease /\ outcome' = <<"none", "none">>
         /\ snapshot' = [known |-> FALSE, healthy |-> FALSE, prepared |-> FALSE]
<1>1. PICK data : /\ Boot(data)
                  /\ \/ data = otadata
                     \/ OnTrial /\ data = [otadata EXCEPT ![running] = "invalid"]
  <2>1. Validating => OnTrial
    BY DEF Validating, TrialInv
  <2> QED
    BY <2>1 DEF Boots, PowerLoss, HardFailure, Restart
<1>2. UNCHANGED <<image, boot, journal, passed>>
  BY DEF Boots, PowerLoss, HardFailure, Restart, ghost
<1>3. /\ running' \in Slots /\ otadata' \in [Slots -> EntryStates]
      /\ BootDrops \/ BootTries \/ BootKeeps
  BY <1>1, BootSituations
<1> QED
  BY <1>1, <1>2, <1>3 DEF Boot

-----------------------------------------------------------------------------
(* Which steps change the partitions, and what they leave.                  *)

\* Steps that write a partition or an entry without starting the device.
FlashSteps == \/ ConfirmAfterPersistence \/ BeginStream \/ AcceptImage \/ SelectImage
              \/ WriteDevelopment \/ EndUpload

\* All other steps leave the partitions alone.
LEMMA FlashKept ==
  ASSUME [Next]_vars
  PROVE  UNCHANGED flash \/ Boots \/ FlashSteps
<1>1. Start \/ PublishSnapshot => UNCHANGED flash
  BY DEF Start, StartUnreadable, StartOrdinary, StartValidation, StartPromotion,
         StartRollbackReport, StartRefused, Started, PublishSnapshot, flash
<1>2. Validator \/ Notices => UNCHANGED flash \/ HardFailure \/ ConfirmAfterPersistence
  BY DEF Validator, HealthyWindow, PrepareConfirmation, ConfirmFails, RollbackFails, Notices,
         TakePrepare, TakeConfirmed, TakeFailed, flash
<1>3. Reports \/ ReportUnanswered \/ SelectRelease => UNCHANGED flash
  BY DEF Reports, ReportRunning, ReportValidating, ReportRollback, ReportUnanswered,
         SelectRelease, flash
<1>4. Production => UNCHANGED flash \/ BeginStream \/ AcceptImage \/ SelectImage
  BY DEF Production, AlreadyRunning, BeginRelease, StageRelease, DownloadFails,
         TerminalGateFails, ReportEnd, flash
<1>5. DevelopmentUpload => UNCHANGED flash \/ WriteDevelopment \/ EndUpload
  BY DEF DevelopmentUpload, OpenDevelopment, StageDevelopment, UploadFails, AcceptDevelopment,
         RejectDevelopment, CloseFailedUpload, flash
<1>6. UNCHANGED vars => UNCHANGED flash
  BY DEF vars
<1> QED
  BY <1>1, <1>2, <1>3, <1>4, <1>5, <1>6 DEF Next, Boots, FlashSteps

\* What each of those steps writes.
LEMMA FlashWrites ==
  ASSUME TypeInv, StepInv, FlashSteps
  PROVE  /\ image' \in [Slots -> Images \cup {Torn}] /\ otadata' \in [Slots -> EntryStates]
         /\ boot' \in Slots /\ running' = running /\ Inactive' = Inactive
         /\ image'[running] = image[running]
         /\ \/ /\ ConfirmAfterPersistence /\ UNCHANGED <<image, boot>>
               /\ otadata'[running] = "valid" /\ otadata'[Inactive] = otadata[Inactive]
            \/ /\ BeginStream \/ AcceptImage \/ WriteDevelopment
               /\ UNCHANGED <<otadata, boot>>
               /\ image'[Inactive] = IF AcceptImage THEN desired ELSE Torn
            \/ /\ SelectImage
               /\ UNCHANGED flash
            \/ /\ EndUpload \/ SelectImage
               /\ boot' = Inactive /\ otadata'[Inactive] = "new"
               /\ otadata'[running] = otadata[running]
               /\ image'[Inactive] = IF EndUpload THEN Development ELSE image[Inactive]
<1>1. /\ image \in [Slots -> Images \cup {Torn}] /\ otadata \in [Slots -> EntryStates]
      /\ boot \in Slots /\ running \in Slots
      /\ Inactive \in Slots /\ Inactive # running
  BY Types, InactiveSlot
<1>2. desired \in Names
  BY DEF TypeInv, TypeOK
<1>3. running' = running
  BY DEF FlashSteps, ConfirmAfterPersistence, BeginStream, AcceptImage, SelectImage, Selected,
         WriteDevelopment, EndUpload, flash
<1>4. Inactive' = Inactive
  BY <1>3 DEF Inactive
<1>5. CASE ConfirmAfterPersistence
  BY <1>1, <1>3, <1>4, <1>5 DEF ConfirmAfterPersistence, EntryStates
<1>6. CASE BeginStream
  <2>1. step = "stream" /\ step' = "write"
    BY <1>6 DEF BeginStream
  <2>2. ~AcceptImage
    BY <2>1 DEF AcceptImage
  <2> QED
    BY <1>1, <1>3, <1>4, <1>6, <2>2 DEF BeginStream
<1>7. CASE WriteDevelopment
  <2>1. ~AcceptImage
    BY <1>7 DEF AcceptImage, WriteDevelopment
  <2> QED
    BY <1>1, <1>3, <1>4, <1>7, <2>1 DEF WriteDevelopment
<1>8. CASE AcceptImage
  <2>1. desired \in Images
    BY <1>8 DEF AcceptImage, StepInv, Images
  <2> QED
    BY <1>1, <1>3, <1>4, <1>8, <2>1 DEF AcceptImage, StreamFinished
<1>9. CASE SelectImage
  <2>1. ~EndUpload
    BY <1>9 DEF SelectImage, EndUpload
  <2>2. UNCHANGED flash \/ Selected(Inactive)
    BY <1>9 DEF SelectImage
  <2>3. CASE UNCHANGED flash
    BY <1>1, <1>3, <1>4, <1>9, <2>3 DEF flash
  <2>4. CASE Selected(Inactive)
    BY <1>1, <1>3, <1>4, <1>9, <2>1, <2>4 DEF Selected, EntryStates
  <2> QED
    BY <2>2, <2>3, <2>4
<1>10. CASE EndUpload
  BY <1>1, <1>3, <1>4, <1>10 DEF EndUpload, EntryStates, Images
<1> QED
  BY <1>5, <1>6, <1>7, <1>8, <1>9, <1>10 DEF FlashSteps


\* Nothing of the partitions changes with the partitions themselves.
LEMMA FlashSame ==
  ASSUME UNCHANGED flash
  PROVE  /\ UNCHANGED <<image, otadata, boot, running>>
         /\ Inactive' = Inactive /\ OnTrial' = OnTrial /\ Chosen' = Chosen
         /\ Trusted' = Trusted
BY DEF flash, Inactive, OnTrial, Chosen, Trusted

\* Every step keeps the types of the partitions.
LEMMA FlashTypes ==
  ASSUME TypeInv, SlotInv, TrialInv, StepInv, [Next]_vars
  PROVE  /\ image' \in [Slots -> Images \cup {Torn}] /\ otadata' \in [Slots -> EntryStates]
         /\ boot' \in Slots /\ running' \in Slots
<1>1. /\ image \in [Slots -> Images \cup {Torn}] /\ otadata \in [Slots -> EntryStates]
      /\ boot \in Slots /\ running \in Slots
  BY Types
<1>2. CASE UNCHANGED flash
  BY <1>1, <1>2 DEF flash
<1>3. CASE Boots
  BY <1>1, <1>3, BootOutcome
<1>4. CASE FlashSteps
  BY <1>1, <1>4, FlashWrites
<1> QED
  BY <1>2, <1>3, <1>4, FlashKept

\* Where the parts of the partitions stand after a step that does not start.
LEMMA WrittenSituation ==
  ASSUME TypeInv, SlotInv, TrialInv, StepInv, FlashSteps
  PROVE  /\ ConfirmAfterPersistence => /\ OnTrial /\ ~OnTrial' /\ ~Chosen /\ ~Chosen'
                                       /\ Trusted' = running
         /\ ~ConfirmAfterPersistence => /\ ~OnTrial /\ ~OnTrial' /\ ~Chosen
                                        /\ Trusted = running /\ Trusted' = running
         /\ EndUpload => Chosen'
         /\ BeginStream \/ AcceptImage \/ WriteDevelopment => ~Chosen'
<1>1. /\ running' = running /\ Inactive' = Inactive
      /\ \/ /\ ConfirmAfterPersistence
            /\ otadata'[running] = "valid" /\ otadata'[Inactive] = otadata[Inactive]
         \/ /\ BeginStream \/ AcceptImage \/ WriteDevelopment
            /\ UNCHANGED otadata
         \/ SelectImage /\ UNCHANGED flash
         \/ /\ EndUpload \/ SelectImage
            /\ otadata'[Inactive] = "new" /\ otadata'[running] = otadata[running]
  BY FlashWrites
<1>2. ConfirmAfterPersistence => OnTrial /\ step \in {"boot", "idle"}
  BY DEF ConfirmAfterPersistence, TrialInv, StepInv
<1>3. /\ BeginStream => step = "stream"
      /\ AcceptImage => step = "write"
      /\ SelectImage => step = "accepted"
      /\ WriteDevelopment => step = "upload"
      /\ EndUpload => step = "upload_written"
  BY DEF BeginStream, AcceptImage, SelectImage, WriteDevelopment, EndUpload
<1>4. OnTrial => ~Chosen
  BY DEF SlotInv, Chosen
<1>5. ~ConfirmAfterPersistence => ~OnTrial /\ ~Chosen
  BY <1>3 DEF StepInv, FlashSteps
<1>6. UNCHANGED flash => UNCHANGED otadata
  BY DEF flash
<1> QED
  BY <1>1, <1>2, <1>3, <1>4, <1>5, <1>6 DEF OnTrial, Chosen, Trusted

-----------------------------------------------------------------------------
(* Both partitions hold what their entries say.                             *)

\* Every step keeps the partitions in order.
LEMMA SlotStep ==
  ASSUME TypeInv, SlotInv, TrialInv, StepInv, [Next]_vars
  PROVE  SlotInv'
<1>1. /\ running \in Slots /\ Inactive \in Slots /\ Inactive # running
      /\ OtherSlot(Inactive) = running /\ boot \in {running, Inactive}
  BY Types, InactiveSlot
<1>2. CASE UNCHANGED flash
  BY <1>2, FlashSame DEF SlotInv
<1>3. CASE Boots
  <2>1. UNCHANGED <<image, boot>> /\ (BootDrops \/ BootTries \/ BootKeeps)
    BY <1>3, BootOutcome
  <2>2. CASE BootDrops
    <3>1. running' = Inactive /\ Inactive' = running
      BY <1>1, <2>2 DEF BootDrops, Inactive
    <3> QED
      BY <1>1, <2>1, <2>2, <3>1 DEF BootDrops, SlotInv, OnTrial, Chosen
  <2>3. CASE BootTries
    <3>1. running' = Inactive /\ Inactive' = running
      BY <1>1, <2>3 DEF BootTries, Inactive
    <3> QED
      BY <1>1, <2>1, <2>3, <3>1 DEF BootTries, SlotInv, OnTrial, Chosen
  <2>4. CASE BootKeeps
    <3>1. running' = running /\ Inactive' = Inactive
      BY <2>4 DEF BootKeeps, Inactive
    <3> QED
      BY <1>1, <2>1, <2>4, <3>1 DEF BootKeeps, SlotInv, OnTrial, Chosen
  <2> QED
    BY <2>1, <2>2, <2>3, <2>4
<1>4. CASE FlashSteps
  <2>1. running' = running /\ Inactive' = Inactive /\ image'[running] = image[running]
    BY <1>4, FlashWrites
  <2>2. CASE /\ ConfirmAfterPersistence /\ UNCHANGED <<image, boot>>
             /\ otadata'[running] = "valid" /\ otadata'[Inactive] = otadata[Inactive]
    BY <1>1, <1>4, <2>1, <2>2, WrittenSituation DEF SlotInv
  <2>3. CASE /\ BeginStream \/ AcceptImage \/ WriteDevelopment
             /\ UNCHANGED <<otadata, boot>>
    BY <1>1, <1>4, <2>1, <2>3, WrittenSituation
       DEF SlotInv, ConfirmAfterPersistence, BeginStream, AcceptImage, WriteDevelopment
  <2>4. CASE SelectImage /\ UNCHANGED flash
    BY <2>4, FlashSame DEF SlotInv
  <2>5. CASE /\ EndUpload \/ SelectImage
             /\ boot' = Inactive /\ otadata'[Inactive] = "new"
             /\ otadata'[running] = otadata[running]
             /\ image'[Inactive] = IF EndUpload THEN Development ELSE image[Inactive]
    <3>1. image'[Inactive] # Torn
      BY <2>5, ApartImages DEF SelectImage, StepInv
    <3>2. ~ConfirmAfterPersistence
      <4>1. ConfirmAfterPersistence => step \in {"boot", "idle"}
        BY DEF ConfirmAfterPersistence, TrialInv, StepInv
      <4> QED
        BY <2>5, <4>1 DEF EndUpload, SelectImage
    <3>3. ~OnTrial' /\ ~OnTrial
      BY <1>4, <3>2, WrittenSituation
    <3> QED
      BY <1>1, <2>1, <2>5, <3>1, <3>3 DEF SlotInv, OnTrial, Chosen
  <2> QED
    BY <1>4, <2>2, <2>3, <2>4, <2>5, FlashWrites
<1> QED
  BY <1>2, <1>3, <1>4, FlashKept


-----------------------------------------------------------------------------
(* The small variables, and the main loop.                                  *)

\* An attempt that ends leaves small variables of the right types.
LEMMA FailTypes ==
  ASSUME TypeInv, NEW phase, NEW error, NEW cancel, Fail(phase, error, cancel)
  PROVE  step' = "fail" /\ healthy' \in BOOLEAN
<1>1. healthy \in BOOLEAN
  BY DEF TypeInv
<1> QED
  BY <1>1, SaveOutcome DEF Fail

\* Every step keeps the types of what the main loop and the worker exchange.
LEMMA ExchangeTypes ==
  ASSUME TypeInv, [Next]_vars
  PROVE  /\ snapshot' \in [known : BOOLEAN, healthy : BOOLEAN, prepared : BOOLEAN]
         /\ main' \in {"not_pending", "waiting", "awaiting_persistence", "confirmed",
                       "platform_error"}
         /\ notice' \in {"none", "prepare", "confirmed", "failed"}
<1>1. /\ snapshot \in [known : BOOLEAN, healthy : BOOLEAN, prepared : BOOLEAN]
      /\ main \in {"not_pending", "waiting", "awaiting_persistence", "confirmed",
                   "platform_error"}
      /\ notice \in {"none", "prepare", "confirmed", "failed"}
      /\ healthy \in BOOLEAN /\ pendingRun \in BOOLEAN /\ install.validated \in BOOLEAN
  BY Types, JournalFields DEF TypeInv, TypeOK, Journals
<1>2. CASE PowerLoss \/ HardFailure \/ Restart
  <2>1. /\ main' \in {"not_pending", "waiting"} /\ notice' = "none"
        /\ snapshot' = [known |-> FALSE, healthy |-> FALSE, prepared |-> FALSE]
    BY <1>2 DEF PowerLoss, HardFailure, Restart, Boot, ValidatorAt
  <2>2. [known |-> FALSE, healthy |-> FALSE, prepared |-> FALSE]
            \in [known : BOOLEAN, healthy : BOOLEAN, prepared : BOOLEAN]
    OBVIOUS
  <2> QED
    BY ONLY <2>1, <2>2
<1>3. CASE PublishSnapshot
  <2>1. Snapshot(TRUE) \in [known : BOOLEAN, healthy : BOOLEAN, prepared : BOOLEAN]
    BY <1>1 DEF Snapshot
  <2> QED
    BY <1>1, <1>3, <2>1 DEF PublishSnapshot, mainv
<1>4. CASE HealthyWindow \/ PrepareConfirmation \/ ConfirmAfterPersistence \/ ConfirmFails
           \/ RollbackFails
  BY <1>1, <1>4 DEF HealthyWindow, PrepareConfirmation, ConfirmAfterPersistence, ConfirmFails,
                    RollbackFails, PublishNotice, mainv
<1>5. CASE Notices
  <2>1. UNCHANGED main /\ notice' = "none"
    BY <1>5 DEF Notices, TakePrepare, TakeConfirmed, TakeFailed, mainv
  <2>2. \/ UNCHANGED snapshot
        \/ snapshot' = [known |-> TRUE, healthy |-> healthy, prepared |-> healthy]
    <3>1. CASE TakePrepare
      <4> DEFINE new == [known |-> TRUE, healthy |-> healthy, prepared |-> healthy]
      <4>1. \/ UNCHANGED snapshot
            \/ \E j : \E s \in Save(j) : snapshot' = IF s.ok THEN new ELSE snapshot
        <5> DEFINE j == IF install.validated THEN install ELSE Validated(install)
        <5>1. CASE ImagePending /\ ~(~install.validated /\ ~CanValidate(install, image[running]))
          <6>1. \E s \in Save(j) : snapshot' = IF s.ok THEN new ELSE snapshot
            BY <3>1, <5>1, Zenon DEF TakePrepare
          <6> HIDE DEF j, new
          <6> QED
            BY <6>1
        <5>2. CASE ~ImagePending \/ (~install.validated /\ ~CanValidate(install, image[running]))
          BY <3>1, <5>2, Zenon DEF TakePrepare
        <5> HIDE DEF new
        <5> QED
          BY <5>1, <5>2
      <4> HIDE DEF new
      <4>2. UNCHANGED snapshot \/ snapshot' = new
        BY <4>1
      <4> QED
        BY <4>2 DEF new
    <3>2. CASE TakeConfirmed \/ TakeFailed
      BY <3>2 DEF TakeConfirmed, TakeFailed
    <3> QED
      BY <1>5, <3>1, <3>2 DEF Notices
  <2>3. [known |-> TRUE, healthy |-> healthy, prepared |-> healthy]
            \in [known : BOOLEAN, healthy : BOOLEAN, prepared : BOOLEAN]
    BY <1>1
  <2> QED
    BY ONLY <1>1, <2>1, <2>2, <2>3
<1>6. CASE Start \/ Reports \/ ReportUnanswered \/ SelectRelease
  BY <1>1, <1>6
     DEF Start, StartUnreadable, StartOrdinary, StartValidation, StartPromotion,
         StartRollbackReport, StartRefused, Started, Reports, ReportRunning, ReportValidating,
         ReportRollback, ReportUnanswered, SelectRelease, mainv
<1>7. CASE Production
  BY <1>1, <1>7
     DEF Production, AlreadyRunning, BeginRelease, StageRelease, DownloadFails, BeginStream,
         AcceptImage, TerminalGateFails, SelectImage, ReportEnd, mainv
<1>8. CASE DevelopmentUpload
  BY <1>1, <1>8
     DEF DevelopmentUpload, OpenDevelopment, StageDevelopment, WriteDevelopment, UploadFails,
         EndUpload, AcceptDevelopment, RejectDevelopment, CloseFailedUpload, mainv
<1>9. CASE UNCHANGED vars
  BY <1>1, <1>9 DEF vars, mainv
<1> QED
  BY <1>2, <1>3, <1>4, <1>5, <1>6, <1>7, <1>8, <1>9 DEF Next, Validator

\* Every step keeps the types of what is the worker's.
LEMMA WorkerTypes ==
  ASSUME TypeInv, [Next]_vars
  PROVE  /\ step' \in Steps /\ healthy' \in BOOLEAN /\ pendingRun' \in BOOLEAN
         /\ staged' \in BOOLEAN /\ desired' \in Names
         /\ due' \subseteq {"running", "validating", "rolled_back"}
<1>1. /\ step \in Steps /\ healthy \in BOOLEAN /\ pendingRun \in BOOLEAN
      /\ staged \in BOOLEAN /\ desired \in Names /\ server.target \in Names
      /\ due \subseteq {"running", "validating", "rolled_back"} /\ NoRelease \in Names
  BY DEF TypeInv, TypeOK, Names
<1> USE DEF Steps
<1>2. CASE PowerLoss \/ HardFailure \/ Restart
  BY <1>1, <1>2 DEF PowerLoss, HardFailure, Restart, Boot
<1>3. CASE Start
  BY <1>1, <1>3, SaveOutcome
     DEF Start, StartUnreadable, StartOrdinary, StartValidation, StartPromotion,
         StartRollbackReport, StartRefused, Started, RunningReport
<1>4. CASE \/ PublishSnapshot \/ HealthyWindow \/ PrepareConfirmation
           \/ ConfirmAfterPersistence \/ ConfirmFails \/ RollbackFails \/ ReportUnanswered
           \/ SelectRelease
  BY <1>1, <1>4 DEF PublishSnapshot, HealthyWindow, PrepareConfirmation,
     ConfirmAfterPersistence, ConfirmFails, RollbackFails, ReportUnanswered, SelectRelease,
     worker
<1>5. CASE Notices
  BY <1>1, <1>5, SaveOutcome
     DEF Notices, TakePrepare, TakeConfirmed, TakeFailed, RunningReport
<1>6. CASE Reports
  BY <1>1, <1>6, SaveOutcome DEF Reports, ReportRunning, ReportValidating, ReportRollback
<1>7. CASE Production
  <2>1. CASE AlreadyRunning \/ BeginStream \/ ReportEnd \/ SelectImage
    BY <1>1, <2>1 DEF AlreadyRunning, BeginStream, ReportEnd, SelectImage, worker
  <2>2. CASE BeginRelease
    <3>1. Visible \in Names
      BY <1>1 DEF Visible
    <3> QED
      BY <1>1, <2>2, <3>1, FailTypes DEF BeginRelease
  <2>3. CASE StageRelease
    BY <1>1, <2>3, FailTypes, SaveOutcome DEF StageRelease
  <2>4. CASE DownloadFails \/ TerminalGateFails
    BY <1>1, <2>4, FailTypes DEF DownloadFails, TerminalGateFails
  <2>5. CASE AcceptImage
    BY <1>1, <2>5, SaveOutcome DEF AcceptImage
  <2> QED
    BY <1>7, <2>1, <2>2, <2>3, <2>4, <2>5 DEF Production
<1>8. CASE DevelopmentUpload
  <2>1. CASE OpenDevelopment \/ WriteDevelopment \/ UploadFails \/ EndUpload
             \/ RejectDevelopment
    BY <1>1, <2>1 DEF OpenDevelopment, WriteDevelopment, UploadFails, EndUpload,
                      RejectDevelopment
  <2>2. CASE StageDevelopment
    BY <1>1, <2>2, SaveOutcome DEF StageDevelopment
  <2>3. CASE AcceptDevelopment
    BY <1>1, <2>3, SaveOutcome DEF AcceptDevelopment
  <2>4. CASE CloseFailedUpload
    BY <1>1, <2>4, SaveOutcome DEF CloseFailedUpload
  <2> QED
    BY <1>8, <2>1, <2>2, <2>3, <2>4 DEF DevelopmentUpload
<1>9. CASE UNCHANGED vars
  BY <1>1, <1>9 DEF vars, worker
<1> QED
  BY <1>2, <1>3, <1>4, <1>5, <1>6, <1>7, <1>8, <1>9 DEF Next, Validator

\* Steps that change which partitions passed.
PassSteps == BeginStream \/ SelectImage \/ WriteDevelopment \/ AcceptDevelopment

\* All other steps leave that alone.
LEMMA PassKept == ASSUME [Next]_vars PROVE UNCHANGED passed \/ PassSteps
<1>1. PowerLoss \/ Restart \/ PublishSnapshot \/ Validator => UNCHANGED passed
  BY DEF PowerLoss, Restart, PublishSnapshot, Validator, HealthyWindow, PrepareConfirmation,
         ConfirmAfterPersistence, ConfirmFails, HardFailure, RollbackFails, ghost
<1>2. Start \/ Notices \/ SelectRelease => UNCHANGED passed
  BY DEF Start, StartUnreadable, StartOrdinary, StartValidation, StartPromotion,
         StartRollbackReport, StartRefused, Started, Notices, TakePrepare, TakeConfirmed,
         TakeFailed, SelectRelease, ghost
<1>3. Reports \/ ReportUnanswered => UNCHANGED passed
  BY DEF Reports, ReportRunning, ReportValidating, ReportRollback, ReportUnanswered
<1>4. Production => UNCHANGED passed \/ BeginStream \/ SelectImage
  BY DEF Production, AlreadyRunning, BeginRelease, StageRelease, DownloadFails, AcceptImage,
         TerminalGateFails, ReportEnd, ghost
<1>5. DevelopmentUpload => UNCHANGED passed \/ WriteDevelopment \/ AcceptDevelopment
  BY DEF DevelopmentUpload, OpenDevelopment, StageDevelopment, UploadFails, EndUpload,
         RejectDevelopment, CloseFailedUpload, ghost
<1>6. UNCHANGED vars => UNCHANGED passed
  BY DEF vars, ghost
<1> QED
  BY <1>1, <1>2, <1>3, <1>4, <1>5, <1>6 DEF Next, PassSteps

\* What has passed is a set of partitions.
LEMMA PassTypes == ASSUME TypeInv, [Next]_vars PROVE passed' \subseteq Slots
<1>1. passed \subseteq Slots /\ boot \in Slots /\ Inactive \in Slots
  BY Types, InactiveSlot
<1> QED
  BY <1>1, PassKept
     DEF PassSteps, BeginStream, SelectImage, WriteDevelopment, AcceptDevelopment


\* An installation or an upload is no work for an image on trial.
LEMMA NotOnTrial ==
  ASSUME StepInv, Start \/ ReportRollback \/ Production \/ DevelopmentUpload
  PROVE  ~pendingRun
<1>1. Start => step = "boot"
  BY DEF Start, StartUnreadable, StartOrdinary, StartValidation, StartPromotion,
         StartRollbackReport, StartRefused
<1>2. ReportRollback => "rolled_back" \in due
  BY DEF ReportRollback
<1>3. Production => step # "idle" \/ ~pendingRun
  BY DEF Production, AlreadyRunning, BeginRelease, MayInstall, StageRelease, DownloadFails,
         BeginStream, AcceptImage, TerminalGateFails, SelectImage, ReportEnd
<1>4. DevelopmentUpload => step # "idle" \/ ~pendingRun
  BY DEF DevelopmentUpload, OpenDevelopment, StageDevelopment, WriteDevelopment, UploadFails,
         EndUpload, AcceptDevelopment, RejectDevelopment, CloseFailedUpload
<1> QED
  BY <1>1, <1>2, <1>3, <1>4 DEF StepInv

\* Every step keeps the main loop in agreement with the image on trial.
LEMMA TrialStep ==
  ASSUME TypeInv, SlotInv, TrialInv, StepInv, [Next]_vars
  PROVE  TrialInv'
<1>1. CASE Boots
  <2>1. /\ main' = ValidatorAt(otadata'[running']) /\ notice' = "none"
        /\ snapshot' = [known |-> FALSE, healthy |-> FALSE, prepared |-> FALSE]
    BY <1>1, BootOutcome
  <2>2. ~snapshot'.prepared
    BY <2>1
  <2> QED
    BY <2>1, <2>2 DEF TrialInv, ValidatorAt, OnTrial
<1>2. CASE ConfirmAfterPersistence
  <2>1. main' = "confirmed" /\ notice' = "confirmed"
    BY <1>2 DEF ConfirmAfterPersistence, PublishNotice
  <2>2. FlashSteps
    BY <1>2 DEF FlashSteps
  <2>3. running' = running /\ otadata'[running] = "valid"
    BY <1>2, <2>2, Types DEF ConfirmAfterPersistence
  <2> QED
    BY <2>1, <2>3 DEF TrialInv, OnTrial, Validating
<1>3. CASE FlashSteps /\ ~ConfirmAfterPersistence
  <2>1. UNCHANGED <<main, notice, snapshot>>
    BY <1>3 DEF FlashSteps, BeginStream, AcceptImage, SelectImage, WriteDevelopment, EndUpload,
                mainv
  <2>2. ~OnTrial /\ ~OnTrial'
    BY <1>3, WrittenSituation
  <2>3. running' = running /\ otadata'[running] = otadata[running]
    BY <1>3, FlashWrites DEF flash
  <2> QED
    BY <2>1, <2>2, <2>3 DEF TrialInv, Validating
<1>4. CASE UNCHANGED flash /\ ~Boots /\ ~FlashSteps
  <2>1. OnTrial' = OnTrial /\ UNCHANGED <<otadata, running>>
    BY <1>4, FlashSame
  <2>2. CASE HealthyWindow \/ PrepareConfirmation \/ ConfirmFails \/ RollbackFails
    BY <2>1, <2>2
       DEF HealthyWindow, PrepareConfirmation, ConfirmFails, RollbackFails, PublishNotice,
           TrialInv, Validating, worker, mainv
  <2>3. CASE PublishSnapshot
    <3>1. snapshot'.prepared => pendingRun /\ install.validated
      BY <2>3 DEF PublishSnapshot, Snapshot
    <3>2. UNCHANGED <<main, notice, pendingRun, install>>
      BY <2>3 DEF PublishSnapshot, worker, mainv
    <3> QED
      BY <2>1, <3>1, <3>2 DEF TrialInv
  <2>4. CASE TakePrepare
    <3>1. UNCHANGED <<main, pendingRun>> /\ notice' = "none"
      BY <2>4 DEF TakePrepare, mainv
    <3>2. \/ snapshot'.prepared => pendingRun /\ install'.validated
          \/ UNCHANGED <<snapshot, install>>
      <4>1. CASE ImagePending /\ ~(~install.validated /\ ~CanValidate(install, image[running]))
        <5> DEFINE j == IF install.validated THEN install ELSE Validated(install)
        <5>1. PICK s \in Save(j) : /\ install' = IF s.ok THEN j ELSE install
                                   /\ s.ok \/ UNCHANGED snapshot
          BY <2>4, <4>1 DEF TakePrepare
        <5>2. CASE s.ok
          <6>1. install \in Journal /\ JournalValid(install) /\ install.pending # "none"
                /\ pendingRun
            BY <4>1, Types DEF ImagePending, Journals
          <6>2. install.validated \/ (Accepted(install) /\ ~install.validated)
            BY <4>1 DEF CanValidate
          <6>3. j.validated
            BY <6>1, <6>2, ValidatedJournal
          <6> QED
            BY <5>1, <5>2, <6>1, <6>3
        <5>3. CASE ~s.ok
          BY <5>1, <5>3
        <5> QED
          BY <5>2, <5>3
      <4>2. CASE ~ImagePending \/ (~install.validated /\ ~CanValidate(install, image[running]))
        BY <2>4, <4>2 DEF TakePrepare
      <4> QED
        BY <4>1, <4>2
    <3> QED
      BY <2>1, <3>1, <3>2 DEF TrialInv, Validating
  <2>5. CASE TakeConfirmed
    BY <2>1, <2>5 DEF TakeConfirmed, TrialInv, Validating, mainv
  <2>6. CASE Start \/ ReportRollback \/ Production \/ DevelopmentUpload
    <3>1. UNCHANGED <<main, notice, snapshot>>
      <4>1. Start \/ ReportRollback => UNCHANGED <<main, notice, snapshot>>
        BY DEF Start, StartUnreadable, StartOrdinary, StartValidation, StartPromotion,
               StartRollbackReport, StartRefused, Started, ReportRollback, mainv
      <4>2. Production => UNCHANGED <<main, notice, snapshot>>
        BY DEF Production, AlreadyRunning, BeginRelease, StageRelease, DownloadFails,
               BeginStream, AcceptImage, TerminalGateFails, SelectImage, ReportEnd, mainv
      <4>3. DevelopmentUpload => UNCHANGED <<main, notice, snapshot>>
        BY DEF DevelopmentUpload, OpenDevelopment, StageDevelopment, WriteDevelopment,
               UploadFails, EndUpload, AcceptDevelopment, RejectDevelopment,
               CloseFailedUpload, mainv
      <4> QED
        BY <2>6, <4>1, <4>2, <4>3
    <3>2. ~pendingRun
      BY <2>6, NotOnTrial
    <3> QED
      BY <2>1, <3>1, <3>2 DEF TrialInv, Validating
  <2>7. CASE ReportRunning \/ ReportValidating \/ ReportUnanswered \/ SelectRelease
             \/ UNCHANGED vars
    BY <2>1, <2>7
       DEF ReportRunning, ReportValidating, ReportUnanswered, SelectRelease, vars, worker,
           mainv, TrialInv, Validating
  <2>8. CASE TakeFailed
    BY <2>1, <2>8 DEF TakeFailed, TrialInv, Validating, mainv
  <2> QED
    BY <1>4, <2>2, <2>3, <2>4, <2>5, <2>6, <2>7, <2>8
       DEF Next, Validator, Notices, Reports, Boots, FlashSteps
<1> QED
  BY <1>1, <1>2, <1>3, <1>4, FlashKept


-----------------------------------------------------------------------------
(* The worker's copy and the journal in flash.                              *)

\* What is left to prove of a step: the journals, where the worker is and what
\* the journals say, and that no older release is confirmed.
CoreInv  == StepInv /\ CopyInv /\ JournalInv
CoreNext == Journals' /\ StepInv' /\ CopyInv' /\ JournalInv' /\ Grows

\* The two journals, as the proofs read them.
LEMMA JournalTypes ==
  ASSUME Journals
  PROVE  /\ Holds(journal) /\ Holds(install)
         /\ Loaded.confirmed = journal.confirmed
         /\ Counter(journal.confirmed) \in Nat /\ Counter(install.confirmed) \in Nat
BY LoadedJournal, JournalFields DEF Journals, Holds

\* The same after a step.
LEMMA JournalTypesNext ==
  ASSUME Holds(journal')
  PROVE  /\ Loaded'.confirmed = journal'.confirmed
         /\ Counter(journal'.confirmed) \in Nat
BY EmptyJournals, JournalFields, Counters DEF Holds, Loaded

\* A journal that does not change keeps its confirmed release.
LEMMA GrowsStill ==
  ASSUME Journals, journal' = journal
  PROVE  Grows
BY JournalTypes DEF Grows

\* While the worker is at work, RAM and flash agree.
LEMMA AtWork ==
  ASSUME CopyInv, step # "boot", healthy, ~Chosen
  PROVE  journal = install
BY DEF CopyInv

\* The copy is in order without an image on trial.
LEMMA CopyNext ==
  ASSUME Holds(journal'), ~pendingRun', healthy' => journal' = install',
         Counter(install'.confirmed) <= Counter(journal'.confirmed)
  PROVE  CopyInv'
BY JournalTypesNext DEF CopyInv

\* Nothing changes for the journal if nothing changes for the trusted partition.
LEMMA JournalKept ==
  ASSUME JournalInv, journal' = journal, Trusted' = Trusted,
         otadata'[Trusted] = otadata[Trusted], image'[Trusted] = image[Trusted],
         Trusted \in passed => Trusted \in passed',
         Chosen' \/ OnTrial' => /\ Chosen \/ OnTrial
                                /\ boot' = boot /\ (boot \in passed => boot \in passed')
  PROVE  JournalInv'
<1>1. MatchesIn(journal, Trusted)' <=> MatchesIn(journal, Trusted)
  BY DEF MatchesIn
<1>2. NamedBy(journal, Trusted)' <=> NamedBy(journal, Trusted)
  BY DEF NamedBy
<1> QED
  BY <1>1, <1>2 DEF JournalInv

\* A save that touches neither what is confirmed nor the running image.
LEMMA SavedStep ==
  ASSUME Journals, CoreInv, healthy, step # "boot", ~Chosen, ~OnTrial, ~Chosen', ~OnTrial',
         ~pendingRun',
         running' = running, image'[running] = image[running],
         otadata'[running] = otadata[running], passed' = passed \/ passed' = passed \ {Inactive},
         Inactive # running,
         NEW j \in Journal, JournalValid(j),
         j.confirmed = install.confirmed, j.development = install.development,
         ~MatchesIn(j, running), ~MatchesIn(install, running),
         journal' = j \/ journal' = journal,
         install' \in Journal, JournalValid(install'), install'.confirmed = install.confirmed,
         healthy' => journal' = install'
  PROVE  Journals' /\ CopyInv' /\ JournalInv' /\ Grows
<1>1. journal = install
  BY AtWork DEF CoreInv
<1>2. Trusted = running /\ Trusted' = running
  BY DEF Trusted
<1>3. Holds(journal') /\ Holds(j) /\ Journals'
  BY <1>1 DEF Journals, Holds
<1>4. journal'.confirmed = install.confirmed /\ journal'.development = install.development
  BY <1>1
<1>5. Counter(install.confirmed) \in Nat
  BY JournalTypes
<1>6. ~MatchesIn(journal, Trusted)'
  BY <1>1, <1>2 DEF MatchesIn
<1>7. ~MatchesIn(journal, Trusted)
  BY <1>1, <1>2
<1>8. JournalInv'
  BY <1>1, <1>2, <1>4, <1>6, <1>7 DEF JournalInv, CoreInv
<1>9. CopyInv'
  BY <1>3, <1>4, <1>5, CopyNext
<1>10. Grows
  BY <1>1, <1>4, <1>5 DEF Grows
<1> QED
  BY <1>3, <1>8, <1>9, <1>10

-----------------------------------------------------------------------------
(* Steps that leave the transaction alone.                                  *)

\* Steps of the main loop, of the server and of reports that end nothing.
QuietSteps == \/ PublishSnapshot \/ HealthyWindow \/ PrepareConfirmation \/ ConfirmFails
              \/ RollbackFails \/ TakeFailed \/ ReportRunning \/ ReportValidating
              \/ ReportUnanswered \/ SelectRelease \/ AlreadyRunning \/ UNCHANGED vars

\* What they leave alone.
LEMMA QuietOutcome ==
  ASSUME QuietSteps
  PROVE  /\ UNCHANGED <<flash, journal, step, install, healthy, pendingRun, desired, outcome,
                        staged, passed>>
         /\ due' \subseteq due
         /\ main = "confirmed" /\ notice = "none" => main' = "confirmed" /\ notice' = "none"
<1>1. CASE PublishSnapshot \/ HealthyWindow \/ PrepareConfirmation \/ ConfirmFails
           \/ RollbackFails \/ TakeFailed
  BY <1>1 DEF PublishSnapshot, HealthyWindow, PrepareConfirmation, ConfirmFails, RollbackFails,
              Validating, PublishNotice, TakeFailed, worker, mainv, ghost
<1>2. CASE ReportRunning \/ ReportValidating \/ ReportUnanswered \/ SelectRelease
           \/ AlreadyRunning \/ UNCHANGED vars
  BY <1>2 DEF ReportRunning, ReportValidating, ReportUnanswered, SelectRelease,
              AlreadyRunning, vars, worker, mainv, ghost
<1> QED
  BY <1>1, <1>2 DEF QuietSteps

\* Those steps keep the journals in order.
LEMMA QuietCore ==
  ASSUME Journals, CoreInv, QuietSteps
  PROVE  CoreNext
<1>1. /\ UNCHANGED <<flash, journal, step, install, healthy, pendingRun, desired, outcome,
                     staged, passed>>
      /\ due' \subseteq due
      /\ main = "confirmed" /\ notice = "none" => main' = "confirmed" /\ notice' = "none"
  BY QuietOutcome
<1>2. /\ UNCHANGED <<image, otadata, boot, running>>
      /\ Inactive' = Inactive /\ OnTrial' = OnTrial /\ Chosen' = Chosen /\ Trusted' = Trusted
  BY <1>1, FlashSame
<1>3. Journals' /\ Grows
  BY <1>1, JournalTypes DEF Journals, Grows
<1>4. StepInv'
  BY <1>1, <1>2 DEF StepInv, CoreInv, MatchesIn
<1>5. Loaded' = Loaded /\ Promoted' = Promoted
  BY <1>1 DEF Loaded, Promoted
<1>6. CopyInv'
  BY <1>1, <1>2, <1>5 DEF CopyInv, CoreInv, MatchesIn, NamedBy
<1>7. JournalInv'
  BY <1>1, <1>2, JournalKept DEF CoreInv
<1> QED
  BY <1>3, <1>4, <1>6, <1>7 DEF CoreNext

-----------------------------------------------------------------------------
(* Starts.                                                                  *)

\* A start keeps the trusted partition, whatever it starts.
LEMMA TrustedKept ==
  ASSUME TypeInv, SlotInv, TrialInv, Boots
  PROVE  /\ Trusted' = Trusted /\ otadata'[Trusted] = otadata[Trusted]
         /\ ~Chosen' /\ (OnTrial' => Chosen)
<1>1. /\ running \in Slots /\ Inactive \in Slots /\ Inactive # running
      /\ OtherSlot(Inactive) = running
  BY Types, InactiveSlot
<1>2. BootDrops \/ BootTries \/ BootKeeps
  BY BootOutcome
<1>3. CASE BootDrops
  <2>1. running' = Inactive /\ Inactive' = running
    BY <1>1, <1>3 DEF BootDrops, Inactive
  <2> QED
    BY <1>1, <1>3, <2>1 DEF BootDrops, SlotInv, Trusted, OnTrial, Chosen
<1>4. CASE BootTries
  <2>1. running' = Inactive /\ Inactive' = running
    BY <1>1, <1>4 DEF BootTries, Inactive
  <2> QED
    BY <1>1, <1>4, <2>1 DEF BootTries, SlotInv, Trusted, OnTrial, Chosen
<1>5. CASE BootKeeps
  <2>1. running' = running /\ Inactive' = Inactive
    BY <1>5 DEF BootKeeps, Inactive
  <2> QED
    BY <1>1, <1>5, <2>1 DEF BootKeeps, SlotInv, Trusted, OnTrial, Chosen
<1> QED
  BY <1>2, <1>3, <1>4, <1>5

\* A start keeps the journals in order.
LEMMA BootCore ==
  ASSUME TypeInv, SlotInv, TrialInv, CoreInv, Boots
  PROVE  CoreNext
<1>1. /\ UNCHANGED <<image, boot, journal, passed>>
      /\ step' = "boot" /\ install' = EmptyJournal
      /\ healthy' = FALSE /\ pendingRun' = FALSE /\ due' = {} /\ staged' = FALSE
  BY BootOutcome
<1>2. /\ Trusted' = Trusted /\ otadata'[Trusted] = otadata[Trusted]
      /\ ~Chosen' /\ (OnTrial' => Chosen)
  BY TrustedKept
<1>3. Journals /\ Journals' /\ Holds(journal')
  BY <1>1, Types, EmptyJournals DEF Journals
<1>4. StepInv'
  BY <1>1, <1>2 DEF StepInv
<1>5. Counter(install'.confirmed) = 0
  BY <1>1, EmptyJournals, Counters
<1>6. CopyInv'
  BY <1>1, <1>3, <1>5, CopyNext, JournalTypesNext
<1>7. JournalInv'
  BY <1>1, <1>2, JournalKept DEF CoreInv
<1> QED
  BY <1>1, <1>3, <1>4, <1>6, <1>7, GrowsStill DEF CoreNext

\* What the boot policy finds of the transaction at a start.
LEMMA Found ==
  ASSUME TypeInv, SlotInv, CoreInv, step = "boot"
  PROVE  /\ ~Chosen /\ Loaded \in Journal /\ JournalValid(Loaded)
         /\ BootAction \in {"ordinary", "promote", "clear", "report_rollback"} => ~OnTrial
         /\ BootAction \in {"validate", "promote", "clear", "report_rollback"} =>
                Loaded = journal
         /\ BootAction = "validate" =>
                MatchesIn(Loaded, running) /\ NamedBy(Loaded, running)
         /\ BootAction = "promote" =>
                MatchesIn(Loaded, running) /\ Loaded.pending = "production"
                /\ Loaded.release = image[running]
         /\ BootAction = "clear" => Loaded.pending = "development"
         /\ BootAction = "clear" /\ otadata[running] # "valid" => ~MatchesIn(Loaded, running)
         /\ BootAction = "report_rollback" =>
                Loaded.pending = "production" /\ ~MatchesIn(Loaded, running)
         /\ BootAction # "halt"
<1>1. ~Chosen
  BY DEF StepInv, CoreInv
<1>2. Journals
  BY Types
<1>3. /\ Loaded \in Journal /\ JournalValid(Loaded)
      /\ Loaded = journal \/ Loaded = EmptyJournal
      /\ Loaded.pending \in {"none", "production", "development"}
  BY <1>2, LoadedJournal, JournalFields DEF Journals
<1>4. Loaded.pending # "none" => Loaded = journal
  BY <1>3, EmptyJournals
<1>5. otadata[running] \in {"undefined", "valid", "pending_verify"}
  BY DEF SlotInv
<1>6. ~OnTrial /\ MatchesIn(Loaded, running) =>
          otadata[running] = "valid" /\ Loaded.validated /\ NamedBy(Loaded, running)
  <2>1. MatchesIn(Loaded, running) => Loaded.pending # "none"
    BY DEF MatchesIn, IdentityMatches
  <2> QED
    BY <1>4, <2>1 DEF JournalInv, CoreInv, Trusted
<1>7. BootAction = Recovery(Loaded, otadata[running], running, image[running])
  BY DEF BootAction
<1> DEFINE same == IdentityMatches(Loaded, running, image[running])
           named == Loaded.pending = "production" => Loaded.release = image[running]
           state == otadata[running]
<1>8. BootAction = CASE ~JournalValid(Loaded) -> "halt"
          [] Loaded.pending = "none" /\ state = "pending_verify" -> "rollback"
          [] Loaded.pending = "none" /\ state \in {"valid", "undefined"} -> "ordinary"
          [] Loaded.pending # "none" /\ state = "pending_verify" ->
                IF same /\ named THEN "validate" ELSE "rollback"
          [] Loaded.pending # "none" /\ state = "valid" /\ same /\ named /\ Loaded.validated ->
                IF Loaded.pending = "production" THEN "promote" ELSE "clear"
          [] Loaded.pending # "none" /\ state \in {"valid", "undefined"} /\ ~same ->
                IF Loaded.pending = "production" THEN "report_rollback" ELSE "clear"
          [] OTHER -> "halt"
  BY <1>7 DEF Recovery
<1>9. same <=> MatchesIn(Loaded, running)
  BY DEF MatchesIn
<1>10. named <=> NamedBy(Loaded, running)
  BY DEF NamedBy
<1>11. OnTrial <=> state = "pending_verify"
  BY DEF OnTrial
<1> HIDE DEF same, state
<1>12. CASE Loaded.pending = "none"
  <2>1. BootAction \in {"rollback", "ordinary"} /\ (BootAction = "ordinary" => ~OnTrial)
    BY <1>3, <1>5, <1>8, <1>11, <1>12 DEF state
  <2> QED
    BY <1>1, <1>3, <2>1
<1>13. CASE Loaded.pending # "none" /\ OnTrial
  <2>1. BootAction = IF same /\ named THEN "validate" ELSE "rollback"
    BY <1>3, <1>8, <1>11, <1>13
  <2> QED
    BY <1>1, <1>3, <1>4, <1>9, <1>10, <1>13, <2>1
<1>14. CASE Loaded.pending # "none" /\ ~OnTrial /\ same
  <2>1. state = "valid" /\ named /\ Loaded.validated
    BY <1>6, <1>9, <1>10, <1>14 DEF state
  <2>2. BootAction = IF Loaded.pending = "production" THEN "promote" ELSE "clear"
    BY <1>3, <1>8, <1>14, <2>1
  <2> QED
    BY <1>1, <1>3, <1>4, <1>9, <1>14, <2>1, <2>2 DEF state
<1>15. CASE Loaded.pending # "none" /\ ~OnTrial /\ ~same
  <2>1. state \in {"valid", "undefined"}
    BY <1>5, <1>11, <1>15 DEF state
  <2>2. BootAction = IF Loaded.pending = "production" THEN "report_rollback" ELSE "clear"
    BY <1>3, <1>8, <1>15, <2>1
  <2> QED
    BY <1>1, <1>3, <1>4, <1>9, <1>15, <2>2
<1> QED
  BY <1>12, <1>13, <1>14, <1>15


-----------------------------------------------------------------------------
(* The boot policy.                                                         *)

\* A start that leaves no image to validate, and reports no rollback.
LEMMA StartedCore ==
  ASSUME TypeInv, SlotInv, CoreInv, step = "boot", NEW j, NEW ok, NEW reports,
         Started(j, ok, reports, FALSE), ok \in BOOLEAN,
         "rolled_back" \notin reports, OnTrial => ~ok,
         j \in Journal, JournalValid(j), Holds(journal'),
         ok => journal' = j, Counter(j.confirmed) <= Counter(journal'.confirmed),
         JournalInv', Grows
  PROVE  CoreNext
<1>1. /\ install' = j /\ healthy' = ok /\ due' = reports /\ pendingRun' = FALSE
      /\ step' = "idle" /\ UNCHANGED <<flash, outcome>>
  BY DEF Started
<1>2. OnTrial' = OnTrial /\ Chosen' = Chosen /\ ~Chosen
  BY <1>1, FlashSame DEF CoreInv, StepInv
<1>3. StepInv'
  BY <1>1, <1>2 DEF StepInv
<1>4. CopyInv'
  BY <1>1, CopyNext
<1> QED
  BY <1>1, <1>3, <1>4 DEF CoreNext, Journals

\* The policy's answers keep the journals in order.
LEMMA StartCore ==
  ASSUME TypeInv, SlotInv, CoreInv, Start
  PROVE  CoreNext
<1>1. step = "boot" /\ UNCHANGED <<flash, passed>>
  BY DEF Start, StartUnreadable, StartOrdinary, StartValidation, StartPromotion,
         StartRollbackReport, StartRefused, Started, ghost
<1>2. /\ ~Chosen /\ Loaded \in Journal /\ JournalValid(Loaded)
      /\ BootAction \in {"ordinary", "promote", "clear", "report_rollback"} => ~OnTrial
      /\ BootAction \in {"validate", "promote", "clear", "report_rollback"} =>
             Loaded = journal
      /\ BootAction = "validate" =>
             MatchesIn(Loaded, running) /\ NamedBy(Loaded, running)
      /\ BootAction = "promote" =>
             MatchesIn(Loaded, running) /\ Loaded.pending = "production"
             /\ Loaded.release = image[running]
      /\ BootAction = "clear" => Loaded.pending = "development"
      /\ BootAction = "clear" /\ otadata[running] # "valid" => ~MatchesIn(Loaded, running)
      /\ BootAction = "report_rollback" =>
             Loaded.pending = "production" /\ ~MatchesIn(Loaded, running)
  BY <1>1, Found
<1>3. /\ UNCHANGED <<image, otadata, boot, running>>
      /\ Inactive' = Inactive /\ OnTrial' = OnTrial /\ Chosen' = Chosen /\ Trusted' = Trusted
  BY <1>1, FlashSame
<1>4. Journals /\ Holds(journal) /\ Loaded.confirmed = journal.confirmed
      /\ Counter(journal.confirmed) \in Nat
  BY Types, JournalTypes DEF Journals
<1>5. /\ EmptyJournal \in Journal /\ JournalValid(EmptyJournal)
      /\ EmptyJournal.pending = "none" /\ EmptyJournal.confirmed = NoRelease
      /\ Counter(EmptyJournal.confirmed) = 0
  BY EmptyJournals, Counters
<1>6. JournalInv
  BY DEF CoreInv
<1>7. ASSUME journal' = journal
      PROVE  JournalInv' /\ Grows /\ Holds(journal')
  BY <1>1, <1>3, <1>4, <1>6, <1>7, JournalKept, GrowsStill
<1>8. CASE StartUnreadable
  <2>1. Started(EmptyJournal, FALSE, {}, FALSE) /\ journal' = journal
    BY <1>8 DEF StartUnreadable
  <2> DEFINE ok == FALSE
  <2>2. ok \in BOOLEAN /\ ~ok /\ Started(EmptyJournal, ok, {}, FALSE)
    BY <2>1
  <2>3. /\ JournalInv' /\ Grows /\ Holds(journal')
        /\ Counter(EmptyJournal.confirmed) <= Counter(journal'.confirmed)
    BY <1>4, <1>5, <1>7, <2>1
  <2> HIDE DEF ok
  <2> QED
    BY <1>1, <1>5, <2>2, <2>3, StartedCore
<1>9. CASE StartRefused
  <2>1. Started(Loaded, FALSE, {}, FALSE) /\ journal' = journal
    BY <1>9 DEF StartRefused
  <2> DEFINE ok == FALSE
  <2>2. ok \in BOOLEAN /\ ~ok /\ Started(Loaded, ok, {}, FALSE)
    BY <2>1
  <2>3. /\ JournalInv' /\ Grows /\ Holds(journal')
        /\ Counter(Loaded.confirmed) <= Counter(journal'.confirmed)
    BY <1>4, <1>7, <2>1
  <2> HIDE DEF ok
  <2> QED
    BY <1>1, <1>2, <2>2, <2>3, StartedCore
<1>10. CASE StartRollbackReport
  <2>1. /\ BootAction = "report_rollback" /\ journal' = journal
        /\ Started(Loaded, TRUE, {"rolled_back"}, FALSE)
    BY <1>10 DEF StartRollbackReport
  <2>2. /\ install' = Loaded /\ healthy' = TRUE /\ due' = {"rolled_back"}
        /\ pendingRun' = FALSE /\ step' = "idle" /\ UNCHANGED outcome
    BY <2>1 DEF Started
  <2>3. /\ ~OnTrial' /\ ~Chosen' /\ install' = journal' /\ install'.pending = "production"
        /\ ~MatchesIn(install, running)'
    BY <1>2, <1>3, <2>1, <2>2 DEF MatchesIn
  <2>4. StepInv'
    BY <2>2, <2>3 DEF StepInv
  <2>5. CopyInv'
    BY <1>4, <1>7, <2>1, <2>2, <2>3, CopyNext
  <2> QED
    BY <1>2, <1>7, <2>1, <2>2, <2>4, <2>5 DEF CoreNext, Journals
<1>11. CASE StartValidation
  <2>1. /\ BootAction = "validate" /\ journal' = journal
        /\ Started(Loaded, TRUE,
                   IF Loaded.pending = "production" THEN {"validating"} ELSE {}, TRUE)
    BY <1>11 DEF StartValidation
  <2>2. /\ install' = Loaded /\ healthy' = TRUE /\ "rolled_back" \notin due'
        /\ pendingRun' = TRUE /\ step' = "idle" /\ UNCHANGED outcome
    BY <2>1 DEF Started
  <2>3. /\ ~Chosen' /\ install' = journal'
        /\ MatchesIn(install, running)' /\ NamedBy(install, running)'
    BY <1>2, <1>3, <2>1, <2>2 DEF MatchesIn, NamedBy
  <2>4. StepInv'
    BY <2>2, <2>3 DEF StepInv
  <2>5. Counter(install'.confirmed) <= Counter(Loaded'.confirmed)
    BY <1>4, <1>7, <2>1, <2>3, JournalTypesNext
  <2>6. CopyInv'
    BY <2>3, <2>5 DEF CopyInv
  <2> QED
    BY <1>2, <1>7, <2>1, <2>2, <2>4, <2>6 DEF CoreNext, Journals
<1>12. CASE StartOrdinary
  <2>1. ~OnTrial
    BY <1>2, <1>12 DEF StartOrdinary
  <2>2. CASE journal # Absent
    <3>1. /\ Started(Loaded, TRUE, RunningReport(Loaded), FALSE) /\ journal' = journal
          /\ Loaded = journal
      BY <1>12, <2>2 DEF StartOrdinary, Loaded
    <3>2. "rolled_back" \notin RunningReport(Loaded)
      BY DEF RunningReport
    <3> DEFINE ok == TRUE
    <3>3. ok \in BOOLEAN /\ ok /\ Started(Loaded, ok, RunningReport(Loaded), FALSE)
      BY <3>1
    <3>4. /\ JournalInv' /\ Grows /\ Holds(journal') /\ journal' = Loaded
          /\ Counter(Loaded.confirmed) <= Counter(journal'.confirmed)
      BY <1>4, <1>7, <3>1
    <3> HIDE DEF ok
    <3> QED
      BY <1>1, <1>2, <2>1, <3>2, <3>3, <3>4, StartedCore
  <2>3. CASE journal = Absent
    <3>1. PICK s \in Save(EmptyJournal) : Saved(s) /\ Started(EmptyJournal, s.ok, {}, FALSE)
      BY <1>12, <2>3 DEF StartOrdinary
    <3>2. /\ s.ok \in BOOLEAN /\ (s.ok => journal' = EmptyJournal)
          /\ journal' = EmptyJournal \/ journal' = journal
      BY <3>1, SavedJournal
    <3>3. journal.confirmed = NoRelease
      BY <2>3, EmptyJournals
    <3>4. Holds(journal') /\ journal'.confirmed = NoRelease
      BY <1>4, <1>5, <3>2, <3>3 DEF Holds
    <3>5. Grows /\ Counter(EmptyJournal.confirmed) <= Counter(journal'.confirmed)
      BY <1>5, <3>3, <3>4, Counters DEF Grows
    <3>6. ~MatchesIn(journal, Trusted)'
      BY <1>5, <2>3, <3>2, EmptyJournals DEF MatchesIn, IdentityMatches, Accepted
    <3>7. JournalInv'
      BY <1>1, <1>2, <1>3, <1>6, <2>1, <3>4, <3>6 DEF JournalInv
    <3> QED
      BY <1>1, <1>5, <2>1, <3>1, <3>2, <3>4, <3>5, <3>7, StartedCore
  <2> QED
    BY <2>2, <2>3
<1>13. CASE StartPromotion
  <2> DEFINE j == CASE BootAction = "promote" -> ReleaseConfirmed(Loaded)
                    [] BootAction = "clear" /\ otadata[running] = "valid"
                          /\ IdentityMatches(Loaded, running, image[running]) ->
                             DevelopmentConfirmed(Loaded)
                    [] OTHER -> Cancelled(Loaded, "development")
  <2>1. PICK s \in Save(j) :
           /\ Saved(s)
           /\ IF s.ok
              THEN Started(j, TRUE, IF BootAction = "promote" THEN RunningReport(j)
                                                               ELSE {}, FALSE)
              ELSE Started(Loaded, FALSE, {}, FALSE)
    BY <1>13 DEF StartPromotion
  <2>2. BootAction \in {"promote", "clear"}
    BY <1>13 DEF StartPromotion
  <2>3. /\ s.ok \in BOOLEAN /\ (s.ok => journal' = j)
        /\ journal' = j \/ journal' = journal
    BY <2>1, SavedJournal
  <2>4. /\ j \in Journal /\ JournalValid(j) /\ j.pending = "none" /\ j.image = Torn
        /\ Counter(Loaded.confirmed) <= Counter(j.confirmed)
        /\ j.confirmed # NoRelease /\ ~j.development => image[running] = j.confirmed
    <3>1. Counter(Loaded.confirmed) \in Nat /\ Counter(Loaded.release) \in Nat
      BY <1>2, JournalFields
    <3>2. CASE BootAction = "promote"
      <4>1. j = ReleaseConfirmed(Loaded)
        BY <3>2
      <4> HIDE DEF j
      <4> QED
        BY <1>2, <3>1, <3>2, <4>1, ReleaseJournal
    <3>3. CASE /\ BootAction = "clear" /\ otadata[running] = "valid"
               /\ IdentityMatches(Loaded, running, image[running])
      <4>1. j = DevelopmentConfirmed(Loaded)
        BY <3>3
      <4> HIDE DEF j
      <4> QED
        BY <1>2, <3>1, <4>1, DevelopmentJournal
    <3>4. CASE BootAction = "clear" /\ ~MatchesIn(Loaded, running)
      <4>1. j = Cancelled(Loaded, "development")
        BY <3>4 DEF MatchesIn
      <4> HIDE DEF j
      <4>2. /\ j \in Journal /\ JournalValid(j) /\ j.pending = "none" /\ j.image = Torn
            /\ j.confirmed = Loaded.confirmed /\ j.development = Loaded.development
        BY <1>2, <3>4, <4>1, CancelledJournal
      <4>3. Trusted = running /\ Loaded = journal
        BY <1>2, <3>4 DEF Trusted
      <4> QED
        BY <1>6, <3>1, <3>4, <4>2, <4>3 DEF JournalInv
    <3> QED
      BY <1>2, <2>2, <3>2, <3>3, <3>4 DEF MatchesIn
  <2> HIDE DEF j
  <2>5. Loaded = journal /\ ~OnTrial
    BY <1>2, <2>2
  <2>6. Counter(j.confirmed) \in Nat
    BY <2>4, JournalFields
  <2>7. Holds(journal') /\ Grows /\ Counter(Loaded.confirmed) <= Counter(journal'.confirmed)
    BY <1>4, <2>3, <2>4, <2>5 DEF Holds, Grows
  <2>8. JournalInv'
    <3>1. CASE journal' = journal
      BY <1>7, <3>1
    <3>2. CASE journal' = j
      <4>1. ~MatchesIn(journal, Trusted)'
        BY <2>4, <3>2 DEF MatchesIn, IdentityMatches
      <4>2. Trusted = running
        BY <2>5 DEF Trusted
      <4> QED
        BY <1>1, <1>2, <1>3, <1>6, <2>4, <2>5, <3>2, <4>1, <4>2 DEF JournalInv
    <3> QED
      BY <2>3, <3>1, <3>2
  <2>9. CASE s.ok
    <3> DEFINE reports == IF BootAction = "promote" THEN RunningReport(j) ELSE {}
    <3>1. Started(j, TRUE, reports, FALSE) /\ "rolled_back" \notin reports
      BY <2>1, <2>9 DEF RunningReport
    <3> HIDE DEF reports
    <3>2. journal' = j
      BY <2>3, <2>9
    <3> DEFINE ok == TRUE
    <3>3. ok \in BOOLEAN /\ ok /\ Started(j, ok, reports, FALSE)
      BY <3>1
    <3>4. Counter(j.confirmed) <= Counter(journal'.confirmed)
      BY <2>6, <3>2
    <3> HIDE DEF ok
    <3> QED
      BY <1>1, <2>4, <2>5, <2>7, <2>8, <3>1, <3>2, <3>3, <3>4, StartedCore
  <2>10. CASE ~s.ok
    <3>1. Started(Loaded, FALSE, {}, FALSE)
      BY <2>1, <2>10
    <3> QED
      BY <1>1, <1>2, <2>7, <2>8, <3>1, StartedCore
  <2> QED
    BY <2>3, <2>9, <2>10
<1> QED
  BY <1>8, <1>9, <1>10, <1>11, <1>12, <1>13 DEF Start


-----------------------------------------------------------------------------
(* The image on trial.                                                      *)

\* The trusted partition moves on once flash names the image as validated.
LEMMA ConfirmCore ==
  ASSUME TypeInv, SlotInv, TrialInv, CoreInv, ConfirmAfterPersistence
  PROVE  CoreNext
<1>1. /\ main = "awaiting_persistence" /\ snapshot.prepared
      /\ UNCHANGED <<image, boot, running, journal, step, install, healthy, pendingRun, due,
                     staged, outcome, passed>>
      /\ otadata' = [otadata EXCEPT ![running] = "valid"]
  BY DEF ConfirmAfterPersistence, worker, ghost
<1>2. /\ running \in Slots /\ Inactive \in Slots /\ Inactive # running /\ Journals
      /\ Inactive' = Inactive /\ otadata \in [Slots -> EntryStates]
  BY <1>1, Types, InactiveSlot DEF Inactive
<1>3. otadata'[running] = "valid" /\ otadata'[Inactive] = otadata[Inactive]
  BY <1>1, <1>2
<1>4. OnTrial /\ pendingRun /\ install.validated /\ boot = running /\ ~Chosen
  BY <1>1 DEF TrialInv, Validating, SlotInv, Chosen
<1>5. ~OnTrial' /\ ~Chosen' /\ Trusted' = running
  BY <1>1, <1>2, <1>3, <1>4 DEF OnTrial, Chosen, Trusted
<1>6. /\ MatchesIn(install, running) /\ NamedBy(install, running)
      /\ journal \in {install, Validated(install)}
  BY <1>1, <1>4 DEF CopyInv, CoreInv
<1>7. /\ install.pending # "none" /\ Accepted(install)
      /\ install \in Journal /\ JournalValid(install)
  BY <1>2, <1>6 DEF MatchesIn, IdentityMatches, Journals
<1>8. /\ Validated(install).pending = install.pending
      /\ Validated(install).slot = install.slot /\ Validated(install).image = install.image
      /\ Validated(install).release = install.release /\ Validated(install).validated
      /\ JournalValid(Validated(install))
  BY <1>7, ValidatedJournal
<1>9. /\ journal.pending = install.pending /\ journal.slot = install.slot
      /\ journal.image = install.image /\ journal.release = install.release
      /\ journal.validated /\ JournalValid(journal)
  BY <1>4, <1>6, <1>7, <1>8
<1>10. MatchesIn(journal, running)' /\ NamedBy(journal, running)'
  BY <1>1, <1>6, <1>9 DEF MatchesIn, NamedBy, IdentityMatches, Accepted
<1>11. running \in passed
  BY <1>4, <1>7, <1>9 DEF JournalInv, CoreInv, Accepted
<1>12. JournalInv'
  BY <1>1, <1>3, <1>5, <1>9, <1>10, <1>11 DEF JournalInv
<1>13. StepInv'
  BY <1>1, <1>2, <1>4, <1>5 DEF StepInv, CoreInv
<1>14. Loaded' = Loaded /\ Promoted' = Promoted
  BY <1>1 DEF Loaded, Promoted
<1>15. CopyInv'
  BY <1>1, <1>4, <1>5, <1>6, <1>14 DEF CopyInv, CoreInv, MatchesIn, NamedBy
<1> QED
  BY <1>1, <1>2, <1>12, <1>13, <1>15, GrowsStill DEF CoreNext, Journals

\* Persisting that the image is validated keeps flash and RAM explained.
LEMMA PrepareCore ==
  ASSUME TypeInv, SlotInv, TrialInv, CoreInv, TakePrepare
  PROVE  CoreNext
<1>1. /\ step = "idle" /\ notice = "prepare"
      /\ UNCHANGED <<flash, main, step, pendingRun, due, staged, outcome, passed>>
  BY DEF TakePrepare, Idle, mainv, ghost
<1>2. /\ UNCHANGED <<image, otadata, boot, running>>
      /\ Inactive' = Inactive /\ OnTrial' = OnTrial /\ Chosen' = Chosen /\ Trusted' = Trusted
  BY <1>1, FlashSame
<1>3. main = "awaiting_persistence" /\ OnTrial /\ ~Chosen /\ boot = running
  BY <1>1 DEF TrialInv, SlotInv, Chosen
<1>4. Journals /\ Inactive # running
  BY Types, InactiveSlot
<1>5. healthy => pendingRun
  BY <1>1, <1>3 DEF StepInv, CoreInv
<1>6. pendingRun => /\ MatchesIn(install, running) /\ NamedBy(install, running)
                    /\ journal \in {install, Validated(install)}
                    /\ install.pending # "none" /\ Accepted(install)
  BY <1>3 DEF CopyInv, CoreInv, MatchesIn, IdentityMatches
<1>7. CASE UNCHANGED <<install, journal>> /\ (healthy' => healthy)
  <2>1. StepInv'
    BY <1>1, <1>2, <1>3, <1>7 DEF StepInv, CoreInv, MatchesIn
  <2>2. Loaded' = Loaded
    BY <1>7 DEF Loaded
  <2>3. CopyInv'
    BY <1>1, <1>2, <1>3, <1>6, <1>7, <2>2 DEF CopyInv, CoreInv, MatchesIn, NamedBy
  <2>4. JournalInv'
    BY <1>1, <1>2, <1>7, JournalKept DEF CoreInv
  <2> QED
    BY <1>4, <1>7, <2>1, <2>3, <2>4, GrowsStill DEF CoreNext, Journals
<1>8. ASSUME ImagePending, install.validated \/ CanValidate(install, image[running])
      PROVE  CoreNext
  <2> DEFINE j == IF install.validated THEN install ELSE Validated(install)
  <2>1. PICK s \in Save(j) : /\ Saved(s)
                             /\ install' = IF s.ok THEN j ELSE install
                             /\ healthy' = (healthy /\ s.ok)
    BY <1>8 DEF TakePrepare
  <2>2. /\ s.ok \in BOOLEAN /\ (s.ok => journal' = j)
        /\ journal' = j \/ journal' = journal
    BY <2>1, SavedJournal
  <2>3. pendingRun /\ install \in Journal /\ JournalValid(install)
        /\ install.pending # "none" /\ Accepted(install)
    BY <1>4, <1>6, <1>8 DEF ImagePending, Journals
  <2>4. /\ Validated(install) \in Journal /\ JournalValid(Validated(install))
        /\ Validated(install).pending = install.pending
        /\ Validated(install).slot = install.slot /\ Validated(install).image = install.image
        /\ Validated(install).release = install.release
        /\ Validated(install).confirmed = install.confirmed
        /\ Validated(install).development = install.development
    BY <2>3, ValidatedJournal
  <2>5. j \in {install, Validated(install)}
    OBVIOUS
  <2> HIDE DEF j
  <2>6. journal \in {install, Validated(install)}
    BY <1>6, <2>3
  <2>7. journal' \in {install, Validated(install)} /\ install' \in {install, j}
    BY <2>1, <2>2, <2>5, <2>6
  <2>8. ASSUME NEW x, x \in {install, Validated(install)}
        PROVE  /\ x \in Journal /\ JournalValid(x) /\ x.pending = install.pending
               /\ x.slot = install.slot /\ x.image = install.image
               /\ x.release = install.release /\ x.confirmed = install.confirmed
               /\ x.development = install.development
    BY <2>3, <2>4, <2>8
  <2>9. install' \in {install, Validated(install)}
    BY <2>5, <2>7
  <2>10. /\ journal' \in Journal /\ JournalValid(journal') /\ journal'.pending = install.pending
         /\ journal'.slot = install.slot /\ journal'.image = install.image
         /\ journal'.confirmed = install.confirmed
         /\ journal'.development = install.development
    BY <2>7, <2>8
  <2>11. /\ install' \in Journal /\ JournalValid(install')
         /\ install'.pending = install.pending
         /\ install'.slot = install.slot /\ install'.image = install.image
         /\ install'.release = install.release /\ install'.confirmed = install.confirmed
    BY <2>8, <2>9
  <2>12. /\ journal \in Journal /\ journal.pending = install.pending
         /\ journal.slot = install.slot /\ journal.image = install.image
         /\ journal.confirmed = install.confirmed
         /\ journal.development = install.development
    BY <2>6, <2>8
  <2>13. Journals' /\ Grows /\ Holds(journal')
    BY <2>10, <2>11, <2>12, JournalFields DEF Journals, Holds, Grows
  <2>14. StepInv'
    BY <1>1, <1>2, <1>3, <2>1, <2>3, <2>11 DEF StepInv, CoreInv
  <2>15. /\ MatchesIn(install, running)' /\ NamedBy(install, running)'
    BY <1>2, <1>6, <2>3, <2>11 DEF MatchesIn, NamedBy, IdentityMatches, Accepted
  <2>16. healthy' => journal' = install'
    BY <2>1, <2>2
  <2>17. journal' \in {install', Validated(install')}
    <3>1. CASE s.ok
      BY <2>1, <2>2, <3>1
    <3>2. CASE ~s.ok
      BY <2>1, <2>7, <3>2
    <3> QED
      BY <2>2, <3>1, <3>2
  <2>18. Counter(install'.confirmed) <= Counter(Loaded'.confirmed)
    BY <2>3, <2>10, <2>11, <2>13, JournalTypesNext
  <2>19. CopyInv'
    BY <2>15, <2>16, <2>17, <2>18 DEF CopyInv
  <2>20. Trusted = Inactive /\ install.slot = running
    BY <1>3, <1>6, <2>3 DEF Trusted, MatchesIn, IdentityMatches
  <2>21. ~MatchesIn(journal, Trusted)' /\ ~MatchesIn(journal, Trusted)
    BY <1>2, <1>4, <2>10, <2>12, <2>20 DEF MatchesIn, IdentityMatches
  <2>22. JournalInv'
    BY <1>1, <1>2, <1>3, <2>10, <2>12, <2>21 DEF JournalInv, CoreInv, Accepted
  <2> QED
    BY <2>13, <2>14, <2>19, <2>22 DEF CoreNext
<1> QED
  BY <1>7, <1>8 DEF TakePrepare

\* Promotion confirms the image that runs, and drops the transaction.
LEMMA PromoteCore ==
  ASSUME TypeInv, SlotInv, TrialInv, CoreInv, TakeConfirmed
  PROVE  CoreNext
<1>1. /\ step = "idle" /\ notice = "confirmed" /\ notice' = "none"
      /\ UNCHANGED <<flash, main, step, staged, outcome, passed>>
  BY DEF TakeConfirmed, Idle, mainv, ghost
<1>2. /\ UNCHANGED <<image, otadata, boot, running>>
      /\ Inactive' = Inactive /\ OnTrial' = OnTrial /\ Chosen' = Chosen /\ Trusted' = Trusted
  BY <1>1, FlashSame
<1>3. main = "confirmed" /\ ~OnTrial /\ Trusted = running
  BY <1>1 DEF TrialInv, Trusted
<1>4. Journals /\ Counter(install.confirmed) \in Nat /\ Counter(install.release) \in Nat
  BY Types, JournalFields DEF Journals
<1>5. pendingRun => /\ MatchesIn(install, running) /\ NamedBy(install, running)
                    /\ journal \in {install, Validated(install)}
                    /\ install.pending # "none" /\ Accepted(install) /\ ~Chosen
                    /\ "rolled_back" \notin due
  BY <1>1 DEF CopyInv, CoreInv, StepInv, MatchesIn, IdentityMatches
<1>6. CASE /\ UNCHANGED <<install, journal, pendingRun, due>>
           /\ healthy' = healthy \/ (~healthy' /\ pendingRun)
  <2>1. StepInv'
    <3>1. CASE healthy' = healthy
      BY <1>1, <1>2, <1>6, <3>1 DEF StepInv, CoreInv, MatchesIn
    <3>2. CASE ~healthy' /\ pendingRun
      BY <1>1, <1>2, <1>3, <1>5, <1>6, <3>2 DEF StepInv
    <3> QED
      BY <1>6, <3>1, <3>2
  <2>2. Loaded' = Loaded
    BY <1>6 DEF Loaded
  <2>3. CopyInv'
    BY <1>1, <1>2, <1>3, <1>5, <1>6, <2>2 DEF CopyInv, CoreInv, MatchesIn, NamedBy
  <2>4. JournalInv'
    BY <1>1, <1>2, <1>6, JournalKept DEF CoreInv
  <2> QED
    BY <1>4, <1>6, <2>1, <2>3, <2>4, GrowsStill DEF CoreNext, Journals
<1>7. ASSUME ImagePending, CanPromote
      PROVE  CoreNext
  <2> DEFINE j == Promoted
  <2>1. PICK s \in Save(Promoted) :
           /\ Saved(s)
           /\ IF s.ok
              THEN /\ install' = Promoted /\ pendingRun' = FALSE
                   /\ due' = (due \ {"validating", "running"}) \cup
                             (IF install.pending = "production"
                              THEN RunningReport(Promoted) ELSE {})
                   /\ UNCHANGED healthy
              ELSE healthy' = FALSE /\ UNCHANGED <<install, pendingRun, due>>
    BY <1>7 DEF TakeConfirmed
  <2>2. /\ s.ok \in BOOLEAN /\ (s.ok => journal' = Promoted)
        /\ journal' = Promoted \/ journal' = journal
    BY <2>1, SavedJournal
  <2>3. pendingRun /\ install \in Journal /\ JournalValid(install)
        /\ install.pending \in {"production", "development"} /\ Accepted(install)
    BY <1>4, <1>5, <1>7, JournalFields DEF ImagePending, Journals
  <2>4. /\ Promoted \in Journal /\ JournalValid(Promoted) /\ Promoted.pending = "none"
        /\ Promoted.image = Torn /\ Counter(install.confirmed) <= Counter(Promoted.confirmed)
        /\ Promoted.confirmed # NoRelease /\ ~Promoted.development =>
               image[running] = Promoted.confirmed
    <3>1. CASE install.pending = "production"
      <4>1. Promoted = ReleaseConfirmed(install) /\ install.release = image[running]
        BY <1>5, <2>3, <3>1 DEF Promoted, NamedBy
      <4> QED
        BY <1>4, <2>3, <3>1, <4>1, ReleaseJournal
    <3>2. CASE install.pending = "development"
      <4>1. Promoted = DevelopmentConfirmed(install)
        BY <3>2 DEF Promoted
      <4> QED
        BY <1>4, <2>3, <4>1, DevelopmentJournal
    <3> QED
      BY <2>3, <3>1, <3>2
  <2>5. /\ journal \in Journal /\ JournalValid(journal)
        /\ journal.confirmed = install.confirmed
    BY <1>5, <2>3, ValidatedJournal
  <2>6. Counter(Promoted.confirmed) \in Nat
    BY <2>4, JournalFields
  <2>7. /\ Holds(journal') /\ Grows
        /\ Counter(install.confirmed) <= Counter(journal'.confirmed)
    BY <1>4, <2>2, <2>4, <2>5, <2>6 DEF Holds, Grows
  <2>8. JournalInv'
    <3>1. CASE journal' = journal
      BY <1>1, <1>2, <3>1, JournalKept DEF CoreInv
    <3>2. CASE journal' = Promoted
      <4>1. ~MatchesIn(journal, Trusted)'
        BY <2>4, <3>2 DEF MatchesIn, IdentityMatches
      <4>2. ~Chosen' /\ ~OnTrial'
        BY <1>2, <1>3, <1>5, <2>3
      <4> QED
        BY <1>1, <1>2, <1>3, <2>4, <3>2, <4>1, <4>2 DEF JournalInv, CoreInv
    <3> QED
      BY <2>2, <3>1, <3>2
  <2>9. CASE s.ok
    <3>1. /\ install' = Promoted /\ journal' = Promoted /\ ~pendingRun'
          /\ "rolled_back" \notin due'
      BY <1>5, <2>1, <2>2, <2>3, <2>9 DEF RunningReport
    <3>2. StepInv'
      BY <1>1, <1>2, <1>3, <1>5, <2>3, <3>1 DEF StepInv
    <3>3. CopyInv'
      BY <2>4, <2>6, <2>7, <3>1, CopyNext
    <3> QED
      BY <2>4, <2>7, <2>8, <3>1, <3>2, <3>3 DEF CoreNext, Journals
  <2>10. CASE ~s.ok
    <3>1. healthy' = FALSE /\ UNCHANGED <<install, pendingRun, due>>
      BY <2>1, <2>10
    <3>2. StepInv'
      BY <1>1, <1>2, <1>3, <1>5, <2>3, <3>1 DEF StepInv
    <3>3. MatchesIn(install, running)' /\ NamedBy(install, running)'
      BY <1>2, <1>5, <2>3, <3>1 DEF MatchesIn, NamedBy
    <3>4. journal' \in {install', Validated(install')} \/ journal' = Promoted'
      BY <1>5, <2>2, <2>3, <3>1 DEF Promoted
    <3>5. Counter(install'.confirmed) <= Counter(Loaded'.confirmed)
      BY <2>7, <3>1, JournalTypesNext
    <3>6. CopyInv'
      BY <1>1, <1>3, <3>1, <3>3, <3>4, <3>5 DEF CopyInv
    <3> QED
      BY <1>4, <2>7, <2>8, <3>1, <3>2, <3>6 DEF CoreNext, Journals
  <2> QED
    BY <2>2, <2>9, <2>10
<1> QED
  BY <1>6, <1>7 DEF TakeConfirmed, ImagePending

\* Reporting a rollback drops a transaction that is not about what runs.
LEMMA RollbackCore ==
  ASSUME TypeInv, SlotInv, CoreInv, ReportRollback
  PROVE  CoreNext
<1>1. /\ step = "idle" /\ "rolled_back" \in due /\ install.release # NoRelease
      /\ UNCHANGED <<flash, step, pendingRun, outcome, staged, passed>>
      /\ install' = Cancelled(install, "production")
  BY DEF ReportRollback, Idle
<1>2. PICK s \in Save(Cancelled(install, "production")) :
         /\ Saved(s) /\ healthy' = (healthy /\ s.ok)
         /\ due' = IF s.ok THEN due \ {"rolled_back"} ELSE due
  BY DEF ReportRollback
<1>3. /\ s.ok \in BOOLEAN /\ (s.ok => journal' = install')
      /\ journal' = install' \/ journal' = journal
  BY <1>1, <1>2, SavedJournal
<1>4. /\ ~pendingRun /\ ~Chosen /\ ~OnTrial /\ healthy /\ install.pending = "production"
      /\ ~MatchesIn(install, running)
  BY <1>1 DEF StepInv, CoreInv
<1>5. /\ UNCHANGED <<image, otadata, boot, running>>
      /\ Inactive' = Inactive /\ OnTrial' = OnTrial /\ Chosen' = Chosen
  BY <1>1, FlashSame
<1>6. Journals /\ install \in Journal /\ JournalValid(install) /\ Inactive # running
  BY Types, InactiveSlot DEF Journals
<1>7. /\ install' \in Journal /\ JournalValid(install') /\ install'.pending = "none"
      /\ install'.release = NoRelease
      /\ install'.confirmed = install.confirmed /\ install'.development = install.development
  BY <1>1, <1>4, <1>6, CancelledJournal
<1>8. ~IdentityMatches(install', running, image[running])
  BY <1>7 DEF IdentityMatches
<1>9. healthy' => journal' = install'
  BY <1>2, <1>3
<1> DEFINE j == install'
<1>10. /\ j \in Journal /\ JournalValid(j) /\ ~MatchesIn(j, running)
       /\ j.confirmed = install.confirmed /\ j.development = install.development
       /\ journal' = j \/ journal' = journal
  BY <1>3, <1>7, <1>8 DEF MatchesIn
<1> HIDE DEF j
<1>11. step # "boot" /\ ~pendingRun' /\ passed' = passed
  BY <1>1, <1>4
<1>12. Journals' /\ CopyInv' /\ JournalInv' /\ Grows
  BY <1>4, <1>5, <1>6, <1>7, <1>9, <1>10, <1>11, SavedStep
<1>13. StepInv'
  BY <1>1, <1>2, <1>4, <1>5, <1>7 DEF StepInv
<1> QED
  BY <1>12, <1>13 DEF CoreNext


-----------------------------------------------------------------------------
(* The installation of a release.                                           *)

\* The worker writes a partition, or is about to.
Working ==
    \/ step \in {"manifest", "stream", "write", "accepted", "upload", "upload_written"}
    \/ Idle /\ healthy /\ ~pendingRun /\ install.pending = "none"

\* What holds while it does: nothing is chosen, and nothing is on trial.
LEMMA WorkingFacts ==
  ASSUME TypeInv, CoreInv, Working
  PROVE  /\ healthy /\ step # "boot" /\ ~Chosen /\ ~OnTrial /\ ~pendingRun
         /\ Trusted = running /\ journal = install /\ "rolled_back" \notin due
         /\ install \in Journal /\ JournalValid(install) /\ Journals
         /\ Inactive \in Slots /\ running \in Slots /\ Inactive # running
         /\ ~MatchesIn(install, running)
<1>1. /\ Inactive \in Slots /\ running \in Slots /\ Inactive # running /\ Journals
      /\ install \in Journal /\ JournalValid(install)
  BY Types, InactiveSlot DEF Journals
<1>2. healthy /\ step # "boot" /\ ~pendingRun /\ "rolled_back" \notin due
  BY DEF Working, Idle, CoreInv, StepInv
<1>3. ~Chosen /\ ~OnTrial
  BY <1>2 DEF Working, Idle, CoreInv, StepInv
<1>4. install.pending = "none" \/ install.slot = Inactive
  BY <1>2 DEF Working, Idle, CoreInv, StepInv
<1>5. ~MatchesIn(install, running)
  BY <1>1, <1>4 DEF MatchesIn, IdentityMatches
<1>6. journal = install
  BY <1>2, <1>3, AtWork DEF CoreInv
<1> QED
  BY <1>1, <1>2, <1>3, <1>5, <1>6 DEF Trusted

\* The worker is back, with nothing chosen and nothing on trial.
LEMMA RestNext ==
  ASSUME step' \in {"idle", "fail"}, ~OnTrial', ~Chosen', ~pendingRun',
         "rolled_back" \notin due',
         step' = "fail" => outcome'[1] \in {"failed", "rejected"}
  PROVE  StepInv'
BY DEF StepInv

\* A step that writes neither journal, neither partition.
LEMMA Untouched ==
  ASSUME Journals, CoreInv, UNCHANGED <<flash, journal, install, passed>>, ~pendingRun',
         healthy' => \/ journal = install
                     \/ /\ Chosen /\ step' \in {"upload_failed", "idle"}
                        /\ install.pending = "development"
                        /\ journal = WithAccepted(install, image[Inactive])
  PROVE  Journals' /\ CopyInv' /\ JournalInv' /\ Grows
<1>1. /\ UNCHANGED <<image, otadata, boot, running>>
      /\ Inactive' = Inactive /\ OnTrial' = OnTrial /\ Chosen' = Chosen /\ Trusted' = Trusted
  BY FlashSame
<1>2. Loaded' = Loaded
  BY DEF Loaded
<1>3. CopyInv'
  BY <1>1, <1>2 DEF CopyInv, CoreInv
<1>4. JournalInv'
  BY <1>1, JournalKept DEF CoreInv
<1> QED
  BY <1>3, <1>4, GrowsStill DEF Journals

\* A failure on the way cancels what is staged and leaves the partitions alone.
LEMMA FailCore ==
  ASSUME TypeInv, SlotInv, CoreInv, Working, NEW phase \in {"failed", "rejected"}, NEW error,
         NEW cancel \in BOOLEAN, Fail(phase, error, cancel),
         UNCHANGED <<flash, pendingRun, due, passed>>
  PROVE  CoreNext
<1>1. /\ healthy /\ step # "boot" /\ ~Chosen /\ ~OnTrial /\ ~pendingRun
      /\ Trusted = running /\ journal = install /\ "rolled_back" \notin due
      /\ install \in Journal /\ JournalValid(install) /\ Journals
      /\ Inactive # running /\ ~MatchesIn(install, running)
  BY WorkingFacts
<1>2. /\ UNCHANGED <<image, otadata, boot, running>>
      /\ OnTrial' = OnTrial /\ Chosen' = Chosen
  BY FlashSame
<1>3. step' = "fail" /\ outcome' = <<phase, error>>
  BY DEF Fail
<1>4. StepInv'
  BY <1>1, <1>2, <1>3, RestNext
<1>5. CASE ~cancel
  <2>1. UNCHANGED <<install, journal>>
    BY <1>5 DEF Fail
  <2>2. Journals' /\ CopyInv' /\ JournalInv' /\ Grows
    BY <1>1, <2>1, Untouched
  <2> QED
    BY <1>4, <2>2 DEF CoreNext
<1>6. CASE cancel
  <2> DEFINE j == Cancelled(install, "production")
  <2>1. PICK s \in Save(j) : Saved(s) /\ healthy' = (healthy /\ s.ok)
    BY <1>6 DEF Fail
  <2>2. install' = j
    BY <1>6 DEF Fail
  <2>3. /\ j \in Journal /\ JournalValid(j)
        /\ j.confirmed = install.confirmed /\ j.development = install.development
        /\ install.pending = "production" => j.pending = "none"
    BY <1>1, CancelledJournal
  <2>4. install.pending # "production" => j = install
    BY DEF Cancelled
  <2> HIDE DEF j
  <2>5. /\ s.ok \in BOOLEAN /\ (s.ok => journal' = j)
        /\ journal' = j \/ journal' = journal
    BY <2>1, SavedJournal
  <2>6. ~MatchesIn(j, running)
    BY <1>1, <2>3, <2>4 DEF MatchesIn, IdentityMatches
  <2>7. Journals' /\ CopyInv' /\ JournalInv' /\ Grows
    BY <1>1, <1>2, <2>1, <2>2, <2>3, <2>5, <2>6, SavedStep
  <2> QED
    BY <1>4, <2>7 DEF CoreNext
<1> QED
  BY <1>5, <1>6

\* A poll that finds a release to install.
LEMMA BeginCore ==
  ASSUME TypeInv, SlotInv, CoreInv, BeginRelease
  PROVE  CoreNext
<1>1. /\ MayInstall /\ UNCHANGED <<flash, pendingRun, due, staged, passed>>
      /\ ~(Visible = install.confirmed /\ RunsProduction)
  BY DEF BeginRelease
<1>2. Working /\ step = "idle"
  BY <1>1 DEF MayInstall, Working, Idle
<1>3. /\ healthy /\ step # "boot" /\ ~Chosen /\ ~OnTrial /\ ~pendingRun
      /\ journal = install /\ "rolled_back" \notin due /\ Journals
  BY <1>2, WorkingFacts
<1>4. OnTrial' = OnTrial /\ Chosen' = Chosen
  BY <1>1, FlashSame
<1> DEFINE stop == FALSE
<1>5. stop \in BOOLEAN
  OBVIOUS
<1>6. \/ Fail("rejected", "counter", stop) \/ Fail("failed", "queues", stop)
      \/ /\ UNCHANGED <<install, healthy, journal>>
         /\ \/ step' = "manifest" /\ desired' = Visible
            \/ UNCHANGED <<step, outcome>>
  BY DEF BeginRelease
<1> HIDE DEF stop
<1>7. CASE Fail("rejected", "counter", stop) \/ Fail("failed", "queues", stop)
  BY <1>1, <1>2, <1>5, <1>7, FailCore
<1>8. CASE /\ UNCHANGED <<install, healthy, journal>>
           /\ \/ step' = "manifest" /\ desired' = Visible
              \/ UNCHANGED <<step, outcome>>
  <2>1. Journals' /\ CopyInv' /\ JournalInv' /\ Grows
    BY <1>1, <1>3, <1>8, Untouched
  <2>2. Visible \in Releases
    BY <1>1 DEF MayInstall, Visible, TypeInv, TypeOK, Names
  <2>3. install'.pending = "none"
    BY <1>1, <1>8 DEF MayInstall
  <2>4. StepInv'
    BY <1>1, <1>2, <1>3, <1>4, <1>8, <2>2, <2>3 DEF StepInv
  <2> QED
    BY <2>1, <2>4 DEF CoreNext
<1> QED
  BY <1>6, <1>7, <1>8


\* The transaction is staged before the first byte is written.
LEMMA StageCore ==
  ASSUME TypeInv, SlotInv, CoreInv, StageRelease
  PROVE  CoreNext
<1>1. /\ step = "manifest" /\ UNCHANGED <<flash, pendingRun, due, staged, passed>>
  BY DEF StageRelease
<1>2. Working
  BY <1>1 DEF Working
<1>3. /\ healthy /\ step # "boot" /\ ~Chosen /\ ~OnTrial /\ ~pendingRun
      /\ Trusted = running /\ journal = install /\ "rolled_back" \notin due
      /\ install \in Journal /\ JournalValid(install) /\ Journals
      /\ Inactive \in Slots /\ Inactive # running /\ ~MatchesIn(install, running)
  BY <1>2, WorkingFacts
<1>4. /\ UNCHANGED <<image, otadata, boot, running>> /\ Inactive' = Inactive
      /\ OnTrial' = OnTrial /\ Chosen' = Chosen
  BY <1>1, FlashSame
<1>5. desired \in Releases /\ desired \in Names
  BY <1>1 DEF CoreInv, StepInv, Names
<1> DEFINE stop == FALSE
           j == Staged(install, desired, Inactive)
<1>6. stop \in BOOLEAN
  OBVIOUS
<1>7. \/ Fail("rejected", "manifest", stop)
      \/ UNCHANGED <<outcome, install, healthy, journal>> /\ step' = "idle"
      \/ /\ \E m \in Manifests : ReleaseAccepted(m, install.confirmed) /\ ClaimsMatch(desired, m)
         /\ UNCHANGED desired
         /\ \E s \in Save(j) :
               /\ Saved(s)
               /\ IF s.ok
                  THEN install' = j /\ step' = "stream" /\ UNCHANGED <<healthy, outcome>>
                  ELSE /\ install' = Cancelled(j, "production") /\ healthy' = FALSE
                       /\ step' = "fail" /\ outcome' = <<"failed", "journal">>
  BY Zenon DEF StageRelease
<1> HIDE DEF stop, j
<1>8. CASE Fail("rejected", "manifest", stop)
  BY <1>1, <1>2, <1>6, <1>8, FailCore
<1>9. CASE UNCHANGED <<outcome, install, healthy, journal>> /\ step' = "idle"
  <2>1. Journals' /\ CopyInv' /\ JournalInv' /\ Grows
    BY <1>1, <1>3, <1>9, Untouched
  <2>2. StepInv'
    BY <1>1, <1>3, <1>4, <1>9, RestNext
  <2> QED
    BY <2>1, <2>2 DEF CoreNext
<1>10. ASSUME NEW m, ReleaseAccepted(m, install.confirmed), ClaimsMatch(desired, m),
              UNCHANGED desired,
              NEW s \in Save(j), Saved(s),
              IF s.ok
              THEN install' = j /\ step' = "stream" /\ UNCHANGED <<healthy, outcome>>
              ELSE /\ install' = Cancelled(j, "production") /\ healthy' = FALSE
                   /\ step' = "fail" /\ outcome' = <<"failed", "journal">>
       PROVE  CoreNext
  <2>1. Counter(desired) > Counter(install.confirmed)
    BY <1>5, <1>10, Counters DEF ReleaseAccepted, ClaimsMatch
  <2>2. /\ j \in Journal /\ JournalValid(j) /\ j.pending = "production" /\ j.slot = Inactive
        /\ j.confirmed = install.confirmed /\ j.development = install.development
    BY <1>3, <1>5, <2>1, StagedJournal DEF j
  <2>3. ~MatchesIn(j, running)
    BY <1>3, <2>2 DEF MatchesIn, IdentityMatches
  <2>4. /\ s.ok \in BOOLEAN /\ (s.ok => journal' = j)
        /\ journal' = j \/ journal' = journal
    BY <1>10, SavedJournal
  <2>5. CASE s.ok
    <3>1. install' = j /\ step' = "stream" /\ UNCHANGED <<healthy, outcome>> /\ journal' = j
      BY <1>10, <2>4, <2>5
    <3>2. Journals' /\ CopyInv' /\ JournalInv' /\ Grows
      BY <1>1, <1>3, <1>4, <2>2, <2>3, <3>1, SavedStep
    <3>3. StepInv'
      BY <1>1, <1>3, <1>4, <1>5, <1>10, <2>2, <3>1 DEF StepInv
    <3> QED
      BY <3>2, <3>3 DEF CoreNext
  <2>6. CASE ~s.ok
    <3>1. /\ install' = Cancelled(j, "production") /\ healthy' = FALSE
          /\ step' = "fail" /\ outcome' = <<"failed", "journal">>
      BY <1>10, <2>6
    <3>2. install' \in Journal /\ JournalValid(install') /\ install'.confirmed = install.confirmed
      BY <2>2, <3>1, CancelledJournal
    <3>3. Journals' /\ CopyInv' /\ JournalInv' /\ Grows
      BY <1>1, <1>3, <1>4, <2>2, <2>3, <2>4, <3>1, <3>2, SavedStep
    <3>4. StepInv'
      BY <1>1, <1>3, <1>4, <3>1, RestNext
    <3> QED
      BY <3>3, <3>4 DEF CoreNext
  <2> QED
    BY <2>4, <2>5, <2>6
<1> QED
  BY <1>7, <1>8, <1>9, <1>10

\* A download that ends early, or gates that do not hold after the last byte.
LEMMA StopCore ==
  ASSUME TypeInv, SlotInv, CoreInv, DownloadFails \/ TerminalGateFails
  PROVE  CoreNext
<1> DEFINE written == step # "manifest"
           stop    == TRUE
<1>1. written \in BOOLEAN /\ stop \in BOOLEAN
  OBVIOUS
<1>2. \/ Fail("failed", "download", written)
      \/ Fail("failed", "gates", stop)
  BY DEF DownloadFails, TerminalGateFails
<1>3. Working /\ UNCHANGED <<flash, pendingRun, due, passed>>
  BY DEF DownloadFails, TerminalGateFails, Working, ghost
<1> HIDE DEF written, stop
<1> QED
  BY <1>1, <1>2, <1>3, FailCore

\* A partition that is written to was neither chosen nor trusted.
LEMMA WriteCore ==
  ASSUME TypeInv, SlotInv, TrialInv, CoreInv, BeginStream \/ WriteDevelopment
  PROVE  CoreNext
<1>1. /\ step \in {"stream", "upload"} /\ passed' = passed \ {Inactive}
      /\ step = "stream" => step' = "write"
      /\ step = "upload" => step' = "upload_written" /\ staged
      /\ UNCHANGED <<journal, install, healthy, pendingRun, due, desired, outcome, staged>>
  BY DEF BeginStream, WriteDevelopment
<1>2. Working
  BY <1>1 DEF Working
<1>3. /\ healthy /\ step # "boot" /\ ~Chosen /\ ~OnTrial /\ ~pendingRun
      /\ Trusted = running /\ journal = install /\ "rolled_back" \notin due
      /\ install \in Journal /\ JournalValid(install) /\ Journals
      /\ Inactive # running /\ ~MatchesIn(install, running)
  BY <1>2, WorkingFacts
<1>4. /\ running' = running /\ Inactive' = Inactive /\ image'[running] = image[running]
      /\ UNCHANGED <<otadata, boot>>
  BY FlashWrites DEF FlashSteps, BeginStream, WriteDevelopment, CoreInv
<1>5. ~OnTrial' /\ ~Chosen'
  BY <1>3, <1>4 DEF OnTrial, Chosen
<1>6. Journals' /\ CopyInv' /\ JournalInv' /\ Grows
  BY <1>1, <1>3, <1>4, <1>5, SavedStep
<1>7. StepInv'
  BY <1>1, <1>3, <1>4, <1>5 DEF StepInv, CoreInv
<1> QED
  BY <1>6, <1>7 DEF CoreNext

\* The image that was written is named in the journal before it can be chosen.
LEMMA AcceptCore ==
  ASSUME TypeInv, SlotInv, TrialInv, CoreInv, AcceptImage
  PROVE  CoreNext
<1>1. /\ step = "write" /\ install.slot = Inactive
      /\ UNCHANGED <<pendingRun, due, desired, staged, passed>>
  BY DEF AcceptImage, ghost
<1>2. Working
  BY <1>1 DEF Working
<1>3. /\ healthy /\ step # "boot" /\ ~Chosen /\ ~OnTrial /\ ~pendingRun
      /\ Trusted = running /\ journal = install /\ "rolled_back" \notin due
      /\ install \in Journal /\ JournalValid(install) /\ Journals
      /\ Inactive # running /\ ~MatchesIn(install, running)
  BY <1>2, WorkingFacts
<1>4. /\ running' = running /\ Inactive' = Inactive /\ image'[running] = image[running]
      /\ UNCHANGED <<otadata, boot>> /\ image'[Inactive] = desired
  <2>1. ~ConfirmAfterPersistence /\ ~SelectImage /\ ~EndUpload
    <3>1. ~SelectImage /\ ~EndUpload
      BY <1>1 DEF SelectImage, EndUpload
    <3>2. ~ConfirmAfterPersistence
      BY <1>3 DEF ConfirmAfterPersistence, TrialInv
    <3> QED
      BY <3>1, <3>2
  <2> QED
    BY <2>1, FlashWrites DEF FlashSteps, CoreInv
<1>5. ~OnTrial' /\ ~Chosen'
  BY <1>3, <1>4 DEF OnTrial, Chosen
<1>6. desired \in Releases /\ desired \in Images \cup {Torn} /\ desired # Torn
      /\ install.pending = "production"
  BY <1>1, ApartImages DEF CoreInv, StepInv, Images
<1> DEFINE j == WithAccepted(install, desired)
<1>7. CASE ~CanAccept(install, Inactive)
  <2>1. /\ healthy' = FALSE /\ step' = "fail" /\ outcome' = <<"failed", "journal">>
        /\ UNCHANGED <<install, journal>>
    BY <1>7 DEF AcceptImage
  <2>2. Journals' /\ CopyInv' /\ JournalInv' /\ Grows
    BY <1>1, <1>3, <1>4, <1>5, <2>1, SavedStep
  <2>3. StepInv'
    BY <1>1, <1>3, <1>5, <2>1, RestNext
  <2> QED
    BY <2>2, <2>3 DEF CoreNext
<1>8. CASE CanAccept(install, Inactive)
  <2>1. PICK s \in Save(j) :
           /\ Saved(s)
           /\ install' = IF s.ok THEN j ELSE install
           /\ healthy' = (healthy /\ s.ok)
           /\ step' = IF s.ok THEN "accepted" ELSE "fail"
           /\ outcome' = IF s.ok THEN outcome ELSE <<"failed", "journal">>
    BY <1>8 DEF AcceptImage
  <2>2. /\ j \in Journal /\ JournalValid(j) /\ j.pending = "production" /\ j.slot = Inactive
        /\ j.confirmed = install.confirmed /\ j.development = install.development
    BY <1>1, <1>3, <1>6, <1>8, AcceptedJournal DEF CanAccept
  <2> HIDE DEF j
  <2>3. ~MatchesIn(j, running)
    BY <1>3, <2>2 DEF MatchesIn, IdentityMatches
  <2>4. /\ s.ok \in BOOLEAN /\ (s.ok => journal' = j)
        /\ journal' = j \/ journal' = journal
    BY <2>1, SavedJournal
  <2>5. /\ install' \in Journal /\ JournalValid(install')
        /\ install'.confirmed = install.confirmed
        /\ install'.pending = "production" /\ install'.slot = Inactive
    BY <1>1, <1>3, <1>6, <2>1, <2>2
  <2>6. healthy' => journal' = install'
    BY <2>1, <2>4
  <2>7. Journals' /\ CopyInv' /\ JournalInv' /\ Grows
    BY <1>1, <1>3, <1>4, <1>5, <2>2, <2>3, <2>4, <2>5, <2>6, SavedStep
  <2>8. CASE s.ok
    <3>1. step' = "accepted" /\ healthy'
      BY <1>3, <2>1, <2>8
    <3> QED
      BY <1>1, <1>3, <1>4, <1>5, <1>6, <2>5, <2>7, <3>1 DEF CoreNext, StepInv
  <2>9. CASE ~s.ok
    <3>1. step' = "fail" /\ outcome' = <<"failed", "journal">>
      BY <2>1, <2>9
    <3>2. StepInv'
      BY <1>1, <1>3, <1>5, <3>1, RestNext
    <3> QED
      BY <2>7, <3>2 DEF CoreNext
  <2> QED
    BY <2>4, <2>8, <2>9
<1> QED
  BY <1>7, <1>8


\* Choosing the image the journal describes puts no other image at risk.
LEMMA ChosenNext ==
  ASSUME Journals, CoreInv, ~Chosen, ~OnTrial, ~OnTrial', ~pendingRun',
         UNCHANGED <<journal, install, running>>, journal = install,
         image'[running] = image[running], otadata'[running] = otadata[running],
         passed \subseteq passed', ~MatchesIn(install, running),
         install.pending \in {"production", "development"}, install.slot = boot',
         Accepted(install) => boot' \in passed'
  PROVE  Journals' /\ CopyInv' /\ JournalInv' /\ Grows
<1>1. Trusted = running /\ Trusted' = running
  BY DEF Trusted
<1>2. ~MatchesIn(journal, Trusted)' /\ ~MatchesIn(journal, Trusted)
  BY <1>1 DEF MatchesIn
<1>3. JournalInv'
  BY <1>1, <1>2 DEF JournalInv, CoreInv
<1>4. CopyInv'
  BY JournalTypes, CopyNext
<1> QED
  BY <1>3, <1>4, GrowsStill DEF Journals

\* The new image is chosen, and the device restarts into it unless that failed.
LEMMA SelectCore ==
  ASSUME TypeInv, SlotInv, TrialInv, CoreInv, SelectImage
  PROVE  CoreNext
<1>1. /\ step = "accepted" /\ passed' = passed \cup {Inactive} /\ running' = running
      /\ UNCHANGED <<journal, install, pendingRun, due, desired, staged>>
      /\ \/ Selected(Inactive) /\ step' = "restart" /\ UNCHANGED healthy
         \/ /\ Selected(Inactive) \/ UNCHANGED flash
            /\ ~healthy' /\ step' = "fail" /\ outcome' = <<"failed", "select">>
  BY DEF SelectImage, Selected, flash
<1>2. Working
  BY <1>1 DEF Working
<1>3. /\ healthy /\ step # "boot" /\ ~Chosen /\ ~OnTrial /\ ~pendingRun
      /\ Trusted = running /\ journal = install /\ "rolled_back" \notin due
      /\ install \in Journal /\ JournalValid(install) /\ Journals
      /\ Inactive \in Slots /\ running \in Slots /\ Inactive # running
      /\ ~MatchesIn(install, running)
  BY <1>2, WorkingFacts
<1>4. install.pending = "production" /\ install.slot = Inactive /\ Inactive' = Inactive
  BY <1>1 DEF CoreInv, StepInv, Inactive
<1>5. CASE Selected(Inactive)
  <2>1. /\ boot' = Inactive /\ image' = image /\ otadata'[Inactive] = "new"
        /\ otadata'[running] = otadata[running]
    BY <1>3, <1>5, Types DEF Selected
  <2>2. Chosen' /\ ~OnTrial'
    BY <1>1, <1>3, <1>4, <2>1 DEF Chosen, OnTrial
  <2>3. Journals' /\ CopyInv' /\ JournalInv' /\ Grows
    BY <1>1, <1>3, <1>4, <2>1, <2>2, ChosenNext
  <2>4. ~pendingRun' /\ "rolled_back" \notin due'
    BY <1>1, <1>3
  <2>5. CASE step' = "restart" /\ healthy'
    BY <2>2, <2>3, <2>4, <2>5 DEF StepInv, CoreNext
  <2>6. CASE step' = "fail" /\ ~healthy' /\ outcome'[1] = "failed"
    BY <2>2, <2>3, <2>4, <2>6 DEF StepInv, CoreNext
  <2>7. \/ step' = "restart" /\ healthy'
        \/ step' = "fail" /\ ~healthy' /\ outcome' = <<"failed", "select">>
    BY <1>1, <1>3
  <2> QED
    BY <2>5, <2>6, <2>7
<1>6. CASE UNCHANGED flash /\ ~healthy' /\ step' = "fail" /\ outcome' = <<"failed", "select">>
  <2>1. /\ UNCHANGED <<image, otadata, boot, running>>
        /\ OnTrial' = OnTrial /\ Chosen' = Chosen /\ Trusted' = Trusted
    BY <1>6, FlashSame
  <2>2. JournalInv'
    BY <1>1, <1>3, <2>1, JournalKept DEF CoreInv
  <2>3. Journals' /\ CopyInv' /\ Grows
    BY <1>1, <1>3, <1>6, JournalTypes, CopyNext, GrowsStill DEF Journals
  <2>4. StepInv'
    BY <1>1, <1>3, <1>6, <2>1, RestNext
  <2> QED
    BY <2>2, <2>3, <2>4 DEF CoreNext
<1> QED
  BY <1>1, <1>5, <1>6

\* The report that ends an attempt changes nothing on the device but its step.
LEMMA EndCore ==
  ASSUME TypeInv, SlotInv, CoreInv, ReportEnd
  PROVE  CoreNext
<1>1. /\ step = "fail" /\ step' = "idle" /\ outcome' = <<"none", "none">>
      /\ UNCHANGED <<flash, journal, install, healthy, pendingRun, due, staged, passed>>
  BY DEF ReportEnd
<1>2. /\ Inactive' = Inactive /\ OnTrial' = OnTrial /\ Chosen' = Chosen /\ Journals
  BY <1>1, FlashSame, Types
<1>3. ~OnTrial /\ ~pendingRun /\ "rolled_back" \notin due
  BY <1>1 DEF CoreInv, StepInv
<1>4. healthy' => journal = install
  BY <1>1 DEF CoreInv, CopyInv
<1>5. Journals' /\ CopyInv' /\ JournalInv' /\ Grows
  BY <1>1, <1>2, <1>3, <1>4, Untouched
<1>6. StepInv'
  BY <1>1, <1>2, <1>3 DEF StepInv, CoreInv
<1> QED
  BY <1>5, <1>6 DEF CoreNext

-----------------------------------------------------------------------------
(* The upload of a development image.                                       *)

\* Opening the window, or giving up on an upload, writes nothing.
LEMMA WindowCore ==
  ASSUME TypeInv, SlotInv, CoreInv, OpenDevelopment \/ UploadFails \/ RejectDevelopment
  PROVE  CoreNext
<1>1. /\ UNCHANGED <<flash, journal, install, healthy, pendingRun, due, desired, outcome,
                     passed>>
      /\ \/ /\ Idle /\ healthy /\ install.pending = "none" /\ ~pendingRun
            /\ step' = "upload" /\ staged' = FALSE
         \/ /\ step \in {"upload", "upload_written", "upload_ended"}
            /\ step' = "upload_failed" /\ staged' = staged
  BY DEF OpenDevelopment, UploadFails, RejectDevelopment, ghost
<1>2. /\ Inactive' = Inactive /\ OnTrial' = OnTrial /\ Chosen' = Chosen /\ Journals
  BY <1>1, FlashSame, Types
<1>3. ~OnTrial /\ ~pendingRun /\ healthy /\ "rolled_back" \notin due
  BY <1>1 DEF CoreInv, StepInv, Idle
<1>4. Chosen => step = "upload_ended" /\ staged
  BY <1>1, <1>3 DEF CoreInv, StepInv, Idle
<1>5. healthy' => journal = install
  BY <1>1, <1>3, <1>4 DEF CoreInv, CopyInv, Idle
<1>6. Journals' /\ CopyInv' /\ JournalInv' /\ Grows
  BY <1>1, <1>2, <1>3, <1>5, Untouched
<1>7. StepInv'
  BY <1>1, <1>2, <1>3, <1>4 DEF StepInv, CoreInv
<1> QED
  BY <1>6, <1>7 DEF CoreNext

\* The upload is staged in the journal before its first byte.
LEMMA StageUploadCore ==
  ASSUME TypeInv, SlotInv, CoreInv, StageDevelopment
  PROVE  CoreNext
<1>1. /\ step = "upload" /\ ~staged
      /\ UNCHANGED <<flash, pendingRun, due, desired, outcome, passed>>
  BY DEF StageDevelopment, ghost
<1>2. Working
  BY <1>1 DEF Working
<1>3. /\ healthy /\ step # "boot" /\ ~Chosen /\ ~OnTrial /\ ~pendingRun
      /\ Trusted = running /\ journal = install /\ "rolled_back" \notin due
      /\ install \in Journal /\ JournalValid(install) /\ Journals
      /\ Inactive \in Slots /\ Inactive # running /\ ~MatchesIn(install, running)
  BY <1>2, WorkingFacts
<1>4. /\ UNCHANGED <<image, otadata, boot, running>> /\ Inactive' = Inactive
      /\ OnTrial' = OnTrial /\ Chosen' = Chosen
  BY <1>1, FlashSame
<1> DEFINE j == StagedDevelopment(install, Inactive)
<1>5. PICK s \in Save(j) :
         /\ Saved(s)
         /\ IF s.ok
            THEN install' = j /\ staged' = TRUE /\ UNCHANGED <<healthy, step>>
            ELSE healthy' = FALSE /\ step' = "upload_failed" /\ UNCHANGED <<install, staged>>
  BY DEF StageDevelopment
<1>6. /\ j \in Journal /\ JournalValid(j) /\ j.pending = "development" /\ j.slot = Inactive
      /\ j.confirmed = install.confirmed /\ j.development = install.development
      /\ j.image = Torn
  BY <1>3, UploadJournal
<1> HIDE DEF j
<1>7. ~MatchesIn(j, running) /\ ~Accepted(j)
  BY <1>3, <1>6 DEF MatchesIn, IdentityMatches, Accepted
<1>8. /\ s.ok \in BOOLEAN /\ (s.ok => journal' = j)
      /\ journal' = j \/ journal' = journal
  BY <1>5, SavedJournal
<1>9. CASE s.ok
  <2>1. install' = j /\ staged' = TRUE /\ UNCHANGED <<healthy, step>> /\ journal' = j
    BY <1>5, <1>8, <1>9
  <2>2. Journals' /\ CopyInv' /\ JournalInv' /\ Grows
    BY <1>1, <1>3, <1>4, <1>6, <1>7, <2>1, SavedStep
  <2>3. StepInv'
    BY <1>1, <1>3, <1>4, <1>6, <1>7, <2>1 DEF StepInv
  <2> QED
    BY <2>2, <2>3 DEF CoreNext
<1>10. CASE ~s.ok
  <2>1. healthy' = FALSE /\ step' = "upload_failed" /\ UNCHANGED <<install, staged>>
    BY <1>5, <1>10
  <2>2. Journals' /\ CopyInv' /\ JournalInv' /\ Grows
    BY <1>1, <1>3, <1>4, <1>6, <1>7, <1>8, <2>1, SavedStep
  <2>3. StepInv'
    BY <1>1, <1>3, <1>4, <2>1 DEF StepInv
  <2> QED
    BY <2>2, <2>3 DEF CoreNext
<1> QED
  BY <1>8, <1>9, <1>10


\* The boot loader is pointed at the upload, which the journal does not name yet.
LEMMA EndUploadCore ==
  ASSUME TypeInv, SlotInv, TrialInv, CoreInv, EndUpload
  PROVE  CoreNext
<1>1. /\ step = "upload_written" /\ step' = "upload_ended" /\ running' = running
      /\ boot' = Inactive /\ otadata' = [otadata EXCEPT ![Inactive] = "new"]
      /\ image' = [image EXCEPT ![Inactive] = Development]
      /\ UNCHANGED <<journal, install, healthy, pendingRun, due, desired, staged, passed>>
  BY DEF EndUpload, ghost
<1>2. Working
  BY <1>1 DEF Working
<1>3. /\ healthy /\ step # "boot" /\ ~Chosen /\ ~OnTrial /\ ~pendingRun
      /\ journal = install /\ "rolled_back" \notin due
      /\ install \in Journal /\ JournalValid(install) /\ Journals
      /\ Inactive \in Slots /\ running \in Slots /\ Inactive # running
      /\ ~MatchesIn(install, running)
  BY <1>2, WorkingFacts
<1>4. /\ staged /\ install.pending = "development" /\ install.slot = Inactive
      /\ ~Accepted(install) /\ Inactive' = Inactive
  BY <1>1 DEF CoreInv, StepInv, Inactive
<1>5. /\ otadata'[running] = otadata[running] /\ otadata'[Inactive] = "new"
      /\ image'[running] = image[running]
  BY <1>1, <1>3, Types
<1>6. Chosen' /\ ~OnTrial'
  BY <1>1, <1>3, <1>4, <1>5 DEF Chosen, OnTrial
<1>7. Journals' /\ CopyInv' /\ JournalInv' /\ Grows
  BY <1>1, <1>3, <1>4, <1>5, <1>6, ChosenNext
<1>8. StepInv'
  BY <1>1, <1>3, <1>4, <1>6 DEF StepInv
<1> QED
  BY <1>7, <1>8 DEF CoreNext

\* The upload is accepted into the journal, or stays chosen and unaccepted.
LEMMA AcceptUploadCore ==
  ASSUME TypeInv, SlotInv, CoreInv, AcceptDevelopment
  PROVE  CoreNext
<1>1. /\ step = "upload_ended" /\ staged /\ CanAccept(install, boot)
      /\ passed' = passed \cup {boot}
      /\ UNCHANGED <<flash, healthy, pendingRun, due, desired, outcome, staged>>
  BY DEF AcceptDevelopment
<1>2. /\ Inactive \in Slots /\ running \in Slots /\ Inactive # running /\ Journals
      /\ install \in Journal /\ JournalValid(install)
      /\ image \in [Slots -> Images \cup {Torn}]
  BY Types, InactiveSlot DEF Journals
<1>3. /\ Chosen /\ ~OnTrial /\ ~pendingRun /\ healthy /\ "rolled_back" \notin due
      /\ install.pending = "development" /\ install.slot = Inactive
  BY <1>1 DEF CoreInv, StepInv
<1>4. boot = Inactive
  BY <1>3 DEF SlotInv
<1>5. journal = install
  BY <1>1, <1>3 DEF CoreInv, CopyInv
<1>6. /\ UNCHANGED <<image, otadata, boot, running>> /\ Inactive' = Inactive
      /\ OnTrial' = OnTrial /\ Chosen' = Chosen /\ Trusted' = Trusted
      /\ Trusted = running
  BY <1>1, <1>3, FlashSame DEF Trusted
<1> DEFINE j == WithAccepted(install, image[boot])
<1>7. PICK s \in Save(j) :
         /\ Saved(s)
         /\ IF s.ok THEN install' = j /\ step' = "restart"
                    ELSE step' = "upload_failed" /\ UNCHANGED install
  BY DEF AcceptDevelopment
<1>8. /\ j \in Journal /\ JournalValid(j) /\ j.pending = "development" /\ j.slot = Inactive
      /\ j.confirmed = install.confirmed /\ j.development = install.development
  <2>1. image[boot] \in Images \cup {Torn}
    BY <1>2, <1>4
  <2> QED
    BY <1>1, <1>2, <1>3, <2>1, AcceptedJournal DEF CanAccept
<1>9. /\ s.ok \in BOOLEAN /\ (s.ok => journal' = j)
      /\ journal' = j \/ journal' = install
  BY <1>5, <1>7, SavedJournal
<1>10. j = WithAccepted(install, image[Inactive])
  BY <1>4
<1> HIDE DEF j
<1>11. /\ journal' \in Journal /\ JournalValid(journal') /\ journal'.pending = "development"
       /\ journal'.slot = Inactive /\ journal'.confirmed = install.confirmed
       /\ journal'.development = install.development
  BY <1>2, <1>3, <1>8, <1>9
<1>12. install' \in Journal /\ JournalValid(install') /\ install'.confirmed = install.confirmed
  BY <1>2, <1>7, <1>8, <1>9
<1>13. Journals' /\ Grows /\ Holds(journal')
  BY <1>2, <1>5, <1>11, <1>12, JournalFields DEF Journals, Holds, Grows
<1>14. ~MatchesIn(journal, Trusted)' /\ ~MatchesIn(journal, Trusted)
  BY <1>2, <1>3, <1>5, <1>6, <1>11 DEF MatchesIn, IdentityMatches
<1>15. JournalInv'
  <2>1. boot' \in passed' /\ (Trusted \in passed => Trusted' \in passed')
    BY <1>1, <1>6
  <2>2. image[running] = journal.confirmed
            \/ ~(journal.confirmed # NoRelease /\ ~journal.development)
    BY <1>6, <1>14 DEF JournalInv, CoreInv
  <2> QED
    BY <1>3, <1>4, <1>5, <1>6, <1>11, <1>14, <2>1, <2>2 DEF JournalInv, CoreInv
<1>16. Counter(install'.confirmed) <= Counter(Loaded'.confirmed)
  BY <1>2, <1>11, <1>12, <1>13, JournalFields, JournalTypesNext
<1>17. CASE s.ok
  <2>1. install' = j /\ step' = "restart" /\ journal' = j
    BY <1>7, <1>9, <1>17
  <2>2. StepInv'
    BY <1>1, <1>3, <1>6, <2>1 DEF StepInv
  <2>3. CopyInv'
    BY <1>1, <1>3, <1>16, <2>1 DEF CopyInv
  <2> QED
    BY <1>13, <1>15, <2>2, <2>3 DEF CoreNext
<1>18. CASE ~s.ok
  <2>1. step' = "upload_failed" /\ UNCHANGED install
    BY <1>7, <1>18
  <2>2. StepInv'
    BY <1>1, <1>3, <1>6, <2>1 DEF StepInv
  <2>3. CopyInv'
    BY <1>1, <1>3, <1>6, <1>9, <1>10, <1>16, <2>1 DEF CopyInv
  <2> QED
    BY <1>13, <1>15, <2>2, <2>3 DEF CoreNext
<1> QED
  BY <1>9, <1>17, <1>18

\* A failed upload is dropped only if the device would not start it.
LEMMA CloseCore ==
  ASSUME TypeInv, SlotInv, CoreInv, CloseFailedUpload
  PROVE  CoreNext
<1>1. /\ step = "upload_failed" /\ step' = "idle"
      /\ UNCHANGED <<flash, pendingRun, due, desired, outcome, staged, passed>>
  BY DEF CloseFailedUpload, ghost
<1>2. /\ Inactive \in Slots /\ running \in Slots /\ Inactive # running /\ Journals
      /\ install \in Journal /\ JournalValid(install)
  BY Types, InactiveSlot DEF Journals
<1>3. ~OnTrial /\ ~pendingRun /\ "rolled_back" \notin due
  BY <1>1 DEF CoreInv, StepInv
<1>4. /\ UNCHANGED <<image, otadata, boot, running>> /\ Inactive' = Inactive
      /\ OnTrial' = OnTrial /\ Chosen' = Chosen
  BY <1>1, FlashSame
<1>5. Chosen => staged /\ install.pending = "development"
  BY <1>1 DEF CoreInv, StepInv
<1> DEFINE j == Cancelled(install, "development")
<1>6. CASE staged /\ BootChoice(otadata) = running
  <2>1. healthy /\ install.pending = "development" /\ install.slot = Inactive
    BY <1>1, <1>6 DEF CoreInv, StepInv
  <2>2. ~Chosen
    <3>1. SUFFICES ASSUME Chosen PROVE FALSE
      OBVIOUS
    <3>2. boot = Inactive /\ image[boot] # Torn /\ otadata[boot] = "new"
      BY <3>1 DEF SlotInv, Chosen
    <3> QED
      BY <1>2, <1>6, <3>2 DEF BootChoice, Usable
  <2>3. PICK s \in Save(j) :
           /\ Saved(s)
           /\ install' = IF s.ok THEN j ELSE install
           /\ healthy' = (healthy /\ s.ok)
    BY <1>6 DEF CloseFailedUpload
  <2>4. /\ j \in Journal /\ JournalValid(j) /\ j.pending = "none"
        /\ j.confirmed = install.confirmed /\ j.development = install.development
    BY <1>2, <2>1, CancelledJournal
  <2> HIDE DEF j
  <2>5. /\ s.ok \in BOOLEAN /\ (s.ok => journal' = j)
        /\ journal' = j \/ journal' = journal
    BY <2>3, SavedJournal
  <2>6. ~MatchesIn(j, running) /\ ~MatchesIn(install, running)
    BY <1>2, <2>1, <2>4 DEF MatchesIn, IdentityMatches
  <2>7. /\ install' \in Journal /\ JournalValid(install')
        /\ install'.confirmed = install.confirmed
        /\ healthy' => journal' = install'
    BY <1>2, <2>3, <2>4, <2>5
  <2>8. Journals' /\ CopyInv' /\ JournalInv' /\ Grows
    BY <1>1, <1>2, <1>3, <1>4, <2>1, <2>2, <2>4, <2>5, <2>6, <2>7, SavedStep
  <2>9. StepInv'
    BY <1>1, <1>3, <1>4, <2>2, RestNext
  <2> QED
    BY <2>8, <2>9 DEF CoreNext
<1>7. CASE ~(staged /\ BootChoice(otadata) = running)
  <2>1. UNCHANGED <<install, healthy, journal>>
    BY <1>7 DEF CloseFailedUpload
  <2>2. healthy' => \/ journal = install
                    \/ /\ Chosen /\ step' \in {"upload_failed", "idle"}
                       /\ install.pending = "development"
                       /\ journal = WithAccepted(install, image[Inactive])
    BY <1>1, <2>1 DEF CoreInv, CopyInv
  <2>3. Journals' /\ CopyInv' /\ JournalInv' /\ Grows
    BY <1>1, <1>2, <1>3, <2>1, <2>2, Untouched
  <2>4. StepInv'
    BY <1>1, <1>3, <1>4, <1>5, <2>1 DEF StepInv
  <2> QED
    BY <2>3, <2>4 DEF CoreNext
<1> QED
  BY <1>6, <1>7


-----------------------------------------------------------------------------
(* Every step.                                                              *)

\* Every step keeps the journals and the worker in order.
LEMMA CoreStep ==
  ASSUME TypeInv, SlotInv, TrialInv, CoreInv, [Next]_vars
  PROVE  CoreNext
<1>1. Journals
  BY Types
<1>2. CASE Boots
  BY <1>2, BootCore
<1>3. CASE Start
  BY <1>3, StartCore
<1>4. CASE QuietSteps
  BY <1>1, <1>4, QuietCore
<1>5. CASE ConfirmAfterPersistence
  BY <1>5, ConfirmCore
<1>6. CASE TakePrepare
  BY <1>6, PrepareCore
<1>7. CASE TakeConfirmed
  BY <1>7, PromoteCore
<1>8. CASE ReportRollback
  BY <1>8, RollbackCore
<1>9. CASE Production
  <2>1. CASE BeginRelease
    BY <2>1, BeginCore
  <2>2. CASE StageRelease
    BY <2>2, StageCore
  <2>3. CASE DownloadFails \/ TerminalGateFails
    BY <2>3, StopCore
  <2>4. CASE BeginStream
    BY <2>4, WriteCore
  <2>5. CASE AcceptImage
    BY <2>5, AcceptCore
  <2>6. CASE SelectImage
    BY <2>6, SelectCore
  <2>7. CASE ReportEnd
    BY <2>7, EndCore
  <2> QED
    BY <1>4, <1>9, <2>1, <2>2, <2>3, <2>4, <2>5, <2>6, <2>7 DEF Production, QuietSteps
<1>10. CASE DevelopmentUpload
  <2>1. CASE OpenDevelopment \/ UploadFails \/ RejectDevelopment
    BY <2>1, WindowCore
  <2>2. CASE StageDevelopment
    BY <2>2, StageUploadCore
  <2>3. CASE WriteDevelopment
    BY <2>3, WriteCore
  <2>4. CASE EndUpload
    BY <2>4, EndUploadCore
  <2>5. CASE AcceptDevelopment
    BY <2>5, AcceptUploadCore
  <2>6. CASE CloseFailedUpload
    BY <2>6, CloseCore
  <2> QED
    BY <1>10, <2>1, <2>2, <2>3, <2>4, <2>5, <2>6 DEF DevelopmentUpload
<1> QED
  BY <1>2, <1>3, <1>4, <1>5, <1>6, <1>7, <1>8, <1>9, <1>10
     DEF Next, Boots, QuietSteps, Validator, Notices, Reports

\* Every step keeps the types.
LEMMA TypeStep ==
  ASSUME TypeInv, SlotInv, TrialInv, CoreInv, [Next]_vars
  PROVE  TypeInv'
<1>1. /\ image' \in [Slots -> Images \cup {Torn}] /\ otadata' \in [Slots -> EntryStates]
      /\ boot' \in Slots /\ running' \in Slots /\ passed' \subseteq Slots
  BY FlashTypes, PassTypes DEF CoreInv
<1>2. Journals'
  BY CoreStep DEF CoreNext
<1>3. /\ snapshot' \in [known : BOOLEAN, healthy : BOOLEAN, prepared : BOOLEAN]
      /\ main' \in {"not_pending", "waiting", "awaiting_persistence", "confirmed",
                    "platform_error"}
      /\ notice' \in {"none", "prepare", "confirmed", "failed"}
  BY ExchangeTypes
<1>4. /\ step' \in Steps /\ healthy' \in BOOLEAN /\ pendingRun' \in BOOLEAN
      /\ staged' \in BOOLEAN /\ desired' \in Names
      /\ due' \subseteq {"running", "validating", "rolled_back"}
  BY WorkerTypes
<1>5. RemoteInv
  BY RemoteSteps DEF CoreInv
<1>6. TypeOK'
  BY <1>1, <1>2, <1>3, <1>4, <1>5 DEF TypeOK, Journals, Holds, EntryStates, RemoteInv
<1>7. {healthy', pendingRun', staged'} \subseteq BOOLEAN
  BY <1>4
<1> QED
  BY <1>3, <1>4, <1>5, <1>6, <1>7 DEF TypeInv, RemoteInv

\* What a device reports as running was confirmed in its flash before.
LEMMA FloorStep ==
  ASSUME TypeInv, SlotInv, TrialInv, CoreInv, FloorIsConfirmed, [Next]_vars
  PROVE  FloorIsConfirmed'
<1>1. RemoteInv
  BY RemoteSteps DEF CoreInv
<1>2. Journals /\ Journals' /\ Grows
  BY CoreStep, Types DEF CoreNext
<1>3. /\ Loaded.confirmed = journal.confirmed /\ Counter(journal.confirmed) \in Nat
      /\ Counter(install.confirmed) \in Nat
  BY <1>2, JournalTypes
<1>4. Loaded'.confirmed = journal'.confirmed /\ Counter(journal'.confirmed) \in Nat
  BY <1>2, JournalTypesNext DEF Journals
<1>5. Counter(install.confirmed) <= Counter(journal.confirmed)
  BY <1>3 DEF CoreInv, CopyInv
<1>6. server.floor <= Counter(journal.confirmed) /\ server.floor \in Nat
  BY <1>3 DEF FloorIsConfirmed, TypeInv
<1>7. Counter(journal.confirmed) <= Counter(journal'.confirmed)
  BY <1>2 DEF Grows
<1>8. server'.floor \in Nat
      /\ (server'.floor <= server.floor \/ server'.floor <= Counter(install.confirmed))
  BY <1>1 DEF RemoteInv
<1>9. server'.floor <= Counter(journal'.confirmed)
  BY <1>3, <1>4, <1>5, <1>6, <1>7, <1>8
<1> QED
  BY <1>4, <1>9 DEF FloorIsConfirmed

\* The device as it leaves the bench: one partition flashed over USB.
LEMMA InstallInit == ASSUME Init PROVE InstallInv
<1>1. /\ AnySlot \in Slots /\ OtherSlot(AnySlot) \in Slots /\ OtherSlot(AnySlot) # AnySlot
  BY TwoSlots
<1>2. Factory # Torn /\ Factory \in Images
  BY ApartImages DEF Images
<1>3. running = AnySlot /\ boot = AnySlot /\ Inactive = OtherSlot(AnySlot)
  BY DEF Init, FlashedSlot, Inactive
<1>4. /\ image[running] = Factory /\ image[Inactive] = Torn
      /\ otadata[running] = "undefined" /\ otadata[Inactive] = "none"
      /\ image \in [Slots -> Images \cup {Torn}] /\ otadata \in [Slots -> EntryStates]
  BY <1>1, <1>2, <1>3 DEF Init, FlashedSlot, EntryStates
<1>5. ~OnTrial /\ ~Chosen /\ Trusted = running
  BY <1>4 DEF OnTrial, Chosen, Trusted
<1>6. /\ journal = Absent /\ main = "not_pending" /\ notice = "none"
      /\ snapshot = [known |-> FALSE, healthy |-> FALSE, prepared |-> FALSE]
      /\ step = "boot" /\ install = EmptyJournal /\ healthy = FALSE
      /\ pendingRun = FALSE /\ due = {} /\ staged = FALSE /\ desired = NoRelease
      /\ passed = {AnySlot}
      /\ server = [target |-> NoRelease, completed |-> FALSE, floor |-> 0, latest |-> NoReport]
  BY DEF Init, FlashedSlot
<1>7. /\ EmptyJournal \in Journal /\ JournalValid(EmptyJournal)
      /\ EmptyJournal.confirmed = NoRelease
      /\ Absent.confirmed = NoRelease /\ Absent.image = Torn
  BY EmptyJournals
<1>8. Counter(NoRelease) = 0 /\ NoRelease \in Names
  BY Counters DEF Names
<1>9. TypeInv
  <2>1. TypeOK
    BY <1>1, <1>3, <1>4, <1>6, <1>7, <1>8 DEF TypeOK, EntryStates
  <2>2. {healthy, pendingRun, staged} \subseteq BOOLEAN /\ step \in Steps
    BY <1>6 DEF Steps
  <2>3. snapshot \in [known : BOOLEAN, healthy : BOOLEAN, prepared : BOOLEAN]
    BY <1>6
  <2>4. /\ server = [target |-> server.target, completed |-> server.completed,
                     floor |-> server.floor, latest |-> server.latest]
        /\ server.floor \in Nat
    BY <1>6
  <2> QED
    BY <2>1, <2>2, <2>3, <2>4 DEF TypeInv
<1>10. SlotInv
  BY <1>1, <1>2, <1>3, <1>4, <1>5 DEF SlotInv
<1>11. TrialInv
  BY <1>5, <1>6 DEF TrialInv
<1>12. StepInv
  BY <1>5, <1>6 DEF StepInv
<1>13. Loaded = EmptyJournal
  BY <1>6 DEF Loaded
<1>14. CopyInv
  BY <1>6, <1>7, <1>8, <1>13 DEF CopyInv
<1>15. JournalInv
  <2>1. ~MatchesIn(journal, Trusted)
    BY <1>6, <1>7 DEF MatchesIn, IdentityMatches, Accepted
  <2> QED
    BY <1>4, <1>5, <1>6, <1>7, <2>1 DEF JournalInv
<1>16. FloorIsConfirmed
  BY <1>6, <1>7, <1>8, <1>13 DEF FloorIsConfirmed
<1> QED
  BY <1>9, <1>10, <1>11, <1>12, <1>14, <1>15, <1>16 DEF InstallInv

\* What the boot loader would start now, and that it can.
LEMMA NextBoot ==
  ASSUME TypeInv, SlotInv
  PROVE  /\ BootChoice(Aborted(otadata)) = IF OnTrial \/ Chosen THEN Inactive ELSE running
         /\ Bootable
<1>1. /\ running \in Slots /\ Inactive \in Slots /\ Inactive # running /\ boot \in Slots
      /\ OtherSlot(running) = Inactive /\ OtherSlot(Inactive) = running
      /\ boot = running \/ boot = Inactive
  BY Types, InactiveSlot DEF Inactive
<1> DEFINE data == Aborted(otadata)
<1>2. /\ data[running] = IF otadata[running] = "pending_verify" THEN "aborted"
                                                                ELSE otadata[running]
      /\ data[Inactive] = IF otadata[Inactive] = "pending_verify" THEN "aborted"
                                                                  ELSE otadata[Inactive]
  BY <1>1 DEF Aborted
<1> HIDE DEF data
<1>3. CASE OnTrial
  BY <1>1, <1>2, <1>3 DEF SlotInv, OnTrial, BootChoice, Usable, Bootable, data
<1>4. CASE Chosen /\ ~OnTrial
  BY <1>1, <1>2, <1>4 DEF SlotInv, OnTrial, Chosen, BootChoice, Usable, Bootable, data
<1>5. CASE ~Chosen /\ ~OnTrial
  BY <1>1, <1>2, <1>5 DEF SlotInv, OnTrial, Chosen, BootChoice, Usable, Bootable, data
<1> QED
  BY <1>3, <1>4, <1>5


-----------------------------------------------------------------------------
(* The theorems.                                                            *)

\* The invariant holds of every behaviour: whatever power losses, failing
\* writes, lost reports, rollbacks and uploads come in whatever order.
THEOREM InstallInvariance == Spec => []InstallInv
<1>1. InstallInv /\ [Next]_vars => InstallInv'
  <2> SUFFICES ASSUME InstallInv, [Next]_vars PROVE InstallInv'
    OBVIOUS
  <2>1. TypeInv /\ SlotInv /\ TrialInv /\ StepInv /\ CoreInv /\ FloorIsConfirmed
    BY DEF InstallInv, CoreInv
  <2>2. CoreNext
    BY <2>1, CoreStep
  <2> QED
    BY <2>1, <2>2, TypeStep, SlotStep, TrialStep, FloorStep DEF InstallInv, CoreNext
<1> QED
  BY <1>1, InstallInit, PTL DEF Spec

\* The types; the journal in flash and the worker's copy stay valid.
THEOREM InstallTypeCorrect == Spec => []TypeOK
<1>1. InstallInv => TypeOK
  BY DEF InstallInv, TypeInv
<1> QED
  BY <1>1, InstallInvariance, PTL

\* Whenever power is lost, the boot loader finds a partition to start.
THEOREM AlwaysBootable == Spec => []Bootable
<1>1. InstallInv => Bootable
  BY NextBoot DEF InstallInv
<1> QED
  BY <1>1, InstallInvariance, PTL

\* At no start do journal, entries and images contradict each other.
THEOREM PolicyNeverHalts == Spec => []NeverHalts
<1>1. InstallInv => NeverHalts
  BY Found DEF InstallInv, CoreInv, NeverHalts
<1> QED
  BY <1>1, InstallInvariance, PTL

\* What starts without a trial passed every gate with the content it has now.
THEOREM ConfirmedHasPassed == Spec => []OnlyPassedConfirmed
<1>1. InstallInv => OnlyPassedConfirmed
  <2> SUFFICES ASSUME InstallInv PROVE OnlyPassedConfirmed
    OBVIOUS
  <2> DEFINE s == BootChoice(Aborted(otadata))
  <2>1. s = IF OnTrial \/ Chosen THEN Inactive ELSE running
    BY NextBoot DEF InstallInv
  <2>2. otadata[s] = "valid" => s = Trusted
    BY <2>1 DEF Trusted, Chosen
  <2>3. otadata[Trusted] = "valid" => Trusted \in passed
    BY DEF InstallInv, JournalInv
  <2> HIDE DEF s
  <2>4. otadata[s] = "valid" => s \in passed
    BY <2>2, <2>3
  <2> QED
    BY <2>4 DEF OnlyPassedConfirmed, s
<1> QED
  BY <1>1, InstallInvariance, PTL

\* Between installations the running image is the release the journal confirms,
\* unless a development image took over.
THEOREM JournalIsTrue == Spec => []JournalNamesRunning
<1>1. InstallInv => JournalNamesRunning
  <2> SUFFICES ASSUME InstallInv, Idle, healthy, install.pending = "none",
                      install.confirmed # NoRelease, ~install.development
               PROVE  image[running] = install.confirmed
    BY DEF JournalNamesRunning
  <2>1. ~pendingRun
    BY DEF InstallInv, CopyInv, MatchesIn, IdentityMatches
  <2>2. ~OnTrial /\ Trusted = running
    BY <2>1 DEF InstallInv, StepInv, Idle, Trusted
  <2>3. journal = install
    BY DEF InstallInv, CopyInv, Idle
  <2>4. ~MatchesIn(journal, Trusted)
    BY <2>3 DEF MatchesIn, IdentityMatches
  <2> QED
    BY <2>2, <2>3, <2>4 DEF InstallInv, JournalInv
<1> QED
  BY <1>1, InstallInvariance, PTL

\* The server takes no release for confirmed that the journal does not hold.
THEOREM FloorConfirmed == Spec => []FloorIsConfirmed
<1>1. InstallInv => FloorIsConfirmed
  BY DEF InstallInv
<1> QED
  BY <1>1, InstallInvariance, PTL

\* The release the journal confirms is never replaced by an older one.
THEOREM CounterOnlyGrows == Spec => CounterNeverFalls
<1>1. InstallInv /\ [Next]_vars =>
          [journal # Absent => Counter(journal'.confirmed) >= Counter(journal.confirmed)]_journal
  <2> SUFFICES ASSUME InstallInv, [Next]_vars
               PROVE  Counter(journal'.confirmed) >= Counter(journal.confirmed)
    OBVIOUS
  <2>1. Journals /\ CoreNext
    BY CoreStep, Types DEF InstallInv, CoreInv
  <2>2. Counter(journal.confirmed) \in Nat /\ Counter(journal'.confirmed) \in Nat
    BY <2>1, JournalTypes, JournalTypesNext DEF CoreNext, Journals
  <2> QED
    BY <2>1, <2>2 DEF CoreNext, Grows
<1> QED
  BY <1>1, InstallInvariance, PTL DEF Spec, CounterNeverFalls

-----------------------------------------------------------------------------
(* The abstract installation.                                               *)

\* What is accepted of an upload is the development image.
OfDevelopment(j) == j.pending = "development" /\ Accepted(j) => j.image = Development

\* What the worker staged is what it writes and chooses, not yet validated.
OfferInv ==
    /\ step \in {"stream", "write", "accepted"} => install.release = desired /\ ~install.validated
    /\ step = "accepted" => image[Inactive] = desired
    /\ step = "upload_ended" => image[Inactive] = Development
    /\ step \in {"upload", "upload_written", "upload_ended", "upload_failed"} /\ staged =>
           ~install.validated
    /\ Chosen => ~journal.validated
    /\ OfDevelopment(install) /\ OfDevelopment(journal)

\* The installation as the abstract one sees it stays as it is.
Still ==
    /\ image'[Trusted'] = image[Trusted] /\ Candidate' = Candidate
    /\ InstallPhase' = InstallPhase /\ Loaded'.confirmed = Loaded.confirmed

\* A step keeps the plan, and is one of the abstract installation or none.
Follows == OfferInv' /\ (server'.floor = server.floor => Still \/ Promise!Next)

\* No upload is accepted in a journal without one.
LEMMA NoUpload ==
  ASSUME NEW j, j.pending # "development" \/ j.image \in {Torn, Development}
  PROVE  OfDevelopment(j)
BY DEF OfDevelopment, Accepted

\* The plan of a worker that neither writes nor uploads.
LEMMA OfferRests ==
  ASSUME step' \in {"boot", "idle", "fail", "manifest", "restart"},
         Chosen' => ~journal'.validated, OfDevelopment(install'), OfDevelopment(journal')
  PROVE  OfferInv'
BY DEF OfferInv, OfDevelopment, Accepted

\* The phase, case by case.
LEMMA Phases ==
  /\ OnTrial /\ ~journal.validated => InstallPhase = "trial"
  /\ OnTrial /\ journal.validated => InstallPhase = "validated"
  /\ ~OnTrial /\ Chosen => InstallPhase = "chosen"
  /\ ~OnTrial /\ ~Chosen /\ MatchesIn(journal, running) => InstallPhase = "promoted"
  /\ ~OnTrial /\ ~Chosen /\ ~MatchesIn(journal, running) => InstallPhase = "rest"
BY DEF InstallPhase

\* And after a step.
LEMMA PhasesNext ==
  /\ OnTrial' /\ ~journal'.validated => InstallPhase' = "trial"
  /\ OnTrial' /\ journal'.validated => InstallPhase' = "validated"
  /\ ~OnTrial' /\ Chosen' => InstallPhase' = "chosen"
  /\ ~OnTrial' /\ ~Chosen' /\ MatchesIn(journal, running)' => InstallPhase' = "promoted"
  /\ ~OnTrial' /\ ~Chosen' /\ ~MatchesIn(journal, running)' => InstallPhase' = "rest"
BY DEF InstallPhase

\* What decides that nothing changed.
LEMMA StillKept ==
  ASSUME running' = running, Inactive' = Inactive, OnTrial' <=> OnTrial, Chosen' <=> Chosen,
         image'[running] = image[running],
         OnTrial \/ Chosen => image'[Inactive] = image[Inactive],
         OnTrial => journal'.validated = journal.validated,
         ~OnTrial /\ ~Chosen => (MatchesIn(journal, running)' <=> MatchesIn(journal, running)),
         Loaded'.confirmed = Loaded.confirmed
  PROVE  Still
<1>1. image'[Trusted'] = image[Trusted]
  BY DEF Trusted
<1>2. Candidate' = Candidate
  BY DEF Candidate
<1>3. InstallPhase' = InstallPhase
  BY Phases, PhasesNext
<1> QED
  BY <1>1, <1>2, <1>3 DEF Still

\* A step that writes neither flash nor journal.
LEMMA StillSame ==
  ASSUME UNCHANGED <<flash, journal>>
  PROVE  Still
<1>1. /\ UNCHANGED <<image, otadata, boot, running>>
      /\ Inactive' = Inactive /\ OnTrial' = OnTrial /\ Chosen' = Chosen
  BY FlashSame
<1>2. Loaded' = Loaded /\ (MatchesIn(journal, running)' <=> MatchesIn(journal, running))
  BY <1>1 DEF Loaded, MatchesIn
<1> QED
  BY <1>1, <1>2, StillKept

\* The worker's plan is untouched with all it is about.
LEMMA OfferSame ==
  ASSUME OfferInv, UNCHANGED <<flash, journal, install, step, desired, staged>>
  PROVE  OfferInv'
<1>1. /\ UNCHANGED <<image, otadata, boot, running>>
      /\ Inactive' = Inactive /\ Chosen' = Chosen
  BY FlashSame
<1> QED
  BY <1>1 DEF OfferInv, OfDevelopment, Accepted

\* A save beside the trusted image that keeps what is confirmed.
LEMMA StillSaved ==
  ASSUME Journals, Journals', ~OnTrial, ~Chosen, ~OnTrial', ~Chosen',
         running' = running, Inactive' = Inactive, image'[running] = image[running],
         NEW j, ~MatchesIn(j, running), ~MatchesIn(journal, running),
         journal' = j \/ journal' = journal, j.confirmed = journal.confirmed
  PROVE  Still
<1>1. ~MatchesIn(journal, running)'
  BY DEF MatchesIn
<1>2. Loaded'.confirmed = Loaded.confirmed
  BY JournalTypes, JournalTypesNext DEF Journals
<1> QED
  BY <1>1, <1>2, StillKept


\* The steps of the abstract installation, by what they change.
LEMMA Abandons ==
  ASSUME InstallPhase \in {"trial", "validated"}, InstallPhase' = "rest", Candidate' = Torn,
         image'[Trusted'] = image[Trusted], Loaded'.confirmed = Loaded.confirmed,
         server'.floor = server.floor
  PROVE  Promise!Next
BY DEF Promise!Next, Promise!Abandon

\* A chosen image is tried, or one on trial is validated.
LEMMA Advances ==
  ASSUME \/ InstallPhase = "chosen" /\ InstallPhase' = "trial"
         \/ InstallPhase = "trial" /\ InstallPhase' = "validated",
         Candidate' = Candidate, image'[Trusted'] = image[Trusted],
         Loaded'.confirmed = Loaded.confirmed, server'.floor = server.floor
  PROVE  Promise!Next
BY DEF Promise!Next, Promise!Try, Promise!Validate

\* A release is confirmed, or a development image noted.
LEMMA Records ==
  ASSUME InstallPhase = "promoted", InstallPhase' = "rest", Candidate' = Candidate,
         image'[Trusted'] = image[Trusted], server'.floor = server.floor,
         Loaded'.confirmed = IF image[Trusted] = Development THEN Loaded.confirmed
                                                             ELSE image[Trusted]
  PROVE  Promise!Next
BY DEF Promise!Next, Promise!Record

\* A start tries the chosen image, or abandons the one on trial.
LEMMA BootFollows ==
  ASSUME TypeInv, SlotInv, TrialInv, CoreInv, OfferInv, Boots
  PROVE  Follows
<1>1. /\ BootDrops \/ BootTries \/ BootKeeps
      /\ UNCHANGED <<image, boot, journal>> /\ step' = "boot" /\ install' = EmptyJournal
  BY BootOutcome
<1>2. Trusted' = Trusted /\ ~Chosen'
  BY TrustedKept
<1>3. /\ running \in Slots /\ Inactive \in Slots /\ Inactive # running
      /\ OtherSlot(Inactive) = running
  BY Types, InactiveSlot
<1>4. OfferInv'
  <2>1. OfDevelopment(install')
    BY <1>1, EmptyJournals, NoUpload
  <2>2. OfDevelopment(journal')
    BY <1>1 DEF OfferInv
  <2> QED
    BY <1>1, <1>2, <2>1, <2>2, OfferRests
<1>5. image'[Trusted'] = image[Trusted] /\ Loaded'.confirmed = Loaded.confirmed
  BY <1>1, <1>2 DEF Loaded
<1> SUFFICES ASSUME server'.floor = server.floor PROVE Still \/ Promise!Next
  BY <1>4 DEF Follows
<1>6. CASE BootDrops
  <2>1. /\ OnTrial /\ running' = Inactive /\ Inactive' = running
        /\ otadata'[Inactive] = otadata[Inactive]
    BY <1>3, <1>6 DEF BootDrops, Inactive
  <2>2. ~OnTrial' /\ journal.slot = running
    BY <2>1 DEF OnTrial, SlotInv, JournalInv, CoreInv
  <2>3. ~MatchesIn(journal, running)'
    BY <1>1, <1>3, <2>1, <2>2 DEF MatchesIn, IdentityMatches
  <2>4. InstallPhase' = "rest" /\ InstallPhase \in {"trial", "validated"}
    BY <1>2, <2>1, <2>2, <2>3, Phases, PhasesNext
  <2>5. Candidate' = Torn
    BY <1>2, <2>2 DEF Candidate
  <2> QED
    BY <1>5, <2>4, <2>5, Abandons
<1>7. CASE BootTries
  <2>1. /\ ~OnTrial /\ Chosen /\ running' = Inactive
        /\ otadata'[Inactive] = "pending_verify"
    BY <1>7 DEF BootTries
  <2>2. OnTrial' /\ ~journal'.validated
    BY <1>1, <2>1 DEF OnTrial, OfferInv
  <2>3. InstallPhase' = "trial" /\ InstallPhase = "chosen"
    BY <2>1, <2>2, Phases, PhasesNext
  <2>4. Candidate' = Candidate
    BY <1>1, <2>1, <2>2 DEF Candidate
  <2> QED
    BY <1>5, <2>3, <2>4, Advances
<1>8. CASE BootKeeps
  <2>1. /\ ~OnTrial /\ ~Chosen /\ running' = running /\ Inactive' = Inactive
        /\ otadata'[running] = otadata[running]
    BY <1>8 DEF BootKeeps, Inactive
  <2>2. ~OnTrial'
    BY <2>1 DEF OnTrial
  <2>3. MatchesIn(journal, running)' <=> MatchesIn(journal, running)
    BY <1>1, <2>1 DEF MatchesIn
  <2> QED
    BY <1>1, <1>2, <1>5, <2>1, <2>2, <2>3, StillKept
<1> QED
  BY <1>1, <1>6, <1>7, <1>8

\* The boot loader promotes the image the journal validated.
LEMMA ConfirmFollows ==
  ASSUME TypeInv, SlotInv, TrialInv, CoreInv, OfferInv, ConfirmAfterPersistence
  PROVE  Follows
<1>1. /\ main = "awaiting_persistence" /\ snapshot.prepared
      /\ UNCHANGED <<image, running, journal, step, install, desired, staged>>
      /\ otadata' = [otadata EXCEPT ![running] = "valid"]
  BY DEF ConfirmAfterPersistence, worker
<1>2. /\ running \in Slots /\ Inactive \in Slots /\ Inactive # running /\ Journals
      /\ Inactive' = Inactive /\ otadata \in [Slots -> EntryStates]
  BY <1>1, Types, InactiveSlot DEF Inactive
<1>3. otadata'[running] = "valid" /\ otadata'[Inactive] = otadata[Inactive]
  BY <1>1, <1>2
<1>4. OnTrial /\ pendingRun /\ install.validated /\ ~Chosen /\ step \in {"boot", "idle"}
  BY <1>1 DEF TrialInv, Validating, SlotInv, Chosen, StepInv, CoreInv
<1>5. ~OnTrial' /\ ~Chosen' /\ Trusted' = running
  BY <1>1, <1>2, <1>3, <1>4 DEF OnTrial, Chosen, Trusted
<1>6. MatchesIn(install, running) /\ journal \in {install, Validated(install)}
  BY <1>1, <1>4 DEF CopyInv, CoreInv
<1>7. /\ install.pending # "none" /\ Accepted(install)
      /\ install \in Journal /\ JournalValid(install)
  BY <1>2, <1>6 DEF MatchesIn, IdentityMatches, Journals
<1>8. /\ Validated(install).pending = install.pending
      /\ Validated(install).slot = install.slot /\ Validated(install).image = install.image
      /\ Validated(install).validated /\ JournalValid(Validated(install))
  BY <1>7, ValidatedJournal
<1>9. journal.validated /\ MatchesIn(journal, running)'
  BY <1>1, <1>4, <1>6, <1>8 DEF MatchesIn, IdentityMatches, Accepted
<1>10. OfferInv'
  BY <1>1, <1>4, <1>5, OfferRests DEF OfferInv
<1>11. InstallPhase = "validated" /\ InstallPhase' = "promoted"
  BY <1>4, <1>5, <1>9, Phases, PhasesNext
<1>12. /\ image'[Trusted'] = Candidate /\ Candidate' = Torn
       /\ Loaded'.confirmed = Loaded.confirmed
  BY <1>1, <1>4, <1>5 DEF Candidate, Loaded
<1>13. server'.floor = server.floor => Promise!Next
  BY <1>11, <1>12 DEF Promise!Next, Promise!Promote
<1> QED
  BY <1>10, <1>13 DEF Follows

\* Persisting that the image works validates it in the abstract installation.
LEMMA PrepareFollows ==
  ASSUME TypeInv, SlotInv, TrialInv, CoreInv, OfferInv, TakePrepare
  PROVE  Follows
<1>1. /\ step = "idle" /\ notice = "prepare"
      /\ UNCHANGED <<flash, main, step, desired, staged>>
  BY DEF TakePrepare, Idle, mainv
<1>2. /\ UNCHANGED <<image, otadata, boot, running>>
      /\ Inactive' = Inactive /\ OnTrial' = OnTrial /\ Chosen' = Chosen /\ Trusted' = Trusted
  BY <1>1, FlashSame
<1>3. main = "awaiting_persistence" /\ OnTrial /\ ~Chosen
  BY <1>1 DEF TrialInv, SlotInv, Chosen
<1>4. Journals
  BY Types
<1>5. CASE UNCHANGED <<install, journal>>
  BY <1>1, <1>5, StillSame, OfferSame DEF Follows
<1>6. ASSUME ImagePending, install.validated \/ CanValidate(install, image[running])
      PROVE  Follows
  <2> DEFINE j == IF install.validated THEN install ELSE Validated(install)
  <2>1. PICK s \in Save(j) : Saved(s) /\ install' = IF s.ok THEN j ELSE install
    BY <1>6 DEF TakePrepare
  <2>2. s.ok \in BOOLEAN /\ (journal' = j \/ journal' = journal)
    BY <2>1, SavedJournal
  <2>3. /\ pendingRun /\ install \in Journal /\ JournalValid(install)
        /\ install.pending # "none"
        /\ MatchesIn(install, running) /\ journal \in {install, Validated(install)}
    BY <1>3, <1>4, <1>6 DEF ImagePending, Journals, CopyInv, CoreInv
  <2>4. Accepted(install)
    BY <2>3 DEF MatchesIn, IdentityMatches
  <2>5. /\ Validated(install).pending = install.pending
        /\ Validated(install).image = install.image
        /\ Validated(install).confirmed = install.confirmed
        /\ Validated(install).validated /\ Validated(install) \in Journal
        /\ JournalValid(Validated(install))
    BY <2>3, <2>4, ValidatedJournal
  <2>6. /\ j \in Journal /\ JournalValid(j) /\ j.validated
        /\ j.pending = install.pending /\ j.image = install.image
        /\ j.confirmed = install.confirmed
    BY <2>3, <2>5
  <2> HIDE DEF j
  <2>7. /\ install' \in {install, j}
        /\ Holds(journal') /\ journal'.confirmed = journal.confirmed
    BY <1>4, <2>1, <2>2, <2>3, <2>5, <2>6 DEF Journals, Holds
  <2>8. OfDevelopment(install) /\ OfDevelopment(journal)
    BY DEF OfferInv
  <2>9. OfDevelopment(install') /\ OfDevelopment(journal')
    BY <2>2, <2>6, <2>7, <2>8 DEF OfDevelopment, Accepted
  <2>10. OfferInv'
    BY <1>1, <1>2, <1>3, <2>9, OfferRests
  <2>11. Loaded'.confirmed = Loaded.confirmed
    BY <1>4, <2>7, JournalTypes, JournalTypesNext
  <2>12. CASE journal' = journal
    BY <1>1, <2>10, <2>12, StillSame DEF Follows
  <2>13. CASE journal' = j /\ journal.validated
    <3>1. journal'.validated
      BY <2>6, <2>13
    <3>2. InstallPhase' = "validated" /\ InstallPhase = "validated"
      BY <1>2, <1>3, <2>13, <3>1, Phases, PhasesNext
    <3>3. Candidate' = Candidate /\ image'[Trusted'] = image[Trusted]
      BY <1>2, <1>3 DEF Candidate
    <3> QED
      BY <2>10, <2>11, <3>2, <3>3 DEF Follows, Still
  <2>14. CASE journal' = j /\ ~journal.validated
    <3>1. journal'.validated
      BY <2>6, <2>14
    <3>2. InstallPhase' = "validated" /\ InstallPhase = "trial"
      BY <1>2, <1>3, <2>14, <3>1, Phases, PhasesNext
    <3>3. Candidate' = Candidate /\ image'[Trusted'] = image[Trusted]
      BY <1>2, <1>3 DEF Candidate
    <3> QED
      BY <2>10, <2>11, <3>2, <3>3, Advances DEF Follows
  <2> QED
    BY <2>2, <2>12, <2>13, <2>14
<1> QED
  BY <1>5, <1>6 DEF TakePrepare

\* What a journal confirms of the image it describes is that image.
LEMMA ConfirmedImage ==
  ASSUME NEW j \in Journal, JournalValid(j), NEW s, MatchesIn(j, s), OfDevelopment(j)
  PROVE  /\ j.pending = "production" /\ NamedBy(j, s) =>
                /\ ReleaseConfirmed(j).confirmed = image[s] /\ image[s] # Development
         /\ j.pending = "development" =>
                /\ DevelopmentConfirmed(j).confirmed = j.confirmed /\ image[s] = Development
<1>1. Accepted(j) /\ j.image = image[s]
  BY DEF MatchesIn, IdentityMatches
<1>2. CASE j.pending = "production" /\ NamedBy(j, s)
  <2>1. ReleaseConfirmed(j).confirmed = j.release /\ Counter(j.release) > Counter(j.confirmed)
    BY <1>2, ReleaseJournal
  <2>2. j.release \in Names /\ Counter(j.confirmed) \in Nat
    BY JournalFields
  <2>3. j.release \in Releases
    BY <2>1, <2>2, Counters DEF Names
  <2> QED
    BY <1>2, <2>1, <2>3, ApartImages DEF NamedBy
<1>3. CASE j.pending = "development"
  BY <1>1, <1>3, DevelopmentJournal DEF OfDevelopment
<1> QED
  BY <1>2, <1>3

\* Promotion in the journal records the image the boot loader promoted.
LEMMA PromoteFollows ==
  ASSUME TypeInv, SlotInv, TrialInv, CoreInv, OfferInv, TakeConfirmed
  PROVE  Follows
<1>1. /\ step = "idle" /\ notice = "confirmed"
      /\ UNCHANGED <<flash, main, step, desired, staged>>
  BY DEF TakeConfirmed, Idle, mainv
<1>2. /\ UNCHANGED <<image, otadata, boot, running>>
      /\ Inactive' = Inactive /\ OnTrial' = OnTrial /\ Chosen' = Chosen /\ Trusted' = Trusted
  BY <1>1, FlashSame
<1>3. main = "confirmed" /\ ~OnTrial /\ Trusted = running
  BY <1>1 DEF TrialInv, Trusted
<1>4. Journals
  BY Types
<1>5. CASE UNCHANGED <<install, journal>>
  BY <1>1, <1>5, StillSame, OfferSame DEF Follows
<1>6. ASSUME ImagePending, CanPromote
      PROVE  Follows
  <2>1. PICK s \in Save(Promoted) : Saved(s) /\ install' \in {Promoted, install}
    BY <1>6 DEF TakeConfirmed
  <2>2. journal' = Promoted \/ journal' = journal
    BY <2>1, SavedJournal
  <2>3. /\ pendingRun /\ install \in Journal /\ JournalValid(install)
        /\ install.pending \in {"production", "development"} /\ ~Chosen
        /\ MatchesIn(install, running) /\ NamedBy(install, running)
        /\ journal \in {install, Validated(install)}
    BY <1>1, <1>4, <1>6, JournalFields DEF ImagePending, Journals, CopyInv, StepInv, CoreInv
  <2>4. /\ Promoted \in Journal /\ JournalValid(Promoted) /\ Promoted.pending = "none"
    BY <2>3, ReleaseJournal, DevelopmentJournal DEF Promoted
  <2>5. Accepted(install)
    BY <2>3 DEF MatchesIn, IdentityMatches
  <2>6. /\ Validated(install).pending = install.pending
        /\ Validated(install).slot = install.slot /\ Validated(install).image = install.image
        /\ Validated(install).confirmed = install.confirmed
        /\ JournalValid(Validated(install))
    BY <2>3, <2>5, ValidatedJournal
  <2>7. journal.confirmed = install.confirmed /\ MatchesIn(journal, running)
    BY <2>3, <2>6 DEF MatchesIn, IdentityMatches, Accepted
  <2>8. OfDevelopment(install) /\ OfDevelopment(journal) /\ OfDevelopment(Promoted)
    BY <2>4, NoUpload DEF OfferInv
  <2>9. OfDevelopment(install') /\ OfDevelopment(journal')
    BY <2>1, <2>2, <2>8
  <2>10. OfferInv'
    BY <1>1, <1>2, <2>3, <2>9, OfferRests
  <2>11. CASE journal' = journal
    BY <1>1, <2>10, <2>11, StillSame DEF Follows
  <2>12. CASE journal' = Promoted
    <3>1. ~MatchesIn(journal, running)'
      BY <2>4, <2>12 DEF MatchesIn, IdentityMatches
    <3>2. InstallPhase = "promoted" /\ InstallPhase' = "rest"
      BY <1>2, <1>3, <2>3, <2>7, <3>1, Phases, PhasesNext
    <3>3. Candidate' = Candidate /\ image'[Trusted'] = image[Trusted]
      BY <1>2, <1>3, <2>3 DEF Candidate
    <3>4. Promoted.confirmed = IF image[running] = Development THEN install.confirmed
                                                               ELSE image[running]
      BY <2>3, <2>8, ConfirmedImage DEF Promoted
    <3>5. Holds(journal')
      BY <2>4, <2>12 DEF Holds
    <3>6. /\ Loaded.confirmed = install.confirmed
          /\ Loaded'.confirmed = Promoted.confirmed
      BY <1>4, <2>7, <2>12, <3>5, JournalTypes, JournalTypesNext
    <3>7. server'.floor = server.floor => Promise!Next
      BY <1>3, <3>2, <3>3, <3>4, <3>6, Records
    <3> QED
      BY <2>10, <3>7 DEF Follows
  <2> QED
    BY <2>2, <2>11, <2>12
<1> QED
  BY <1>5, <1>6 DEF TakeConfirmed

\* A save beside the trusted image is no step of the abstract installation.
LEMMA SavedFollows ==
  ASSUME Journals, Journals', ~OnTrial, ~Chosen, ~OnTrial', ~Chosen',
         running' = running, image'[running] = image[running],
         NEW j, ~MatchesIn(j, running), ~MatchesIn(journal, running),
         journal' = j \/ journal' = journal, j.confirmed = journal.confirmed, OfferInv'
  PROVE  Follows
<1>1. Inactive' = Inactive
  BY DEF Inactive
<1> QED
  BY <1>1, StillSaved DEF Follows

\* Neither is a step of the main loop, of the server, or a report.
LEMMA QuietFollows ==
  ASSUME OfferInv, QuietSteps
  PROVE  Follows
<1>1. UNCHANGED <<flash, journal, install, step, desired, staged>>
  BY QuietOutcome
<1> QED
  BY <1>1, StillSame, OfferSame DEF Follows

\* What a start records is what the boot loader promoted before the reset.
LEMMA StartFollows ==
  ASSUME TypeInv, SlotInv, CoreInv, OfferInv, Start
  PROVE  Follows
<1>1. step = "boot" /\ step' = "idle" /\ UNCHANGED <<flash, server>>
  BY DEF Start, StartUnreadable, StartOrdinary, StartValidation, StartPromotion,
         StartRollbackReport, StartRefused, Started, remote
<1>2. /\ ~Chosen /\ Loaded \in Journal /\ JournalValid(Loaded)
      /\ BootAction \in {"ordinary", "promote", "clear", "report_rollback"} => ~OnTrial
      /\ BootAction \in {"validate", "promote", "clear", "report_rollback"} =>
             Loaded = journal
      /\ BootAction = "promote" =>
             MatchesIn(Loaded, running) /\ Loaded.pending = "production"
             /\ Loaded.release = image[running]
      /\ BootAction = "clear" => Loaded.pending = "development"
      /\ BootAction = "clear" /\ otadata[running] # "valid" => ~MatchesIn(Loaded, running)
  BY <1>1, Found
<1>3. /\ UNCHANGED <<image, otadata, boot, running>>
      /\ Inactive' = Inactive /\ OnTrial' = OnTrial /\ Chosen' = Chosen /\ Trusted' = Trusted
  BY <1>1, FlashSame
<1>4. Journals /\ Journals'
  BY Types, StartCore DEF CoreNext
<1>5. Loaded = journal \/ Loaded = EmptyJournal
  BY DEF Loaded
<1>6. OfDevelopment(EmptyJournal) /\ OfDevelopment(journal) /\ OfDevelopment(Loaded)
  BY <1>5, EmptyJournals, NoUpload DEF OfferInv
<1>7. ASSUME OfDevelopment(install'), OfDevelopment(journal')
      PROVE  OfferInv'
  BY <1>1, <1>2, <1>3, <1>7, OfferRests
<1>8. CASE journal' = journal /\ install' \in {EmptyJournal, Loaded}
  BY <1>1, <1>6, <1>7, <1>8, StillSame DEF Follows
<1>9. CASE StartOrdinary /\ journal = Absent
  <2>1. PICK s \in Save(EmptyJournal) : Saved(s) /\ Started(EmptyJournal, s.ok, {}, FALSE)
    BY <1>9 DEF StartOrdinary
  <2>2. /\ journal' = EmptyJournal \/ journal' = journal
        /\ install' = EmptyJournal
    BY <2>1, SavedJournal DEF Started
  <2>3. OfferInv' /\ ~OnTrial
    BY <1>2, <1>6, <1>7, <1>9, <2>2 DEF StartOrdinary
  <2>4. ~MatchesIn(EmptyJournal, running) /\ ~MatchesIn(journal, running)
    BY <1>9, EmptyJournals DEF MatchesIn, IdentityMatches, Accepted
  <2>5. EmptyJournal.confirmed = journal.confirmed
    BY <1>9, EmptyJournals
  <2> QED
    BY <1>2, <1>3, <1>4, <2>2, <2>3, <2>4, <2>5, SavedFollows
<1>10. CASE StartPromotion
  <2> DEFINE j == CASE BootAction = "promote" -> ReleaseConfirmed(Loaded)
                    [] BootAction = "clear" /\ otadata[running] = "valid"
                          /\ IdentityMatches(Loaded, running, image[running]) ->
                             DevelopmentConfirmed(Loaded)
                    [] OTHER -> Cancelled(Loaded, "development")
  <2>1. PICK s \in Save(j) :
           /\ Saved(s)
           /\ IF s.ok
              THEN Started(j, TRUE, IF BootAction = "promote" THEN RunningReport(j)
                                                               ELSE {}, FALSE)
              ELSE Started(Loaded, FALSE, {}, FALSE)
    BY <1>10 DEF StartPromotion
  <2>2. BootAction \in {"promote", "clear"}
    BY <1>10 DEF StartPromotion
  <2>3. /\ journal' = j \/ journal' = journal
        /\ install' \in {j, Loaded}
    BY <2>1, SavedJournal DEF Started
  <2>4. /\ BootAction = "promote" => j = ReleaseConfirmed(Loaded)
        /\ BootAction = "clear" /\ MatchesIn(Loaded, running) => j = DevelopmentConfirmed(Loaded)
        /\ BootAction = "clear" /\ ~MatchesIn(Loaded, running) =>
               j = Cancelled(Loaded, "development")
    BY <1>2 DEF MatchesIn
  <2> HIDE DEF j
  <2>5. /\ Loaded = journal /\ ~OnTrial /\ Trusted = running
    BY <1>2, <2>2 DEF Trusted
  <2>6. j.pending = "none" /\ JournalValid(j)
    BY <1>2, <2>2, <2>4, ReleaseJournal, DevelopmentJournal, CancelledJournal
  <2>7. OfferInv'
    BY <1>6, <1>7, <2>3, <2>5, <2>6, NoUpload
  <2>8. ~MatchesIn(j, running) /\ ~IdentityMatches(j, running, image'[running])
    BY <2>6 DEF MatchesIn, IdentityMatches
  <2>9. CASE journal' = journal
    BY <1>1, <2>7, <2>9, StillSame DEF Follows
  <2>10. CASE journal' = j /\ ~MatchesIn(journal, running)
    <3>1. BootAction = "clear" /\ j = Cancelled(Loaded, "development")
      BY <1>2, <2>2, <2>4, <2>5, <2>10
    <3>2. j.confirmed = journal.confirmed
      BY <1>2, <2>5, <3>1, CancelledJournal
    <3> QED
      BY <1>2, <1>3, <1>4, <2>5, <2>7, <2>8, <2>10, <3>2, SavedFollows
  <2>11. CASE journal' = j /\ MatchesIn(journal, running)
    <3>1. ~MatchesIn(journal, running)'
      BY <1>3, <2>8, <2>11 DEF MatchesIn
    <3>2. InstallPhase = "promoted" /\ InstallPhase' = "rest"
      BY <1>2, <1>3, <2>5, <2>11, <3>1, Phases, PhasesNext
    <3>3. Candidate' = Candidate /\ image'[Trusted'] = image[Trusted]
      BY <1>2, <1>3, <2>5 DEF Candidate
    <3>4. j.confirmed = IF image[running] = Development THEN Loaded.confirmed
                                                       ELSE image[running]
      <4>1. /\ Loaded.pending = "production" /\ NamedBy(Loaded, running) =>
                   /\ ReleaseConfirmed(Loaded).confirmed = image[running]
                   /\ image[running] # Development
            /\ Loaded.pending = "development" =>
                   /\ DevelopmentConfirmed(Loaded).confirmed = Loaded.confirmed
                   /\ image[running] = Development
        BY <1>2, <1>6, <2>5, <2>11, ConfirmedImage
      <4> QED
        BY <1>2, <2>2, <2>4, <2>5, <2>11, <4>1 DEF NamedBy
    <3>5. Loaded'.confirmed = j.confirmed
      BY <1>4, <2>11, JournalTypesNext DEF Journals
    <3>6. server'.floor = server.floor
      BY <1>1
    <3>7. Promise!Next
      BY <2>5, <3>2, <3>3, <3>4, <3>5, <3>6, Records
    <3> QED
      BY <2>7, <3>7 DEF Follows
  <2> QED
    BY <2>3, <2>9, <2>10, <2>11
<1>11. \/ journal' = journal /\ install' \in {EmptyJournal, Loaded}
       \/ StartOrdinary /\ journal = Absent
       \/ StartPromotion
  BY DEF Start, StartUnreadable, StartOrdinary, StartValidation, StartRollbackReport,
         StartRefused, Started
<1> QED
  BY <1>8, <1>9, <1>10, <1>11

\* The answered report of a rollback ends a transaction abandoned before.
LEMMA RollbackFollows ==
  ASSUME TypeInv, SlotInv, CoreInv, OfferInv, ReportRollback
  PROVE  Follows
<1>1. /\ step = "idle" /\ step' = "idle" /\ "rolled_back" \in due
      /\ install.release # NoRelease
      /\ UNCHANGED flash
      /\ install' = Cancelled(install, "production")
  BY DEF ReportRollback, Idle
<1>2. journal' = install' \/ journal' = journal
  BY <1>1, SavedJournal DEF ReportRollback
<1>3. /\ ~Chosen /\ ~OnTrial /\ healthy /\ install.pending = "production"
      /\ ~MatchesIn(install, running)
  BY <1>1 DEF StepInv, CoreInv
<1>4. journal = install
  BY <1>1, <1>3, AtWork DEF CoreInv
<1>5. /\ UNCHANGED <<image, running>> /\ OnTrial' = OnTrial /\ Chosen' = Chosen
  BY <1>1, FlashSame
<1>6. Journals /\ Journals' /\ install \in Journal /\ JournalValid(install)
  BY Types, RollbackCore DEF CoreNext, Journals
<1> DEFINE j == install'
<1>7. /\ journal' = j \/ journal' = journal
      /\ j.pending = "none" /\ j.confirmed = journal.confirmed
  BY <1>1, <1>2, <1>3, <1>4, <1>6, CancelledJournal
<1>8. OfDevelopment(j) /\ OfDevelopment(journal)
  BY <1>7, NoUpload DEF OfferInv
<1>9. OfferInv'
  BY <1>1, <1>2, <1>3, <1>5, <1>8, OfferRests
<1> HIDE DEF j
<1>10. ~MatchesIn(j, running)
  BY <1>7 DEF MatchesIn, IdentityMatches
<1> QED
  BY <1>3, <1>4, <1>5, <1>6, <1>7, <1>9, <1>10, SavedFollows

\* An attempt that fails changes nothing of what is trusted or chosen.
LEMMA FailFollows ==
  ASSUME TypeInv, SlotInv, CoreInv, OfferInv, Working, NEW phase \in {"failed", "rejected"},
         NEW error, NEW cancel \in BOOLEAN, Fail(phase, error, cancel),
         UNCHANGED <<flash, pendingRun, due, passed>>
  PROVE  Follows
<1>1. /\ ~Chosen /\ ~OnTrial /\ journal = install
      /\ install \in Journal /\ JournalValid(install) /\ Journals
      /\ ~MatchesIn(install, running)
  BY WorkingFacts
<1>2. /\ UNCHANGED <<image, running>> /\ OnTrial' = OnTrial /\ Chosen' = Chosen
  BY FlashSame
<1>3. step' = "fail" /\ Journals'
  BY FailCore DEF Fail, CoreNext
<1> DEFINE j == IF cancel THEN Cancelled(install, "production") ELSE install
<1>4. install' = j /\ (journal' = j \/ journal' = journal)
  BY SavedJournal DEF Fail
<1>5. /\ j.confirmed = journal.confirmed /\ (j = install \/ j.pending = "none")
  BY <1>1, CancelledJournal DEF Cancelled
<1> HIDE DEF j
<1>6. OfDevelopment(j) /\ OfDevelopment(journal) /\ ~MatchesIn(j, running)
  BY <1>1, <1>5, NoUpload DEF OfferInv, MatchesIn, IdentityMatches
<1>7. OfferInv'
  BY <1>1, <1>2, <1>3, <1>4, <1>6, OfferRests
<1> QED
  BY <1>1, <1>2, <1>3, <1>4, <1>5, <1>6, <1>7, SavedFollows

\* What is chosen is a newer release, or an upload.
LEMMA Chooses ==
  ASSUME InstallPhase = "rest", InstallPhase' = "chosen",
         \/ Candidate' = Development
         \/ Candidate' \in Releases /\ Counter(Candidate') > Counter(Loaded.confirmed),
         image'[Trusted'] = image[Trusted], Loaded'.confirmed = Loaded.confirmed,
         server'.floor = server.floor
  PROVE  Promise!Next
<1>1. \A r : Promise!Counter(r) = Counter(r)
  BY DEF Promise!Counter, Counter
<1>2. Candidate' \in Promise!Newer \cup {Development}
  BY <1>1 DEF Promise!Newer
<1> QED
  BY <1>2 DEF Promise!Next, Promise!Choose

\* A poll that finds a release to install.
LEMMA BeginFollows ==
  ASSUME TypeInv, SlotInv, CoreInv, OfferInv, BeginRelease
  PROVE  Follows
<1>1. MayInstall /\ UNCHANGED <<flash, pendingRun, due, staged, passed>>
  BY DEF BeginRelease
<1>2. Working /\ step = "idle"
  BY <1>1 DEF MayInstall, Working, Idle
<1> DEFINE stop == FALSE
<1>3. stop \in BOOLEAN
  OBVIOUS
<1>4. \/ Fail("rejected", "counter", stop) \/ Fail("failed", "queues", stop)
      \/ UNCHANGED <<install, journal>> /\ step' \in {"manifest", "idle"}
  BY <1>2 DEF BeginRelease
<1> HIDE DEF stop
<1>5. CASE Fail("rejected", "counter", stop) \/ Fail("failed", "queues", stop)
  BY <1>1, <1>2, <1>3, <1>5, FailFollows
<1>6. CASE UNCHANGED <<install, journal>> /\ step' \in {"manifest", "idle"}
  <2>1. ~Chosen' /\ ~Chosen
    BY <1>1, <1>2, FlashSame, WorkingFacts
  <2>2. OfferInv'
    BY <1>6, <2>1, OfferRests DEF OfferInv
  <2> QED
    BY <1>1, <1>6, <2>2, StillSame DEF Follows
<1> QED
  BY <1>4, <1>5, <1>6

\* What is staged is not yet accepted, and leaves the trusted image alone.
LEMMA StageFollows ==
  ASSUME TypeInv, SlotInv, CoreInv, OfferInv, StageRelease
  PROVE  Follows
<1>1. /\ step = "manifest" /\ UNCHANGED <<flash, pendingRun, due, staged, passed>>
  BY DEF StageRelease
<1>2. Working
  BY <1>1 DEF Working
<1>3. /\ ~Chosen /\ ~OnTrial /\ journal = install
      /\ install \in Journal /\ JournalValid(install) /\ Journals
      /\ Inactive \in Slots /\ Inactive # running /\ ~MatchesIn(install, running)
  BY <1>2, WorkingFacts
<1>4. /\ UNCHANGED <<image, running>> /\ OnTrial' = OnTrial /\ Chosen' = Chosen
  BY <1>1, FlashSame
<1>5. desired \in Releases /\ desired \in Names
  BY <1>1 DEF CoreInv, StepInv, Names
<1> DEFINE stop == FALSE
           j == Staged(install, desired, Inactive)
<1>6. stop \in BOOLEAN
  OBVIOUS
<1>7. \/ Fail("rejected", "manifest", stop)
      \/ UNCHANGED <<install, journal>> /\ step' = "idle"
      \/ /\ \E m \in Manifests : ReleaseAccepted(m, install.confirmed) /\ ClaimsMatch(desired, m)
         /\ UNCHANGED desired
         /\ \E s \in Save(j) :
               /\ Saved(s)
               /\ \/ install' = j /\ step' = "stream"
                  \/ install' = Cancelled(j, "production") /\ step' = "fail"
  BY Zenon DEF StageRelease
<1> HIDE DEF stop, j
<1>8. CASE Fail("rejected", "manifest", stop)
  BY <1>1, <1>2, <1>6, <1>8, FailFollows
<1>9. CASE UNCHANGED <<install, journal>> /\ step' = "idle"
  <2>1. OfferInv'
    BY <1>3, <1>4, <1>9, OfferRests DEF OfferInv
  <2> QED
    BY <1>1, <1>9, <2>1, StillSame DEF Follows
<1>10. ASSUME NEW m, ReleaseAccepted(m, install.confirmed), ClaimsMatch(desired, m),
              UNCHANGED desired, NEW s \in Save(j), Saved(s),
              \/ install' = j /\ step' = "stream"
              \/ install' = Cancelled(j, "production") /\ step' = "fail"
       PROVE  Follows
  <2>1. Counter(desired) > Counter(install.confirmed)
    BY <1>5, <1>10, Counters DEF ReleaseAccepted, ClaimsMatch
  <2>2. /\ j \in Journal /\ JournalValid(j) /\ j.pending = "production"
        /\ j.release = desired /\ j.image = Torn /\ j.confirmed = install.confirmed
    BY <1>3, <1>5, <2>1, StagedJournal DEF j
  <2>3. ~j.validated /\ ~MatchesIn(j, running)
    BY <2>2 DEF JournalValid, Accepted, MatchesIn, IdentityMatches
  <2>4. journal' = j \/ journal' = journal
    BY <1>10, SavedJournal
  <2>5. install' \in {j, Cancelled(j, "production")} /\ install'.image = Torn
    BY <1>10, <2>2, CancelledJournal
  <2>6. OfDevelopment(install') /\ OfDevelopment(journal')
    BY <2>2, <2>4, <2>5, NoUpload DEF OfferInv
  <2>7. OfferInv'
    <3>1. CASE install' = j /\ step' = "stream"
      BY <1>3, <1>4, <1>10, <2>2, <2>3, <2>6, <3>1 DEF OfferInv
    <3>2. CASE step' = "fail"
      BY <1>3, <1>4, <2>6, <3>2, OfferRests
    <3> QED
      BY <1>10, <3>1, <3>2
  <2>8. Journals'
    BY StageCore DEF CoreNext
  <2> QED
    BY <1>3, <1>4, <2>2, <2>3, <2>4, <2>7, <2>8, SavedFollows
<1> QED
  BY <1>7, <1>8, <1>9, <1>10

\* A download that ends early, or gates that do not hold after the last byte.
LEMMA StopFollows ==
  ASSUME TypeInv, SlotInv, CoreInv, OfferInv, DownloadFails \/ TerminalGateFails
  PROVE  Follows
<1> DEFINE written == step # "manifest"
           stop    == TRUE
<1>1. written \in BOOLEAN /\ stop \in BOOLEAN
  OBVIOUS
<1>2. \/ Fail("failed", "download", written)
      \/ Fail("failed", "gates", stop)
  BY DEF DownloadFails, TerminalGateFails
<1>3. Working /\ UNCHANGED <<flash, pendingRun, due, passed>>
  BY DEF DownloadFails, TerminalGateFails, Working, ghost
<1> HIDE DEF written, stop
<1> QED
  BY <1>1, <1>2, <1>3, FailFollows

\* Writing the other partition, which is neither chosen nor trusted.
LEMMA WriteFollows ==
  ASSUME TypeInv, SlotInv, TrialInv, CoreInv, OfferInv, BeginStream \/ WriteDevelopment
  PROVE  Follows
<1>1. /\ step \in {"stream", "upload"}
      /\ step = "stream" => step' = "write"
      /\ step = "upload" => step' = "upload_written" /\ staged
      /\ UNCHANGED <<journal, install, desired, staged>>
  BY DEF BeginStream, WriteDevelopment
<1>2. Working
  BY <1>1 DEF Working
<1>3. ~Chosen /\ ~OnTrial /\ ~MatchesIn(install, running) /\ journal = install /\ Journals
  BY <1>2, WorkingFacts
<1>4. /\ running' = running /\ image'[running] = image[running] /\ ~OnTrial' /\ ~Chosen'
  BY <1>3, FlashWrites DEF FlashSteps, BeginStream, WriteDevelopment, CoreInv, OnTrial, Chosen
<1>5. Journals' /\ (journal' = install \/ journal' = journal)
      /\ install.confirmed = journal.confirmed /\ ~MatchesIn(journal, running)
  BY <1>1, <1>3, WriteCore DEF CoreNext
<1>6. OfDevelopment(install') /\ OfDevelopment(journal')
  BY <1>1 DEF OfferInv
<1>7. OfferInv'
  BY <1>1, <1>4, <1>6 DEF OfferInv
<1> QED
  BY <1>3, <1>4, <1>5, <1>7, SavedFollows

\* The image that was written is the release that was staged.
LEMMA AcceptFollows ==
  ASSUME TypeInv, SlotInv, TrialInv, CoreInv, OfferInv, AcceptImage
  PROVE  Follows
<1>1. /\ step = "write" /\ UNCHANGED desired /\ step' \in {"accepted", "fail"}
  BY DEF AcceptImage
<1>2. Working
  BY <1>1 DEF Working
<1>3. /\ ~Chosen /\ ~OnTrial /\ journal = install
      /\ install \in Journal /\ JournalValid(install) /\ Journals
      /\ ~MatchesIn(install, running) /\ Inactive # running
  BY <1>2, WorkingFacts
<1>4. /\ running' = running /\ Inactive' = Inactive /\ image'[running] = image[running]
      /\ UNCHANGED <<otadata, boot>> /\ image'[Inactive] = desired
  <2>1. ~SelectImage /\ ~EndUpload
    BY <1>1 DEF SelectImage, EndUpload
  <2>2. ~ConfirmAfterPersistence
    BY <1>3 DEF ConfirmAfterPersistence, TrialInv
  <2> QED
    BY <2>1, <2>2, FlashWrites DEF FlashSteps, CoreInv
<1>5. ~OnTrial' /\ ~Chosen'
  BY <1>3, <1>4 DEF OnTrial, Chosen
<1>6. /\ desired \in Images \cup {Torn} /\ install.slot = Inactive
      /\ install.pending = "production"
      /\ install.release = desired /\ ~install.validated
  BY <1>1 DEF CoreInv, StepInv, Images, OfferInv
<1>7. OfDevelopment(install) /\ OfDevelopment(journal)
  BY DEF OfferInv
<1>8. Journals'
  BY AcceptCore DEF CoreNext
<1> DEFINE j == WithAccepted(install, desired)
<1>9. CASE UNCHANGED <<install, journal>> /\ step' = "fail"
  <2>1. OfferInv'
    BY <1>5, <1>7, <1>9, OfferRests
  <2>2. journal' = install \/ journal' = journal
    BY <1>9
  <2> QED
    BY <1>3, <1>4, <1>5, <1>8, <2>1, <2>2, SavedFollows
<1>10. CASE CanAccept(install, Inactive)
  <2>1. PICK s \in Save(j) : /\ Saved(s)
                             /\ install' = IF s.ok THEN j ELSE install
                             /\ step' = IF s.ok THEN "accepted" ELSE "fail"
    BY <1>10 DEF AcceptImage
  <2>2. /\ j.pending = "production" /\ j.slot = Inactive /\ j.release = desired
        /\ j.confirmed = install.confirmed /\ ~j.validated
    BY <1>3, <1>6, <1>10, AcceptedJournal DEF CanAccept
  <2> HIDE DEF j
  <2>3. ~MatchesIn(j, running) /\ OfDevelopment(j)
    BY <1>3, <2>2, NoUpload DEF MatchesIn, IdentityMatches
  <2>4. journal' = j \/ journal' = journal
    BY <2>1, SavedJournal
  <2>5. OfDevelopment(install') /\ OfDevelopment(journal')
    BY <1>7, <2>1, <2>3, <2>4
  <2>6. OfferInv'
    <3>1. CASE s.ok
      <4>1. install' = j /\ step' = "accepted"
        BY <2>1, <3>1
      <4> QED
        BY <1>1, <1>4, <1>5, <2>2, <2>5, <4>1 DEF OfferInv
    <3>2. CASE ~s.ok
      <4>1. step' = "fail"
        BY <2>1, <3>2
      <4> QED
        BY <1>5, <2>5, <4>1, OfferRests
    <3> QED
      BY <3>1, <3>2
  <2> QED
    BY <1>3, <1>4, <1>5, <1>8, <2>2, <2>3, <2>4, <2>6, SavedFollows
<1> QED
  BY <1>9, <1>10 DEF AcceptImage

\* Choosing the new image is the first step of a release towards being trusted.
LEMMA SelectFollows ==
  ASSUME TypeInv, SlotInv, TrialInv, CoreInv, OfferInv, SelectImage
  PROVE  Follows
<1>1. /\ step = "accepted" /\ running' = running /\ step' \in {"restart", "fail"}
      /\ UNCHANGED <<journal, install, desired, staged>>
      /\ Selected(Inactive) \/ UNCHANGED flash
  BY DEF SelectImage, Selected, flash
<1>2. Working
  BY <1>1 DEF Working
<1>3. /\ ~Chosen /\ ~OnTrial /\ Trusted = running /\ journal = install
      /\ install \in Journal /\ JournalValid(install) /\ Journals
      /\ Inactive \in Slots /\ running \in Slots /\ Inactive # running
      /\ ~MatchesIn(install, running)
  BY <1>2, WorkingFacts
<1>4. /\ install.pending = "production" /\ Inactive' = Inactive /\ desired \in Releases
      /\ install.release = desired /\ ~install.validated /\ image[Inactive] = desired
      /\ OfDevelopment(install) /\ OfDevelopment(journal)
  BY <1>1 DEF CoreInv, StepInv, Inactive, OfferInv
<1>5. OfferInv'
  BY <1>1, <1>3, <1>4, OfferRests
<1>6. CASE UNCHANGED flash
  BY <1>1, <1>5, <1>6, StillSame DEF Follows
<1>7. CASE Selected(Inactive)
  <2>1. /\ image' = image /\ otadata'[Inactive] = "new" /\ otadata'[running] = otadata[running]
    BY <1>3, <1>7, Types DEF Selected
  <2>2. Chosen' /\ ~OnTrial' /\ Trusted' = running
    BY <1>1, <1>3, <1>4, <2>1 DEF Chosen, OnTrial, Trusted
  <2>3. InstallPhase = "rest" /\ InstallPhase' = "chosen"
    BY <1>3, <2>2, Phases, PhasesNext
  <2>4. Candidate' = desired
    BY <1>4, <2>1, <2>2 DEF Candidate
  <2>5. Counter(desired) > Counter(Loaded.confirmed)
    BY <1>3, <1>4, JournalTypes DEF JournalValid
  <2>6. /\ image'[Trusted'] = image[Trusted] /\ Loaded'.confirmed = Loaded.confirmed
    BY <1>1, <1>3, <2>1, <2>2 DEF Loaded
  <2>7. server'.floor = server.floor => Promise!Next
    BY <1>4, <2>3, <2>4, <2>5, <2>6, Chooses
  <2> QED
    BY <1>5, <2>7 DEF Follows
<1> QED
  BY <1>1, <1>6, <1>7

\* The report that ends an attempt.
LEMMA EndFollows ==
  ASSUME OfferInv, ReportEnd
  PROVE  Follows
<1>1. /\ step' = "idle" /\ UNCHANGED <<flash, journal, install>>
  BY DEF ReportEnd
<1>2. Chosen' => ~journal'.validated
  BY <1>1, FlashSame DEF OfferInv
<1>3. OfferInv'
  BY <1>1, <1>2, OfferRests DEF OfferInv
<1> QED
  BY <1>1, <1>3, StillSame DEF Follows

\* Opening the window, or giving up on an upload, writes nothing.
LEMMA WindowFollows ==
  ASSUME OfferInv, OpenDevelopment \/ UploadFails \/ RejectDevelopment
  PROVE  Follows
<1>1. /\ UNCHANGED <<flash, journal, install>>
      /\ \/ step' = "upload" /\ staged' = FALSE
         \/ /\ step \in {"upload", "upload_written", "upload_ended"}
            /\ step' = "upload_failed" /\ staged' = staged
  BY DEF OpenDevelopment, UploadFails, RejectDevelopment
<1>2. Chosen' => ~journal'.validated
  BY <1>1, FlashSame DEF OfferInv
<1>3. OfDevelopment(install') /\ OfDevelopment(journal')
  BY <1>1 DEF OfferInv
<1>4. OfferInv'
  BY <1>1, <1>2, <1>3 DEF OfferInv
<1> QED
  BY <1>1, <1>4, StillSame DEF Follows

\* The upload is staged in the journal before its first byte.
LEMMA StageUploadFollows ==
  ASSUME TypeInv, SlotInv, CoreInv, OfferInv, StageDevelopment
  PROVE  Follows
<1>1. step = "upload" /\ ~staged /\ UNCHANGED flash
  BY DEF StageDevelopment
<1>2. Working
  BY <1>1 DEF Working
<1>3. /\ ~Chosen /\ ~OnTrial /\ journal = install
      /\ install \in Journal /\ JournalValid(install) /\ Journals
      /\ Inactive \in Slots /\ Inactive # running /\ ~MatchesIn(install, running)
  BY <1>2, WorkingFacts
<1>4. /\ UNCHANGED <<image, running>> /\ OnTrial' = OnTrial /\ Chosen' = Chosen
  BY <1>1, FlashSame
<1> DEFINE j == StagedDevelopment(install, Inactive)
<1>5. PICK s \in Save(j) :
         /\ Saved(s)
         /\ \/ install' = j /\ step' = "upload"
            \/ install' = install /\ step' = "upload_failed" /\ ~staged'
  BY <1>1 DEF StageDevelopment
<1>6. /\ JournalValid(j) /\ j.image = Torn /\ j.confirmed = install.confirmed
  BY <1>3, UploadJournal
<1> HIDE DEF j
<1>7. ~MatchesIn(j, running) /\ ~j.validated /\ OfDevelopment(j)
  BY <1>6, NoUpload DEF JournalValid, Accepted, MatchesIn, IdentityMatches
<1>8. journal' = j \/ journal' = journal
  BY <1>5, SavedJournal
<1>9. OfDevelopment(install') /\ OfDevelopment(journal')
  BY <1>5, <1>7, <1>8 DEF OfferInv
<1>10. OfferInv'
  <2>1. CASE install' = j /\ step' = "upload"
    BY <1>3, <1>4, <1>7, <1>9, <2>1 DEF OfferInv
  <2>2. CASE step' = "upload_failed" /\ ~staged'
    BY <1>3, <1>4, <1>9, <2>2 DEF OfferInv
  <2> QED
    BY <1>5, <2>1, <2>2
<1>11. Journals'
  BY StageUploadCore DEF CoreNext
<1> QED
  BY <1>3, <1>4, <1>6, <1>7, <1>8, <1>10, <1>11, SavedFollows

\* The end of an upload chooses the development image.
LEMMA EndUploadFollows ==
  ASSUME TypeInv, SlotInv, TrialInv, CoreInv, OfferInv, EndUpload
  PROVE  Follows
<1>1. /\ step = "upload_written" /\ step' = "upload_ended" /\ running' = running
      /\ otadata' = [otadata EXCEPT ![Inactive] = "new"]
      /\ image' = [image EXCEPT ![Inactive] = Development]
      /\ UNCHANGED <<journal, install, staged>>
  BY DEF EndUpload
<1>2. Working
  BY <1>1 DEF Working
<1>3. /\ ~Chosen /\ ~OnTrial /\ Trusted = running /\ journal = install
      /\ Inactive \in Slots /\ running \in Slots /\ Inactive # running
      /\ ~MatchesIn(install, running)
  BY <1>2, WorkingFacts
<1>4. staged /\ ~install.validated /\ OfDevelopment(install) /\ Inactive' = Inactive
  BY <1>1 DEF CoreInv, StepInv, OfferInv, Inactive
<1>5. /\ otadata'[running] = otadata[running] /\ otadata'[Inactive] = "new"
      /\ image'[running] = image[running] /\ image'[Inactive] = Development
  BY <1>1, <1>3, Types
<1>6. Chosen' /\ ~OnTrial' /\ Trusted' = running
  BY <1>1, <1>3, <1>4, <1>5 DEF Chosen, OnTrial, Trusted
<1>7. OfDevelopment(install') /\ OfDevelopment(journal')
  BY <1>1, <1>3, <1>4
<1>8. OfferInv'
  BY <1>1, <1>3, <1>4, <1>5, <1>7 DEF OfferInv
<1>9. InstallPhase = "rest" /\ InstallPhase' = "chosen"
  BY <1>3, <1>6, Phases, PhasesNext
<1>10. /\ Candidate' = Development /\ image'[Trusted'] = image[Trusted]
       /\ Loaded'.confirmed = Loaded.confirmed
  BY <1>1, <1>3, <1>4, <1>5, <1>6 DEF Candidate, Loaded
<1>11. server'.floor = server.floor => Promise!Next
  BY <1>9, <1>10, Chooses
<1> QED
  BY <1>8, <1>11 DEF Follows

\* Accepting the upload in the journal does not yet validate it.
LEMMA AcceptUploadFollows ==
  ASSUME TypeInv, SlotInv, CoreInv, OfferInv, AcceptDevelopment
  PROVE  Follows
<1>1. /\ step = "upload_ended" /\ staged /\ CanAccept(install, boot)
      /\ UNCHANGED <<flash, staged>>
  BY DEF AcceptDevelopment
<1>2. /\ Journals /\ install \in Journal /\ JournalValid(install)
  BY Types DEF Journals
<1>3. /\ Chosen /\ ~OnTrial /\ healthy
      /\ image[Inactive] = Development /\ ~install.validated
      /\ OfDevelopment(install) /\ OfDevelopment(journal)
  BY <1>1 DEF CoreInv, StepInv, OfferInv
<1>4. boot = Inactive
  BY <1>3 DEF SlotInv
<1>5. journal = install
  BY <1>1, <1>3 DEF CoreInv, CopyInv
<1>6. /\ UNCHANGED <<image, otadata, boot, running>> /\ Inactive' = Inactive
      /\ OnTrial' = OnTrial /\ Chosen' = Chosen
  BY <1>1, FlashSame
<1> DEFINE j == WithAccepted(install, image[boot])
<1>7. PICK s \in Save(j) :
         /\ Saved(s)
         /\ \/ install' = j /\ step' = "restart"
            \/ step' = "upload_failed" /\ UNCHANGED install
  BY DEF AcceptDevelopment
<1>8. /\ j.image = Development /\ ~j.validated /\ j.confirmed = install.confirmed
  <2>1. Development \in Images \cup {Torn}
    BY DEF Images
  <2> QED
    BY <1>1, <1>2, <1>3, <1>4, <2>1, AcceptedJournal DEF CanAccept
<1> HIDE DEF j
<1>9. journal' = j \/ journal' = install
  BY <1>5, <1>7, SavedJournal
<1>10. ~journal'.validated /\ journal'.confirmed = journal.confirmed
  BY <1>3, <1>5, <1>8, <1>9
<1>11. OfDevelopment(install') /\ OfDevelopment(journal')
  BY <1>3, <1>7, <1>8, <1>9, NoUpload
<1>12. OfferInv'
  <2>1. CASE step' = "restart"
    BY <1>10, <1>11, <2>1, OfferRests
  <2>2. CASE step' = "upload_failed" /\ UNCHANGED install
    BY <1>3, <1>10, <1>11, <2>2 DEF OfferInv
  <2> QED
    BY <1>7, <2>1, <2>2
<1>13. Journals'
  BY AcceptUploadCore DEF CoreNext
<1>14. Loaded'.confirmed = Loaded.confirmed
  BY <1>2, <1>10, <1>13, JournalTypes, JournalTypesNext DEF Journals
<1>15. Still
  BY <1>3, <1>6, <1>14, StillKept
<1> QED
  BY <1>12, <1>15 DEF Follows

\* A failed upload is dropped from the journal beside the trusted image.
LEMMA CloseFollows ==
  ASSUME TypeInv, SlotInv, CoreInv, OfferInv, CloseFailedUpload
  PROVE  Follows
<1>1. step = "upload_failed" /\ step' = "idle" /\ UNCHANGED flash
  BY DEF CloseFailedUpload
<1>2. /\ Inactive \in Slots /\ running \in Slots /\ Inactive # running
      /\ Journals /\ install \in Journal /\ JournalValid(install)
  BY Types, InactiveSlot DEF Journals
<1>3. ~OnTrial
  BY <1>1 DEF CoreInv, StepInv
<1>4. /\ UNCHANGED <<image, otadata, boot, running>> /\ OnTrial' = OnTrial /\ Chosen' = Chosen
  BY <1>1, FlashSame
<1>5. OfDevelopment(install) /\ OfDevelopment(journal) /\ (Chosen => ~journal.validated)
  BY DEF OfferInv
<1> DEFINE j == Cancelled(install, "development")
<1>6. CASE staged /\ BootChoice(otadata) = running
  <2>1. healthy /\ install.pending = "development" /\ install.slot = Inactive
    BY <1>1, <1>6 DEF CoreInv, StepInv
  <2>2. ~Chosen
    <3>1. SUFFICES ASSUME Chosen PROVE FALSE
      OBVIOUS
    <3>2. boot = Inactive /\ image[boot] # Torn /\ otadata[boot] = "new"
      BY <3>1 DEF SlotInv, Chosen
    <3> QED
      BY <1>2, <1>6, <3>2 DEF BootChoice, Usable
  <2>3. journal = install
    BY <1>1, <2>1, <2>2, AtWork DEF CoreInv
  <2>4. PICK s \in Save(j) : Saved(s) /\ install' \in {j, install}
    BY <1>6 DEF CloseFailedUpload
  <2>5. j.pending = "none" /\ j.confirmed = install.confirmed
    BY <1>2, <2>1, CancelledJournal
  <2> HIDE DEF j
  <2>6. journal' = j \/ journal' = journal
    BY <2>4, SavedJournal
  <2>7. ~MatchesIn(j, running) /\ ~MatchesIn(journal, running) /\ OfDevelopment(j)
    BY <1>2, <2>1, <2>3, <2>5, NoUpload DEF MatchesIn, IdentityMatches
  <2>8. OfDevelopment(install') /\ OfDevelopment(journal')
    BY <1>5, <2>4, <2>6, <2>7
  <2>9. OfferInv'
    BY <1>1, <1>4, <2>2, <2>8, OfferRests
  <2>10. Journals'
    BY CloseCore DEF CoreNext
  <2> QED
    BY <1>2, <1>3, <1>4, <2>2, <2>3, <2>5, <2>6, <2>7, <2>9, <2>10, SavedFollows
<1>7. CASE UNCHANGED <<install, journal>>
  <2>1. OfferInv'
    BY <1>1, <1>4, <1>5, <1>7, OfferRests
  <2> QED
    BY <1>1, <1>7, <2>1, StillSame DEF Follows
<1> QED
  BY <1>6, <1>7 DEF CloseFailedUpload

-----------------------------------------------------------------------------
(* The server, and every step.                                              *)

\* The server learns of a release that is confirmed, or of none.
Learns ==
    \/ server'.floor = server.floor
    \/ /\ server'.floor > server.floor /\ server'.floor <= Counter(Loaded.confirmed)
       /\ UNCHANGED <<flash, journal>>

\* What a report that names what is confirmed does to the floor.
LEMMA Answered ==
  ASSUME TypeInv, NEW b, Answer(b) \/ NoAnswer(b),
         b.phase = "running" => b.running \in {NoRelease, install.confirmed}
  PROVE  \/ server'.floor = server.floor
         \/ /\ b.phase = "running" /\ server'.floor > server.floor
            /\ server'.floor = Counter(install.confirmed)
<1>1. UNCHANGED remote \/ Receive(b)
  BY DEF Answer, NoAnswer
<1>2. install.confirmed \in Names /\ NoRelease \in Names
  BY Types, JournalFields DEF Journals, Names
<1>3. \/ server'.floor = server.floor
      \/ /\ b.phase = "running" /\ server'.floor = Counter(b.running)
         /\ server'.floor > server.floor
  BY <1>1, <1>2, ReceiveOutcome
<1>4. server.floor \in Nat /\ Counter(NoRelease) = 0
  BY Counters DEF TypeInv
<1> QED
  BY <1>3, <1>4

\* The floor rises by a report that the device runs what it confirmed.
LEMMA FloorLearns ==
  ASSUME TypeInv, CoreInv, [Next]_vars
  PROVE  Learns
<1>1. CASE server'.floor = server.floor
  BY <1>1 DEF Learns
<1>2. RunningName \in {NoRelease, install.confirmed}
  BY DEF RunningName
<1>3. Counter(install.confirmed) <= Counter(Loaded.confirmed)
  BY DEF CoreInv, CopyInv
<1>4. ASSUME NEW r, NEW phase, NEW error, NEW previous, NEW good,
             LET b == Report(r, phase, error, previous, RunningName, good)
             IN  Answer(b) \/ NoAnswer(b),
             phase # "running" \/ UNCHANGED <<flash, journal>>
      PROVE  Learns
  <2> DEFINE b == Report(r, phase, error, previous, RunningName, good)
  <2>1. b.running \in {NoRelease, install.confirmed} /\ b.phase = phase
    BY <1>2, ReportFields
  <2>2. Answer(b) \/ NoAnswer(b)
    BY <1>4
  <2> HIDE DEF b
  <2>3. \/ server'.floor = server.floor
        \/ /\ phase = "running" /\ server'.floor > server.floor
           /\ server'.floor = Counter(install.confirmed)
    BY <2>1, <2>2, Answered
  <2> QED
    BY <1>3, <1>4, <2>3 DEF Learns
<1>5. ASSUME Answer(ValidatingBody) \/ NoAnswer(ValidatingBody)
      PROVE  Learns
  <2>1. ValidatingBody.phase # "running"
    BY DEF ValidatingBody, Report
  <2>2. server'.floor = server.floor
    BY <1>5, <2>1, Answered
  <2> QED
    BY <1>1, <2>2
<1>6. CASE Reports \/ ReportUnanswered
  <2>1. \/ Answer(ValidatingBody) \/ NoAnswer(ValidatingBody)
        \/ Answer(RollbackBody) \/ NoAnswer(RollbackBody)
        \/ /\ Answer(RunningBody) \/ NoAnswer(RunningBody)
           /\ UNCHANGED <<flash, journal>>
    BY <1>6 DEF Reports, ReportUnanswered, ReportRunning, ReportValidating, ReportRollback
  <2> QED
    BY <2>1, <1>4, <1>5 DEF RunningBody, RollbackBody
<1>7. CASE AlreadyRunning
  BY <1>4, <1>7 DEF AlreadyRunning
<1>8. CASE BeginRelease
  BY <1>1, <1>4, <1>8 DEF BeginRelease, remote
<1>9. CASE StageRelease
  <2>1. \/ UNCHANGED server
        \/ LET b == Report(desired, "verifying", "none", install.confirmed, RunningName,
                           install.confirmed)
           IN  Answer(b) \/ NoAnswer(b)
    BY <1>9, Zenon DEF StageRelease, remote
  <2> QED
    BY <1>1, <1>4, <2>1
<1>10. CASE SelectImage
  <2>1. \/ UNCHANGED remote
        \/ LET b == Report(desired, "reboot_pending", "none", install.confirmed,
                           RunningName, install.confirmed)
           IN  Answer(b) \/ NoAnswer(b)
    BY <1>10 DEF SelectImage
  <2> QED
    BY <1>1, <1>4, <2>1 DEF remote
<1>11. CASE ReportEnd
  BY <1>4, <1>11 DEF ReportEnd, EndBody
<1>12. CASE SelectRelease
  BY <1>1, <1>12, Selection
<1> QED
  BY <1>1, <1>6, <1>7, <1>8, <1>9, <1>10, <1>11, <1>12, RemoteKept

\* Every step keeps the worker's plan, and follows the abstract installation.
LEMMA NextFollows ==
  ASSUME TypeInv, SlotInv, TrialInv, CoreInv, OfferInv, [Next]_vars
  PROVE  Follows
<1>1. CASE Boots
  BY <1>1, BootFollows
<1>2. CASE Start
  BY <1>2, StartFollows
<1>3. CASE QuietSteps
  BY <1>3, QuietFollows
<1>4. CASE ConfirmAfterPersistence
  BY <1>4, ConfirmFollows
<1>5. CASE TakePrepare
  BY <1>5, PrepareFollows
<1>6. CASE TakeConfirmed
  BY <1>6, PromoteFollows
<1>7. CASE ReportRollback
  BY <1>7, RollbackFollows
<1>8. CASE Production
  <2>1. CASE BeginRelease
    BY <2>1, BeginFollows
  <2>2. CASE StageRelease
    BY <2>2, StageFollows
  <2>3. CASE DownloadFails \/ TerminalGateFails
    BY <2>3, StopFollows
  <2>4. CASE BeginStream
    BY <2>4, WriteFollows
  <2>5. CASE AcceptImage
    BY <2>5, AcceptFollows
  <2>6. CASE SelectImage
    BY <2>6, SelectFollows
  <2>7. CASE ReportEnd
    BY <2>7, EndFollows
  <2> QED
    BY <1>3, <1>8, <2>1, <2>2, <2>3, <2>4, <2>5, <2>6, <2>7 DEF Production, QuietSteps
<1>9. CASE DevelopmentUpload
  <2>1. CASE OpenDevelopment \/ UploadFails \/ RejectDevelopment
    BY <2>1, WindowFollows
  <2>2. CASE StageDevelopment
    BY <2>2, StageUploadFollows
  <2>3. CASE WriteDevelopment
    BY <2>3, WriteFollows
  <2>4. CASE EndUpload
    BY <2>4, EndUploadFollows
  <2>5. CASE AcceptDevelopment
    BY <2>5, AcceptUploadFollows
  <2>6. CASE CloseFailedUpload
    BY <2>6, CloseFollows
  <2> QED
    BY <1>9, <2>1, <2>2, <2>3, <2>4, <2>5, <2>6 DEF DevelopmentUpload
<1> QED
  BY <1>1, <1>2, <1>3, <1>4, <1>5, <1>6, <1>7, <1>8, <1>9
     DEF Next, Boots, QuietSteps, Validator, Notices, Reports

\* Every step is one of the abstract installation, or none.
LEMMA RefinedStep ==
  ASSUME InstallInv, OfferInv, [Next]_vars
  PROVE  OfferInv' /\ [Promise!Next]_(Promise!vars)
<1>1. TypeInv /\ SlotInv /\ TrialInv /\ CoreInv
  BY DEF InstallInv, CoreInv
<1>2. Follows /\ Learns
  BY <1>1, NextFollows, FloorLearns
<1>3. CASE server'.floor = server.floor
  BY <1>2, <1>3 DEF Follows, Still, Promise!vars
<1>4. CASE /\ server'.floor > server.floor /\ server'.floor <= Counter(Loaded.confirmed)
           /\ UNCHANGED <<flash, journal>>
  <2>1. Still
    BY <1>4, StillSame
  <2>2. RemoteInv
    BY <1>1, RemoteSteps DEF CoreInv
  <2>3. server.floor \in Nat /\ server'.floor \in Nat /\ Counter(Loaded.confirmed) \in Nat
    BY <1>1, <2>2, Types, JournalTypes DEF TypeInv, RemoteInv
  <2>4. Promise!Counter(Loaded.confirmed) = Counter(Loaded.confirmed)
    BY DEF Promise!Counter, Counter
  <2>5. server'.floor \in (server.floor + 1)..Promise!Counter(Loaded.confirmed)
    BY <1>4, <2>3, <2>4
  <2>6. Promise!Learn
    BY <2>1, <2>5 DEF Promise!Learn, Still
  <2> QED
    BY <1>2, <2>6 DEF Follows, Promise!Next
<1> QED
  BY <1>2, <1>3, <1>4 DEF Learns

\* The device as it leaves the bench trusts the image flashed over USB.
LEMMA RefinedInit == ASSUME Init PROVE OfferInv /\ Promise!Init
<1>1. /\ AnySlot \in Slots /\ OtherSlot(AnySlot) \in Slots /\ OtherSlot(AnySlot) # AnySlot
  BY TwoSlots
<1>2. /\ running = AnySlot /\ Inactive = OtherSlot(AnySlot) /\ journal = Absent
      /\ step = "boot" /\ install = EmptyJournal
      /\ server = [target |-> NoRelease, completed |-> FALSE, floor |-> 0, latest |-> NoReport]
  BY DEF Init, FlashedSlot, Inactive
<1>3. /\ image[running] = Factory
      /\ otadata[running] = "undefined" /\ otadata[Inactive] = "none"
  BY <1>1, <1>2 DEF Init, FlashedSlot
<1>4. ~OnTrial /\ ~Chosen /\ Trusted = running
  BY <1>3 DEF OnTrial, Chosen, Trusted
<1>5. OfDevelopment(install) /\ OfDevelopment(journal)
  BY <1>2, EmptyJournals, NoUpload
<1>6. OfferInv
  BY <1>2, <1>4, <1>5 DEF OfferInv
<1>7. ~MatchesIn(journal, running)
  BY <1>2, EmptyJournals DEF MatchesIn, IdentityMatches, Accepted
<1>8. InstallPhase = "rest" /\ Candidate = Torn
  BY <1>4, <1>7, Phases DEF Candidate
<1>9. Loaded.confirmed = NoRelease /\ server.floor = 0
  BY <1>2, EmptyJournals DEF Loaded
<1> QED
  BY <1>3, <1>4, <1>6, <1>8, <1>9 DEF Promise!Init

\* Partitions, journal and server together install as the abstract module
\* promises: the one that is trusted changes only for an image that was chosen,
\* tried and validated, its release is recorded before the next is chosen, and
\* the server hears of it only then.
THEOREM InstallationRefined == Spec => ImplementsInstallation
<1>1. InstallInv /\ OfferInv /\ [Next]_vars => OfferInv' /\ [Promise!Next]_(Promise!vars)
  BY RefinedStep
<1>2. Init => OfferInv /\ Promise!Init
  BY RefinedInit
<1> QED
  BY <1>1, <1>2, InstallInvariance, PTL DEF Spec, ImplementsInstallation, Promise!Spec

=============================================================================
