------------------------- MODULE Services_proofs -------------------------
(***************************************************************************)
(* The components beside the telemetry and the OTA path, for every bound.  *)
(*                                                                         *)
(* Settings: those of two provisionings are never mixed, because the valid *)
(* flag of a slot is down from the first field written to the last; once a *)
(* marker is written, the slot it names is valid and is not the one a save *)
(* writes, so a load changes only when the marker moves.                   *)
(*                                                                         *)
(* Touch corrections: a label is offered only for a sample the server has, *)
(* and a correction is always in one of the places it may be in.  Both say *)
(* nothing of the steps between: a request under way is about a bundle in  *)
(* the directory it came from, a commit about the head of the queue, which *)
(* has a file, and the two are never due at once.                          *)
(*                                                                         *)
(* Core dumps: the generations of the two contexts are in the order of the *)
(* boots, so that a boot after a crash finds the identity of the boot that *)
(* crashed or none; from there every place a boot is named for the dump    *)
(* (the pin, the attribution, the report) names that one, unless a reset   *)
(* is excused.                                                             *)
(*                                                                         *)
(* Answers: what the server serves has each member of its parser once, and *)
(* each with a value that parser takes; of the members that decide, some   *)
(* have only that one, and the others have no value the server could not   *)
(* have written.  So one drift is harmless or refused.                     *)
(***************************************************************************)
EXTENDS SettingsStore, FeedbackPipeline, CoreDump, Answers, FiniteSetTheorems,
        SequenceTheorems, WellFoundedInduction, TLAPS

-----------------------------------------------------------------------------
(* Provisioned settings.                                                   *)

Step == {"idle", "invalidate", "fields", "validate", "mark"}

\* The inductive invariant: while fields are written the slot is invalid and
\* the fields before next are of the new value, all of them at the end.
SettingsInv ==
    /\ valid \in [Slots -> BOOLEAN]
    /\ field \in [Slots -> [1..Fields -> Values \cup {None}]]
    /\ target \in Slots /\ step \in Step /\ saving \in Values \cup {None}
    /\ next \in 1..(Fields + 1)
    /\ step # "idle" => saving \in Values
    /\ step \in {"invalidate", "fields"} => next <= Fields
    /\ step = "invalidate" => next = 1
    /\ step \in {"fields", "validate"} =>
           /\ ~valid[target]
           /\ \A f \in 1..(next - 1) : field[target][f] = saving
    /\ step = "validate" => next = Fields + 1
    /\ \A s \in Slots : valid[s] => \E v \in Values : field[s] = Whole(v)
    /\ step = "mark" => valid[target] /\ field[target] = Whole(saving)
    /\ marker \in {0, 1, 2}
    /\ marker # NoMarker => valid[marker]
    /\ step # "idle" => target # marker

-----------------------------------------------------------------------------

\* Nothing is valid at first.
LEMMA SettingsInit == Init => SettingsInv
BY SettingsAssumption DEF Init, SettingsInv, Slots, Step, Whole, NoMarker

\* Every step keeps the invariant.
LEMMA SettingsNext == SettingsInv /\ [Next]_vars => SettingsInv'
<1> SUFFICES ASSUME SettingsInv, [Next]_vars PROVE SettingsInv'
    OBVIOUS
<1> USE SettingsAssumption DEF SettingsInv, Slots, Step, NoMarker
<1>1. CASE BeginSave
    BY <1>1 DEF BeginSave, Target
<1>2. CASE Invalidate
    BY <1>2 DEF Invalidate
<1>3. CASE WriteField
    <2>1. /\ field' \in [Slots -> [1..Fields -> Values \cup {None}]]
          /\ field'[target] = [field[target] EXCEPT ![next] = saving]
          /\ \A s \in Slots : s # target => field'[s] = field[s]
        BY <1>3 DEF WriteField
    <2>2. \A s \in Slots : valid'[s] => \E v \in Values : field'[s] = Whole(v)
        BY <1>3, <2>1 DEF WriteField
    <2>3. \A f \in 1..next : field'[target][f] = saving
        BY <1>3, <2>1 DEF WriteField
    <2> QED BY <1>3, <2>1, <2>2, <2>3 DEF WriteField
<1>4. CASE Validate
    <2>1. field[target] = Whole(saving)
        BY <1>4 DEF Validate, Whole
    <2>2. \A s \in Slots : valid'[s] => \E v \in Values : field'[s] = Whole(v)
        BY <1>4, <2>1 DEF Validate
    <2> QED BY <1>4, <2>1, <2>2 DEF Validate, Whole
<1>5. CASE WriteMarker
    BY <1>5 DEF WriteMarker
<1>6. CASE Interrupt
    BY <1>6 DEF Interrupt
<1>7. CASE UNCHANGED vars
    BY <1>7 DEF vars, Whole
<1> QED BY <1>1, <1>2, <1>3, <1>4, <1>5, <1>6, <1>7 DEF Next

\* Valid slots are whole, so is what is loaded from one of them.
LEMMA WholeWhenValid == SettingsInv => NeverMixed
<1> SUFFICES ASSUME SettingsInv PROVE NeverMixed
    OBVIOUS
<1>1. Primary \in Slots /\ 1 - Primary \in Slots
    BY DEF Primary, Slots
<1>2. \A s \in Slots : Readable(s) => \E v \in Values : field[s] = Whole(v)
    BY DEF SettingsInv, Readable
<1> QED BY <1>1, <1>2 DEF NeverMixed, Loaded, Whole

\* From a marked store a step leaves what is loaded, or shows all of the new.
LEMMA MarkedStep ==
    SettingsInv /\ [Next]_vars =>
        (marker # NoMarker => Loaded' \in {Loaded, Whole(saving)})
<1> SUFFICES ASSUME SettingsInv, [Next]_vars, marker # NoMarker
             PROVE  Loaded' \in {Loaded, Whole(saving)}
    OBVIOUS
<1> USE SettingsAssumption DEF SettingsInv, Slots, Step, NoMarker
<1>1. SettingsInv'
    BY SettingsNext
<1>2. Loaded = field[marker]
    BY DEF Loaded, Primary, Readable, Whole
<1>3. ASSUME marker' # NoMarker PROVE Loaded' = field'[marker']
    <2>1. Primary' = marker' /\ marker' \in {0, 1} /\ valid'[marker']
        BY <1>1, <1>3 DEF Primary
    <2>2. PICK v \in Values : field'[marker'] = Whole(v)
        BY <1>1, <2>1 DEF Whole
    <2>3. \A f \in 1..Fields : field'[marker'][f] # None
        BY <2>2 DEF Whole
    <2> QED BY <2>1, <2>3 DEF Loaded, Readable
<1>4. CASE WriteMarker
    BY <1>3, <1>4 DEF WriteMarker
<1>5. CASE marker' = marker /\ field'[marker] = field[marker]
    BY <1>2, <1>3, <1>5
<1>6. CASE Next /\ ~WriteMarker
    BY <1>5, <1>6
    DEF Next, BeginSave, Invalidate, WriteField, Validate, Interrupt
<1>7. CASE UNCHANGED vars
    BY <1>5, <1>7 DEF vars
<1> QED BY <1>4, <1>6, <1>7

\* A start never loads the network name of one provisioning with the token of
\* another, wherever power was lost in saveDeviceSettings.
THEOREM SettingsNeverMixed == Spec => []NeverMixed
BY SettingsInit, SettingsNext, WholeWhenValid, PTL DEF Spec

\* A provisioning of a device that was once provisioned to the end either takes
\* effect as a whole or leaves the device as it was.
THEOREM SettingsOnceMarked == Spec => OnceMarkedAtomic
BY SettingsInit, SettingsNext, MarkedStep, PTL DEF Spec, OnceMarkedAtomic

-----------------------------------------------------------------------------
(* Touch corrections: the inductive invariant.                             *)

\* The files a directory holds beyond what the worker counted.
Uncounted(held, count) == IF held > count THEN held - count ELSE 0

\* The types; what is in a directory is finite.
FeedbackTypes ==
    /\ boot \in used /\ used \subseteq BootIds /\ nextSeq \in 1..(MaxSeq + 1)
    /\ queue \in Seq(Ids) /\ Len(queue) <= QueueCapacity
    /\ copied \in Seq(Ids) /\ Len(copied) <= 1
    /\ wait \subseteq Ids /\ ready \subseteq Ids /\ bad \subseteq wait \cup ready
    /\ IsFiniteSet(wait) /\ IsFiniteSet(ready) /\ IsFiniteSet(dead)
    /\ dead \subseteq DeadNames
    /\ waitCount \in Nat /\ readyCount \in Nat
    /\ call \in Calls /\ probe \in Probes /\ halted \in BOOLEAN
    /\ net \subseteq Requests /\ labels \subseteq samples /\ samples \subseteq Ids
    /\ refusing \in BOOLEAN /\ restored \in 0..MaxRestores
    /\ faults \in 0..MaxFaults

\* A file is uncounted only by a rename that was reported as failed, and room
\* was looked for among those counted: of the files of two directories (held
\* and kept) and the counts of them (m and n).
CountBound(held, m, kept, n, f) ==
    LET more == Uncounted(held, m) + Uncounted(kept, n)
    IN  more <= f /\ m + n + more <= MaxFiles + f

LimitInv ==
    /\ Cardinality(dead) <= MaxDead
    /\ CountBound(Cardinality(wait), waitCount, Cardinality(ready), readyCount, faults)

\* A bundle stays where it is while its request is under way or its commit is
\* due, and the two never happen at once.
FileInv ==
    /\ wait \cap ready = {}
    /\ call # NoCall =>
           /\ copied = <<>>
           /\ call.req.kind = "evidence" => call.req.id \in wait
           /\ call.req.kind = "label" => call.req.id \in ready
    /\ copied # <<>> =>
           /\ queue # <<>> /\ copied = <<Head(queue)>>
           /\ Head(queue) \in wait \cup ready

\* What an unrestored server was sent, answered and holds.
ServerInv ==
    restored = 0 =>
        /\ ready \subseteq samples /\ acked \subseteq labels
        /\ \A r \in net : r.kind = "label" => r.id \in samples
        /\ call # NoCall =>
               /\ call.req.kind = "label" => call.req.id \in samples
               /\ call.at # "404"
               /\ call.at = "200" /\ call.req.kind = "evidence" =>
                      call.req.id \in samples
               /\ call.at = "200" /\ call.req.kind = "label" =>
                      call.req.id \in labels
        /\ \A d \in dead : d.code # 404

\* Every place a correction that was taken may be in.
Places == Queued \cup wait \cup ready \cup {d.id : d \in dead} \cup evicted
              \cup acked \cup lost

FeedbackInv ==
    /\ FeedbackTypes /\ LimitInv /\ FileInv /\ ServerInv
    /\ accepted \subseteq Places

-----------------------------------------------------------------------------
(* The first file and the oldest dead letter are among those there are.    *)

\* The bounds as single facts.
LEMMA FeedbackBounds ==
    /\ BootIds \subseteq Nat
    /\ QueueCapacity \in Nat \ {0} /\ MaxFiles \in Nat \ {0} /\ MaxDead \in Nat \ {0}
    /\ MaxSeq \in Nat /\ MaxFaults \in Nat /\ MaxRestores \in Nat
BY FeedbackAssumption

\* A set of numbers that is not empty has a least one.
LEMMA SmallestNumber ==
    ASSUME NEW S \in SUBSET Nat, S # {}
    PROVE  \E n \in S : \A m \in S : n <= m
<1> DEFINE R == {ss \in Nat \X Nat : ss[1] < ss[2]}
<1>1. IsWellFoundedOn(R, Nat)
    BY NatLessThanWellFounded DEF OpToRel
<1>2. PICK n \in S : \A m \in S : <<m, n>> \notin R
    <2> HIDE DEF R
    <2> QED BY <1>1, WFMin
<1>3. ASSUME NEW m \in S PROVE n <= m
    <2>1. <<m, n>> \notin R /\ <<m, n>> \in Nat \X Nat
        BY <1>2
    <2>2. ~(<<m, n>>[1] < <<m, n>>[2])
        BY <2>1, Zenon
    <2> QED BY <2>2
<1> QED BY <1>3

\* Identities are totally ordered: there is a first one.
LEMMA FirstIdentity ==
    ASSUME NEW S \in SUBSET Ids, S # {}
    PROVE  \E a \in S : \A b \in S : a = b \/ Before(a, b)
<1>1. ASSUME NEW a \in Ids PROVE a.boot \in Nat /\ a.seq \in Nat
    <2>1. a.boot \in BootIds /\ a.seq \in 1..MaxSeq
        BY DEF Ids
    <2>2. BootIds \subseteq Nat
        BY FeedbackBounds
    <2>3. a.seq \in Nat
        BY <2>1, FeedbackBounds
    <2> QED BY <2>1, <2>2, <2>3
<1>2. PICK n \in {a.boot : a \in S} : \A m \in {a.boot : a \in S} : n <= m
    <2>1. {a.boot : a \in S} \in SUBSET Nat /\ {a.boot : a \in S} # {}
        BY <1>1
    <2> QED BY <2>1, SmallestNumber
<1>3. PICK k \in {a.seq : a \in {b \in S : b.boot = n}} :
          \A m \in {a.seq : a \in {b \in S : b.boot = n}} : k <= m
    <2>1. /\ {a.seq : a \in {b \in S : b.boot = n}} \in SUBSET Nat
          /\ {a.seq : a \in {b \in S : b.boot = n}} # {}
        BY <1>1, <1>2
    <2> QED BY <2>1, SmallestNumber
<1>4. PICK a \in S : a.boot = n /\ a.seq = k
    BY <1>3
<1>5. ASSUME NEW b \in S PROVE a = b \/ Before(a, b)
    <2>1. a.boot \in Nat /\ a.seq \in Nat /\ b.boot \in Nat /\ b.seq \in Nat
        BY <1>1
    <2>2. n <= b.boot /\ (b.boot = n => k <= b.seq)
        BY <1>2, <1>3
    <2>3. a.boot = b.boot /\ a.seq = b.seq => a = b
        BY DEF Ids
    <2> QED BY <1>4, <2>1, <2>2, <2>3 DEF Before
<1> QED BY <1>5

\* findNextFeedbackSpool returns a file of the directory.
LEMMA FirstFileHeld ==
    ASSUME NEW dir \in SUBSET Ids, dir # {}
    PROVE  FirstFile(dir) \in dir
BY FirstIdentity DEF FirstFile

\* There is an oldest dead letter.
LEMMA OldestDeadHeld ==
    ASSUME dead \subseteq DeadNames, dead # {}
    PROVE  OldestDead \in dead
<1> DEFINE Stage == IF \E d \in dead : d.stage = "ready" THEN "ready" ELSE "wait"
           OfStage == {d \in dead : d.stage = Stage}
<1>1. \A d \in dead : /\ d.code \in Nat /\ d.id \in Ids
                      /\ d.stage \in {"ready", "wait"}
    BY DEF DeadNames
<1>2. OfStage # {}
    BY <1>1
<1>3. PICK n \in {d.code : d \in OfStage} : \A m \in {d.code : d \in OfStage} : n <= m
    <2>1. {d.code : d \in OfStage} \in SUBSET Nat /\ {d.code : d \in OfStage} # {}
        BY <1>1, <1>2
    <2> HIDE DEF OfStage
    <2> QED BY <2>1, SmallestNumber
<1> DEFINE OfCode == {d \in OfStage : d.code = n}
<1>4. PICK a \in {d.id : d \in OfCode} :
          \A b \in {d.id : d \in OfCode} : a = b \/ Before(a, b)
    <2>1. {d.id : d \in OfCode} \in SUBSET Ids /\ {d.id : d \in OfCode} # {}
        BY <1>1, <1>3
    <2> HIDE DEF OfCode
    <2> QED BY <2>1, FirstIdentity
<1>5. PICK x \in OfCode : x.id = a
    BY <1>4
<1>6. ASSUME NEW b \in dead PROVE x = b \/ DeadBefore(x, b)
    <2>1. x \in dead /\ x.stage = Stage /\ x.code = n
        BY <1>5
    <2>2. CASE b.stage # Stage
        BY <1>1, <2>1, <2>2 DEF DeadBefore
    <2>3. CASE b.stage = Stage /\ b.code # n
        <3>1. n <= b.code
            BY <1>3, <2>3
        <3> QED BY <1>1, <2>1, <2>3, <3>1 DEF DeadBefore
    <2>4. CASE b.stage = Stage /\ b.code = n
        <3>1. x.id = b.id \/ Before(x.id, b.id)
            BY <1>4, <1>5, <2>4
        <3>2. x.id = b.id => x = b
            BY <2>1, <2>4 DEF DeadNames
        <3> QED BY <2>1, <2>4, <3>1, <3>2 DEF DeadBefore
    <2> QED BY <2>2, <2>3, <2>4
<1>7. x \in dead
    BY <1>5
<1> QED BY <1>6, <1>7 DEF OldestDead

-----------------------------------------------------------------------------
(* What the actions do.                                                    *)

\* A count goes down by one but never below zero.
Lower(count) == IF count > 0 THEN count - 1 ELSE 0

Codes  == {0, 404, 409, 422}
Stages == {"ready", "wait"}

\* The main loop's queue and the worker's copy change only here.
LEMMA DeviceSteps ==
    ASSUME [FeedbackNext]_feedbackVars
    PROVE  \/ UNCHANGED device
           \/ Push \/ FreezeNew \/ FreezeExisting \/ CommitPrefix \/ Restart
BY DEF FeedbackNext, feedbackVars, device, Post, PostLabel, PostEvidence,
       DropUnreadable, Ingest, CreateFeedback, Refuse, Restore, Repair, GiveUp,
       EvidenceStored, LabelStored, Unauthorized, BeginProbe, EvidenceRefused,
       LabelRefused, CompareConfig, Decay

\* Flash and the worker's counts change only here.
LEMMA FileSteps ==
    ASSUME [FeedbackNext]_feedbackVars
    PROVE  \/ UNCHANGED files
           \/ FreezeNew \/ DropUnreadable \/ EvidenceStored \/ LabelStored
           \/ EvidenceRefused \/ LabelRefused \/ Restart \/ Decay
BY DEF FeedbackNext, feedbackVars, files, Push, FreezeExisting, CommitPrefix, Post,
       PostLabel, PostEvidence, Ingest, CreateFeedback, Refuse, Restore, Repair,
       GiveUp, Unauthorized, BeginProbe, CompareConfig

\* The server's rows and its answers change only here.
LEMMA ServerSteps ==
    ASSUME [FeedbackNext]_feedbackVars
    PROVE  \/ UNCHANGED server
           \/ PostLabel \/ PostEvidence \/ Ingest \/ CreateFeedback \/ Refuse
           \/ Restore \/ Repair
BY DEF FeedbackNext, feedbackVars, server, Push, FreezeNew, FreezeExisting,
       CommitPrefix, DropUnreadable, GiveUp, EvidenceStored, LabelStored,
       Unauthorized, BeginProbe, EvidenceRefused, LabelRefused, CompareConfig,
       Restart, Decay

\* What is under way when the worker waits for an answer or has one.
LEMMA CallFields ==
    ASSUME call \in Calls
    PROVE  /\ call = NoCall <=> call.at = "none"
           /\ call # NoCall =>
                  /\ call \in [at : {"sent", "200", "401", "404", "409", "422"},
                               req : Requests]
                  /\ call.req \in Requests /\ call.req.id \in Ids
                  /\ call.req.kind \in {"evidence", "label"}
BY DEF Calls, NoCall, Requests

\* An answer reaches the worker only if it still waits for it.
LEMMA AnswerOutcome ==
    ASSUME call \in Calls, NEW req \in Requests,
           NEW code \in {"200", "401", "404", "409", "422"}, Answer(req, code)
    PROVE  /\ call' \in Calls
           /\ \/ call' = call
              \/ /\ call # NoCall /\ call.at = "sent" /\ call.req = req
                 /\ call' # NoCall /\ call'.at = code /\ call'.req = req
<1>1. CASE call.at = "sent" /\ call.req = req
    <2>1. call # NoCall
        BY <1>1, CallFields
    <2>2. call' = [call EXCEPT !.at = code]
        BY <1>1 DEF Answer
    <2>3. call'.at = code /\ call'.req = req
          /\ call' \in [at : {"sent", "200", "401", "404", "409", "422"}, req : Requests]
        BY <1>1, <2>1, <2>2, CallFields
    <2> QED BY <1>1, <2>1, <2>3 DEF Calls, NoCall
<1>2. CASE ~(call.at = "sent" /\ call.req = req)
    BY <1>2 DEF Answer
<1> QED BY <1>1, <1>2

\* Making room takes the oldest dead letter when there is none.
LEMMA RoomMade ==
    ASSUME FeedbackTypes, Cardinality(dead) <= MaxDead
    PROVE  /\ WithoutOldest \subseteq dead /\ IsFiniteSet(WithoutOldest)
           /\ Cardinality(WithoutOldest) < MaxDead
<1>1. /\ Cardinality(dead) \in Nat /\ MaxDead \in Nat \ {0} /\ IsFiniteSet(dead)
      /\ dead \subseteq DeadNames
    BY FS_CardinalityType, FeedbackBounds DEF FeedbackTypes
<1>2. CASE Cardinality(dead) >= MaxDead
    <2>1. dead # {}
        BY <1>1, <1>2, FS_EmptySet
    <2>2. OldestDead \in dead
        BY <1>1, <2>1, OldestDeadHeld
    <2>3. WithoutOldest = dead \ {OldestDead}
        BY <1>2 DEF WithoutOldest
    <2>4. IsFiniteSet(WithoutOldest) /\ Cardinality(WithoutOldest) = Cardinality(dead) - 1
        BY <1>1, <2>2, <2>3, FS_RemoveElement
    <2> QED BY <1>1, <2>3, <2>4
<1>3. CASE ~(Cardinality(dead) >= MaxDead)
    BY <1>1, <1>3 DEF WithoutOldest
<1> QED BY <1>2, <1>3

\* What a bundle's move to the dead letters does, and a failed one.
LEMMA MoveOutcome ==
    ASSUME FeedbackTypes, Cardinality(dead) <= MaxDead, NEW dir \in Stages,
           NEW id \in Ids, NEW code \in Codes, MoveToDead(dir, id, code)
    PROVE  /\ evicted' = Evicted
           /\ dead' \subseteq DeadNames /\ IsFiniteSet(dead')
           /\ Cardinality(dead') <= MaxDead
           /\ \A d \in dead' : d \in dead \/ d.code = code
           /\ \A d \in dead : d \in dead' \/ d.id \in evicted'
           /\ evicted \subseteq evicted'
           /\ \/ /\ faults < MaxFaults /\ faults' = faults + 1
                 /\ UNCHANGED <<wait, ready, bad, waitCount, readyCount, probe>>
              \/ /\ faults' = faults /\ bad' = bad \ {id}
                 /\ id \in {d.id : d \in dead'} /\ probe' \in Probes
                 /\ \/ /\ dir = "ready" /\ ready' = ready \ {id}
                       /\ readyCount' = Lower(readyCount)
                       /\ UNCHANGED <<wait, waitCount>>
                    \/ /\ dir = "wait" /\ wait' = wait \ {id}
                       /\ waitCount' = Lower(waitCount)
                       /\ UNCHANGED <<ready, readyCount>>
<1> DEFINE new == [stage |-> dir, code |-> code, id |-> id]
<1>1. /\ WithoutOldest \subseteq dead /\ IsFiniteSet(WithoutOldest)
      /\ Cardinality(WithoutOldest) < MaxDead
    BY RoomMade
<1>2. dead \subseteq DeadNames /\ probe \in Probes
    BY DEF FeedbackTypes
<1>3. evicted' = Evicted
    BY DEF MoveToDead
<1>4. dead' = WithoutOldest \/ dead' = WithoutOldest \cup {new}
    BY DEF MoveToDead
<1>5. new \in DeadNames /\ new.code = code /\ new.id = id
    BY DEF DeadNames, Codes, Stages
<1> HIDE DEF new
<1>6. IsFiniteSet(dead') /\ Cardinality(dead') <= MaxDead
    <2>1. CASE dead' = WithoutOldest
        <3>1. Cardinality(WithoutOldest) \in Nat
            BY <1>1, FS_CardinalityType
        <3> QED BY <1>1, <2>1, <3>1, FeedbackBounds
    <2>2. CASE dead' = WithoutOldest \cup {new}
        <3>1. Cardinality(WithoutOldest) \in Nat
            BY <1>1, FS_CardinalityType
        <3>2. /\ IsFiniteSet(dead')
              /\ \/ Cardinality(dead') = Cardinality(WithoutOldest)
                 \/ Cardinality(dead') = Cardinality(WithoutOldest) + 1
            BY <1>1, <2>2, FS_AddElement
        <3> QED BY <1>1, <3>1, <3>2, FeedbackBounds
    <2> QED BY <1>4, <2>1, <2>2
<1>7. \A d \in dead' : d \in dead \/ d.code = code
    BY <1>1, <1>4, <1>5
<1>8. ASSUME NEW d \in dead PROVE d \in dead' \/ d.id \in evicted'
    BY <1>3, <1>4 DEF Evicted
<1>9. dead' \subseteq DeadNames
    BY <1>1, <1>2, <1>4, <1>5
<1>10. evicted \subseteq evicted'
    BY <1>3 DEF Evicted
<1>11. ASSUME ClearProbe(id) PROVE probe' \in Probes
    BY <1>2, <1>11 DEF ClearProbe, Probes
<1>12. \/ /\ faults < MaxFaults /\ faults' = faults + 1
          /\ UNCHANGED <<wait, ready, bad, waitCount, readyCount, probe>>
       \/ /\ faults' = faults /\ bad' = bad \ {id} /\ dead' = WithoutOldest \cup {new}
          /\ \/ /\ dir = "ready" /\ ready' = ready \ {id}
                /\ readyCount' = Lower(readyCount)
                /\ UNCHANGED <<wait, waitCount, probe>>
             \/ /\ dir = "wait" /\ wait' = wait \ {id}
                /\ waitCount' = Lower(waitCount)
                /\ UNCHANGED <<ready, readyCount>>
                /\ UNCHANGED probe \/ ClearProbe(id)
    BY DEF MoveToDead, Fault, Lower, Stages, new
<1>13. dead' = WithoutOldest \cup {new} => id \in {d.id : d \in dead'}
    BY <1>5
<1> QED BY <1>2, <1>3, <1>6, <1>7, <1>8, <1>9, <1>10, <1>11, <1>12, <1>13

-----------------------------------------------------------------------------
(* The types are kept.                                                     *)

\* The identities, the queue and the copy.
LEMMA DeviceTypes ==
    ASSUME FeedbackTypes, [FeedbackNext]_feedbackVars
    PROVE  /\ boot' \in used' /\ used' \subseteq BootIds
           /\ nextSeq' \in 1..(MaxSeq + 1)
           /\ queue' \in Seq(Ids) /\ Len(queue') <= QueueCapacity
           /\ copied' \in Seq(Ids) /\ Len(copied') <= 1
<1>0. /\ boot \in used /\ used \subseteq BootIds /\ nextSeq \in 1..(MaxSeq + 1)
      /\ queue \in Seq(Ids) /\ Len(queue) <= QueueCapacity /\ Len(queue) \in Nat
      /\ copied \in Seq(Ids) /\ Len(copied) <= 1
    BY DEF FeedbackTypes
<1>1. Prefix \in Seq(Ids) /\ Len(Prefix) <= 1
    <2>1. CASE queue = <<>>
        BY <2>1, EmptySeq DEF Prefix
    <2>2. CASE queue # <<>>
        BY <1>0, <2>2 DEF Prefix
    <2> QED BY <2>1, <2>2
<1>2. <<>> \in Seq(Ids) /\ Len(<<>>) = 0
    BY EmptySeq
<1>3. CASE UNCHANGED device
    BY <1>0, <1>3 DEF device
<1>4. CASE Push
    <2> DEFINE id == [boot |-> boot, seq |-> nextSeq]
    <2>1. /\ nextSeq <= MaxSeq /\ nextSeq' = nextSeq + 1 /\ queue' = Stored(id)
          /\ UNCHANGED <<boot, used, copied>>
        BY <1>4 DEF Push
    <2>2. nextSeq \in 1..MaxSeq
        BY <1>0, <2>1, FeedbackBounds
    <2>3. id \in Ids
        BY <1>0, <2>2 DEF Ids
    <2> HIDE DEF id
    <2>4. queue' \in Seq(Ids) /\ Len(queue') <= QueueCapacity
        BY <1>0, <2>1, <2>3, FeedbackBounds DEF Stored
    <2>5. nextSeq' \in 1..(MaxSeq + 1)
        BY <2>1, <2>2, FeedbackBounds
    <2> QED BY <1>0, <2>1, <2>4, <2>5
<1>5. CASE FreezeNew
    BY <1>0, <1>1, <1>5 DEF FreezeNew
<1>6. CASE FreezeExisting
    BY <1>0, <1>1, <1>6 DEF FreezeExisting
<1>7. CASE CommitPrefix
    <2>1. queue' = Committed(copied) /\ copied' = <<>>
          /\ UNCHANGED <<boot, used, nextSeq>> /\ copied # <<>>
        BY <1>7 DEF CommitPrefix
    <2>2. CASE copied = Prefix
        <3>1. queue # <<>> /\ queue' = Tail(queue)
            BY <2>1, <2>2 DEF Prefix, Committed
        <3> QED BY <1>0, <1>2, <2>1, <3>1, FeedbackBounds
    <2>3. CASE copied # Prefix
        BY <1>0, <1>2, <2>1, <2>3 DEF Committed
    <2> QED BY <2>2, <2>3
<1>8. CASE Restart
    <2>1. /\ boot' \in BootIds /\ used' = used \cup {boot'} /\ nextSeq' = 1
          /\ queue' = <<>> /\ copied' = <<>>
        BY <1>8 DEF Restart
    <2> QED BY <1>0, <1>2, <2>1, FeedbackBounds
<1> QED BY <1>3, <1>4, <1>5, <1>6, <1>7, <1>8, DeviceSteps

\* The files, the dead letters and the counts.
LEMMA FileTypes ==
    ASSUME FeedbackTypes, LimitInv, FileInv, [FeedbackNext]_feedbackVars
    PROVE  /\ wait' \subseteq Ids /\ ready' \subseteq Ids
           /\ bad' \subseteq wait' \cup ready'
           /\ IsFiniteSet(wait') /\ IsFiniteSet(ready') /\ IsFiniteSet(dead')
           /\ dead' \subseteq DeadNames /\ Cardinality(dead') <= MaxDead
           /\ waitCount' \in Nat /\ readyCount' \in Nat
           /\ faults' \in 0..MaxFaults
<1>0. /\ wait \subseteq Ids /\ ready \subseteq Ids /\ bad \subseteq wait \cup ready
      /\ IsFiniteSet(wait) /\ IsFiniteSet(ready) /\ IsFiniteSet(dead)
      /\ dead \subseteq DeadNames
      /\ waitCount \in Nat /\ readyCount \in Nat
      /\ call \in Calls /\ faults \in 0..MaxFaults /\ MaxFaults \in Nat
      /\ queue \in Seq(Ids)
    BY FeedbackBounds DEF FeedbackTypes
<1>1. Cardinality(dead) <= MaxDead
    BY DEF LimitInv
<1>2. \A n \in Nat : Lower(n) \in Nat /\ n + 1 \in Nat
    BY DEF Lower
<1>3. Fault => faults' \in 0..MaxFaults
    BY <1>0 DEF Fault
<1>4. \A S, x : IsFiniteSet(S) => IsFiniteSet(S \cup {x}) /\ IsFiniteSet(S \ {x})
    BY FS_AddElement, FS_RemoveElement
<1>5. CASE UNCHANGED files
    BY <1>0, <1>1, <1>5 DEF files
<1>6. CASE FreezeNew
    <2>1. Head(queue) \in Ids
        BY <1>0, <1>6 DEF FreezeNew
    <2>2. /\ wait' = wait \cup {Head(queue)} /\ UNCHANGED <<ready, bad, dead, readyCount>>
          /\ waitCount' \in {waitCount, waitCount + 1}
          /\ faults' = faults \/ Fault
        BY <1>6 DEF FreezeNew
    <2> QED BY <1>0, <1>1, <1>2, <1>3, <1>4, <2>1, <2>2
<1>7. ASSUME NEW dir \in Stages, NEW id \in Ids, NEW code \in Codes,
             MoveToDead(dir, id, code)
      PROVE  /\ wait' \subseteq Ids /\ ready' \subseteq Ids
             /\ IsFiniteSet(wait') /\ IsFiniteSet(ready') /\ IsFiniteSet(dead')
             /\ dead' \subseteq DeadNames /\ Cardinality(dead') <= MaxDead
             /\ waitCount' \in Nat /\ readyCount' \in Nat
             /\ faults' \in 0..MaxFaults /\ bad' \subseteq wait' \cup ready'
    <2>1. /\ dead' \subseteq DeadNames /\ IsFiniteSet(dead')
          /\ Cardinality(dead') <= MaxDead
          /\ \/ /\ faults < MaxFaults /\ faults' = faults + 1
                /\ UNCHANGED <<wait, ready, bad, waitCount, readyCount>>
             \/ /\ faults' = faults /\ bad' = bad \ {id}
                /\ \/ /\ ready' = ready \ {id} /\ readyCount' = Lower(readyCount)
                      /\ UNCHANGED <<wait, waitCount>>
                   \/ /\ wait' = wait \ {id} /\ waitCount' = Lower(waitCount)
                      /\ UNCHANGED <<ready, readyCount>>
        BY <1>1, <1>7, MoveOutcome
    <2>2. faults' \in 0..MaxFaults
        BY <1>0, <2>1
    <2>3. waitCount' \in Nat /\ readyCount' \in Nat
        BY <1>0, <1>2, <2>1
    <2>4. IsFiniteSet(wait \ {id}) /\ IsFiniteSet(ready \ {id})
        BY <1>0, FS_RemoveElement
    <2>5. wait' \in {wait, wait \ {id}} /\ ready' \in {ready, ready \ {id}}
        BY <2>1
    <2>6. IsFiniteSet(wait') /\ IsFiniteSet(ready')
        BY <1>0, <2>4, <2>5, Zenon
    <2>7. wait' \subseteq Ids /\ ready' \subseteq Ids /\ bad' \subseteq wait' \cup ready'
        BY <1>0, <2>1
    <2> QED BY <2>1, <2>2, <2>3, <2>6, <2>7
<1>8. CASE DropUnreadable
    <2>1. PICK dir \in Stages, id \in Ids : MoveToDead(dir, id, 0)
        BY <1>0, <1>8, FirstFileHeld DEF DropUnreadable, Stages
    <2> QED BY <1>7, <2>1 DEF Codes
<1>9. CASE EvidenceRefused
    <2>1. call.req.id \in Ids
        BY <1>0, <1>9, CallFields DEF EvidenceRefused, Answered
    <2>2. \E code \in Codes : MoveToDead("wait", call.req.id, code)
        BY <1>9 DEF EvidenceRefused, Codes
    <2> QED BY <1>7, <2>1, <2>2 DEF Stages
<1>10. CASE LabelRefused
    <2>1. call.req.id \in Ids
        BY <1>0, <1>10, CallFields DEF LabelRefused, Answered
    <2>2. \E code \in Codes : MoveToDead("ready", call.req.id, code)
        BY <1>10 DEF LabelRefused, Codes
    <2> QED BY <1>7, <2>1, <2>2 DEF Stages
<1>11. CASE EvidenceStored
    <2>1. call.req.id \in Ids
        BY <1>0, <1>11, CallFields DEF EvidenceStored, Answered
    <2>2. /\ UNCHANGED <<bad, dead>>
          /\ \/ UNCHANGED <<wait, ready>>
             \/ wait' = wait \ {call.req.id} /\ ready' = ready \cup {call.req.id}
          /\ waitCount' \in {waitCount, Lower(waitCount)}
          /\ readyCount' \in {readyCount, readyCount + 1}
          /\ faults' = faults \/ Fault
        BY <1>11 DEF EvidenceStored, Lower
    <2>3. waitCount' \in Nat /\ readyCount' \in Nat /\ faults' \in 0..MaxFaults
        BY <1>0, <1>2, <1>3, <2>2
    <2>4. IsFiniteSet(wait \ {call.req.id}) /\ IsFiniteSet(ready \cup {call.req.id})
        BY <1>0, FS_AddElement, FS_RemoveElement
    <2>5. /\ wait' \in {wait, wait \ {call.req.id}}
          /\ ready' \in {ready, ready \cup {call.req.id}}
        BY <2>2
    <2>6. IsFiniteSet(wait') /\ IsFiniteSet(ready')
        BY <1>0, <2>4, <2>5, Zenon
    <2>7. wait' \subseteq Ids /\ ready' \subseteq Ids /\ bad' \subseteq wait' \cup ready'
        BY <1>0, <2>1, <2>2
    <2> QED BY <1>0, <1>1, <2>2, <2>3, <2>6, <2>7
<1>12. CASE LabelStored
    <2>1. /\ UNCHANGED <<wait, dead, waitCount>>
          /\ ready' = ready \ {call.req.id} /\ bad' = bad \ {call.req.id}
          /\ readyCount' \in {readyCount, Lower(readyCount)}
          /\ faults' = faults \/ Fault
        BY <1>12 DEF LabelStored, Lower
    <2>2. waitCount' \in Nat /\ readyCount' \in Nat /\ faults' \in 0..MaxFaults
        BY <1>0, <1>2, <1>3, <2>1
    <2>3. IsFiniteSet(ready')
        BY <1>0, <1>4, <2>1
    <2> QED BY <1>0, <1>1, <2>1, <2>2, <2>3
<1>13. CASE Restart
    <2>1. /\ UNCHANGED <<wait, ready, bad, dead, faults>>
          /\ waitCount' = Cardinality(wait) /\ readyCount' = Cardinality(ready)
        BY <1>13 DEF Restart
    <2> QED BY <1>0, <1>1, <2>1, FS_CardinalityType
<1>14. CASE Decay
    <2>1. /\ UNCHANGED <<wait, ready, dead, waitCount, readyCount>> /\ Fault
          /\ \E id \in wait \cup ready : bad' = bad \cup {id}
        BY <1>14 DEF Decay
    <2> QED BY <1>0, <1>1, <1>3, <2>1
<1> QED BY <1>5, <1>6, <1>8, <1>9, <1>10, <1>11, <1>12, <1>13, <1>14, FileSteps

\* The request, the server's rows and the rest of the worker.
LEMMA ServerTypes ==
    ASSUME FeedbackTypes, LimitInv, [FeedbackNext]_feedbackVars
    PROVE  /\ call' \in Calls /\ probe' \in Probes /\ halted' \in BOOLEAN
           /\ net' \subseteq Requests /\ labels' \subseteq samples'
           /\ samples' \subseteq Ids
           /\ refusing' \in BOOLEAN /\ restored' \in 0..MaxRestores
<1>0. /\ call \in Calls /\ probe \in Probes /\ halted \in BOOLEAN
      /\ net \subseteq Requests /\ labels \subseteq samples /\ samples \subseteq Ids
      /\ refusing \in BOOLEAN /\ restored \in 0..MaxRestores
      /\ wait \subseteq Ids /\ ready \subseteq Ids /\ MaxRestores \in Nat
    BY FeedbackBounds DEF FeedbackTypes
<1>1. NoCall \in Calls /\ [of |-> "none"] \in Probes
    BY DEF Calls, Probes
<1>2. ASSUME UNCHANGED server
      PROVE  /\ net' \subseteq Requests /\ labels' \subseteq samples'
             /\ samples' \subseteq Ids
             /\ refusing' \in BOOLEAN /\ restored' \in 0..MaxRestores
    BY <1>0, <1>2 DEF server
<1>3. ASSUME NEW dir \in Stages, NEW id \in Ids, NEW code \in Codes,
             MoveToDead(dir, id, code)
      PROVE  probe' \in Probes
    <2>1. Cardinality(dead) <= MaxDead
        BY DEF LimitInv
    <2>2. UNCHANGED probe \/ probe' \in Probes
        BY <1>3, <2>1, MoveOutcome
    <2> QED BY <1>0, <2>2
<1>4. \A id : ClearProbe(id) => probe' \in Probes
    BY <1>0, <1>1 DEF ClearProbe
<1>5. CASE PostLabel \/ PostEvidence
    <2>1. PICK kind \in {"evidence", "label"}, id \in Ids : Post(kind, id)
        BY <1>0, <1>5, FirstFileHeld DEF PostLabel, PostEvidence
    <2> DEFINE req == [kind |-> kind, id |-> id]
    <2>2. req \in Requests
        BY DEF Requests
    <2>3. /\ call' = [at |-> "sent", req |-> req] /\ net' = net \cup {req}
          /\ UNCHANGED <<probe, halted, samples, labels, refusing, restored>>
        BY <2>1 DEF Post
    <2> HIDE DEF req
    <2>4. call' \in Calls
        BY <2>2, <2>3 DEF Calls
    <2> QED BY <1>0, <2>2, <2>3, <2>4
<1>6. CASE Ingest
    <2>1. PICK req \in net :
              /\ req.kind = "evidence" /\ net' = net \ {req}
              /\ \/ Answer(req, "409") /\ UNCHANGED samples
                 \/ Answer(req, "200") /\ samples' = samples \cup {req.id}
              /\ UNCHANGED <<probe, halted, labels, refusing, restored>>
        BY <1>6 DEF Ingest
    <2>2. req \in Requests /\ req.id \in Ids
        BY <1>0 DEF Requests
    <2>3. call' \in Calls
        BY <1>0, <2>1, <2>2, AnswerOutcome
    <2> QED BY <1>0, <2>1, <2>2, <2>3
<1>7. CASE CreateFeedback
    <2>1. PICK req \in net :
              /\ net' = net \ {req}
              /\ \/ /\ req.id \in labels \cup samples
                    /\ Answer(req, "200") /\ labels' = labels \cup {req.id}
                 \/ Answer(req, "404") /\ UNCHANGED labels
              /\ UNCHANGED <<probe, halted, samples, refusing, restored>>
        BY <1>7 DEF CreateFeedback
    <2>2. req \in Requests
        BY <1>0
    <2>3. call' \in Calls
        BY <1>0, <2>1, <2>2, AnswerOutcome
    <2> QED BY <1>0, <2>1, <2>3
<1>8. CASE Refuse
    <2>1. /\ call.at = "sent" /\ net' = net \ {call.req}
          /\ \E code \in {"401", "422"} : call' = [call EXCEPT !.at = code]
          /\ UNCHANGED <<probe, halted, samples, labels, refusing, restored>>
        BY <1>8 DEF Refuse
    <2>2. call \in [at : {"sent", "200", "401", "404", "409", "422"}, req : Requests]
        BY <1>0, <2>1, CallFields
    <2>3. call' \in Calls
        BY <2>1, <2>2 DEF Calls
    <2> QED BY <1>0, <2>1, <2>3
<1>9. CASE Restore
    <2>1. /\ restored < MaxRestores /\ restored' = restored + 1
          /\ samples' \subseteq samples /\ labels' \subseteq labels \cap samples'
          /\ refusing' \in BOOLEAN /\ UNCHANGED <<call, probe, halted, net>>
        BY <1>9 DEF Restore, worker
    <2> QED BY <1>0, <2>1
<1>10. CASE Repair
    <2>1. /\ refusing' = FALSE
          /\ UNCHANGED <<call, probe, halted, net, samples, labels, restored>>
        BY <1>10 DEF Repair, worker
    <2> QED BY <1>0, <2>1
<1>11. CASE UNCHANGED server
    <2>1. CASE DropUnreadable
        <3>1. PICK dir \in Stages, id \in Ids : MoveToDead(dir, id, 0)
            BY <1>0, <2>1, FirstFileHeld DEF DropUnreadable, Stages
        <3>2. probe' \in Probes
            BY <1>3, <3>1 DEF Codes
        <3>3. UNCHANGED <<call, halted>>
            BY <2>1 DEF DropUnreadable
        <3> QED BY <1>0, <1>2, <1>11, <3>2, <3>3
    <2>2. CASE EvidenceRefused \/ LabelRefused
        <3>1. call.req.id \in Ids
            BY <1>0, <2>2, CallFields DEF EvidenceRefused, LabelRefused, Answered
        <3>2. \E dir \in Stages, code \in Codes : MoveToDead(dir, call.req.id, code)
            BY <2>2 DEF EvidenceRefused, LabelRefused, Codes, Stages
        <3>3. probe' \in Probes
            BY <1>3, <3>1, <3>2
        <3>4. call' = NoCall /\ UNCHANGED halted
            BY <2>2 DEF EvidenceRefused, LabelRefused
        <3> QED BY <1>0, <1>1, <1>2, <1>11, <3>3, <3>4
    <2>3. CASE EvidenceStored
        <3>1. call' = NoCall /\ UNCHANGED halted
              /\ (UNCHANGED probe \/ ClearProbe(call.req.id))
            BY <2>3 DEF EvidenceStored
        <3> QED BY <1>0, <1>1, <1>2, <1>4, <1>11, <3>1
    <2>4. CASE BeginProbe
        <3>1. call.req.id \in Ids
            BY <1>0, <2>4, CallFields DEF BeginProbe, Answered
        <3>2. /\ call' = NoCall /\ UNCHANGED halted
              /\ probe' = [of |-> "batch", id |-> call.req.id, validated |-> FALSE]
            BY <2>4 DEF BeginProbe
        <3>3. probe' \in Probes
            BY <3>1, <3>2 DEF Probes
        <3> QED BY <1>0, <1>1, <1>2, <1>11, <3>2, <3>3
    <2>5. CASE CompareConfig
        <3>1. /\ UNCHANGED call /\ probe.of = "batch"
              /\ \/ halted' = TRUE /\ UNCHANGED probe
                 \/ probe' = [probe EXCEPT !.validated = TRUE] /\ UNCHANGED halted
            BY <2>5 DEF CompareConfig
        <3>2. probe \in [of : {"batch"}, id : Ids, validated : BOOLEAN]
            BY <1>0, <3>1 DEF Probes
        <3>3. probe' \in Probes
            BY <1>0, <3>1, <3>2 DEF Probes
        <3> QED BY <1>0, <1>2, <1>11, <3>1, <3>3
    <2>6. CASE LabelStored \/ GiveUp
        BY <1>0, <1>1, <1>2, <1>11, <2>6 DEF LabelStored, GiveUp
    <2>7. CASE Unauthorized
        BY <1>0, <1>1, <1>2, <1>11, <2>7 DEF Unauthorized
    <2>8. CASE Restart
        BY <1>0, <1>1, <1>2, <1>11, <2>8 DEF Restart
    <2>9. CASE Push \/ FreezeNew \/ FreezeExisting \/ CommitPrefix \/ Decay
              \/ UNCHANGED feedbackVars
        <3>1. UNCHANGED worker
            BY <2>9 DEF Push, FreezeNew, FreezeExisting, CommitPrefix, Decay, feedbackVars
        <3> QED BY <1>0, <1>2, <1>11, <3>1 DEF worker
    <2> QED BY <1>5, <1>6, <1>7, <1>8, <1>9, <1>10, <2>1, <2>2, <2>3, <2>4, <2>5, <2>6,
               <2>7, <2>8, <2>9 DEF FeedbackNext
<1> QED BY <1>5, <1>6, <1>7, <1>8, <1>9, <1>10, <1>11, ServerSteps

\* The types are kept by every step.
LEMMA TypesKept ==
    ASSUME FeedbackTypes, LimitInv, FileInv, [FeedbackNext]_feedbackVars
    PROVE  FeedbackTypes'
BY DeviceTypes, FileTypes, ServerTypes DEF FeedbackTypes

-----------------------------------------------------------------------------
(* The counts.                                                             *)

\* What a step does to the files of the two directories (held and kept), to
\* the counts of them (m and n) and to the faults.
CountStep(held, m, kept, n, f, held1, m1, kept1, n1, f1) ==
    \/ held1 = held /\ kept1 = kept /\ m1 = m /\ n1 = n /\ f1 \in {f, f + 1}
    \/ held1 = held /\ kept1 = kept /\ m1 = held /\ n1 = kept /\ f1 = f
    \/ /\ m + n < MaxFiles
       /\ held1 = held + 1 /\ kept1 = kept /\ n1 = n
       /\ (m1 = m + 1 /\ f1 = f) \/ (m1 = m /\ f1 = f + 1)
    \/ /\ held > 0 /\ held1 = held - 1 /\ kept1 = kept /\ n1 = n
       /\ m1 = Lower(m) /\ f1 = f
    \/ /\ kept > 0 /\ kept1 = kept - 1 /\ held1 = held /\ m1 = m
       /\ (n1 = Lower(n) /\ f1 = f) \/ (n1 = n /\ f1 = f + 1)
    \/ /\ held > 0 /\ held1 = held - 1 /\ kept1 = kept + 1
       /\ (m1 = Lower(m) /\ n1 = n + 1 /\ f1 = f) \/ (m1 = m /\ n1 = n /\ f1 = f + 1)

\* Such a step uncounts no more files than there are faults.
LEMMA CountsKept ==
    ASSUME NEW held \in Nat, NEW m \in Nat, NEW kept \in Nat, NEW n \in Nat, NEW f \in Nat,
           NEW held1, NEW m1, NEW kept1, NEW n1, NEW f1,
           CountBound(held, m, kept, n, f),
           CountStep(held, m, kept, n, f, held1, m1, kept1, n1, f1)
    PROVE  CountBound(held1, m1, kept1, n1, f1)
<1>0. MaxFiles \in Nat
    BY FeedbackBounds
<1>1. CASE held1 = held /\ kept1 = kept /\ m1 = m /\ n1 = n /\ f1 \in {f, f + 1}
    BY <1>0, <1>1 DEF CountBound, Uncounted
<1>2. CASE held1 = held /\ kept1 = kept /\ m1 = held /\ n1 = kept /\ f1 = f
    BY <1>0, <1>2 DEF CountBound, Uncounted
<1>3. CASE /\ held1 = held + 1 /\ kept1 = kept /\ n1 = n /\ m1 = m + 1 /\ f1 = f
           /\ m + n < MaxFiles
    BY <1>0, <1>3 DEF CountBound, Uncounted
<1>4. CASE /\ held1 = held + 1 /\ kept1 = kept /\ n1 = n /\ m1 = m /\ f1 = f + 1
           /\ m + n < MaxFiles
    BY <1>0, <1>4 DEF CountBound, Uncounted
<1>5. CASE /\ held > 0 /\ held1 = held - 1 /\ kept1 = kept /\ n1 = n
           /\ m1 = Lower(m) /\ f1 = f
    BY <1>0, <1>5 DEF CountBound, Uncounted, Lower
<1>6. CASE /\ kept > 0 /\ kept1 = kept - 1 /\ held1 = held /\ m1 = m
           /\ n1 = Lower(n) /\ f1 = f
    BY <1>0, <1>6 DEF CountBound, Uncounted, Lower
<1>7. CASE kept > 0 /\ kept1 = kept - 1 /\ held1 = held /\ m1 = m /\ n1 = n /\ f1 = f + 1
    BY <1>0, <1>7 DEF CountBound, Uncounted
<1>8. CASE /\ held > 0 /\ held1 = held - 1 /\ kept1 = kept + 1
           /\ m1 = Lower(m) /\ n1 = n + 1 /\ f1 = f
    BY <1>0, <1>8 DEF CountBound, Uncounted, Lower
<1>9. CASE held > 0 /\ held1 = held - 1 /\ kept1 = kept + 1 /\ m1 = m /\ n1 = n /\ f1 = f + 1
    BY <1>0, <1>9 DEF CountBound, Uncounted
<1> QED BY <1>1, <1>2, <1>3, <1>4, <1>5, <1>6, <1>7, <1>8, <1>9 DEF CountStep

\* No order of failed renames, moves and restarts uncounts more files than
\* there were faults, or takes more than the limit beside them.
LEMMA LimitKept ==
    ASSUME FeedbackTypes, LimitInv, FileInv, [FeedbackNext]_feedbackVars
    PROVE  LimitInv'
<1> DEFINE W == Cardinality(wait)
           R == Cardinality(ready)
           Counted == CountStep(W, waitCount, R, readyCount, faults,
                                W', waitCount', R', readyCount', faults')
<1>0. /\ IsFiniteSet(wait) /\ IsFiniteSet(ready) /\ faults \in Nat
      /\ waitCount \in Nat /\ readyCount \in Nat
      /\ wait \subseteq Ids /\ ready \subseteq Ids /\ queue \in Seq(Ids)
      /\ call \in Calls
    BY DEF FeedbackTypes
<1>1. W \in Nat /\ R \in Nat
    BY <1>0, FS_CardinalityType
<1>2. SUFFICES Counted
    <2>1. CountBound(W, waitCount, R, readyCount, faults)
        BY DEF LimitInv
    <2>2. CountStep(W, waitCount, R, readyCount, faults,
                    W', waitCount', R', readyCount', faults')
        BY <1>2
    <2> HIDE DEF W, R, Counted
    <2>3. CountBound(W', waitCount', R', readyCount', faults')
        BY <1>0, <1>1, <2>1, <2>2, CountsKept
    <2>4. W' = Cardinality(wait') /\ R' = Cardinality(ready')
        BY DEF W, R
    <2>5. Cardinality(dead') <= MaxDead
        BY FileTypes
    <2> QED BY <2>3, <2>4, <2>5 DEF LimitInv
<1>3. ASSUME NEW x
      PROVE  /\ x \in wait => W > 0 /\ Cardinality(wait \ {x}) = W - 1
             /\ x \notin wait => Cardinality(wait \cup {x}) = W + 1
             /\ x \in ready => R > 0 /\ Cardinality(ready \ {x}) = R - 1
             /\ x \notin ready => Cardinality(ready \cup {x}) = R + 1
    <2>1. \A S, y : IsFiniteSet(S) /\ y \in S =>
              Cardinality(S) # 0 /\ Cardinality(S \ {y}) = Cardinality(S) - 1
        BY FS_EmptySet, FS_RemoveElement
    <2>2. \A S, y : IsFiniteSet(S) /\ y \notin S =>
              Cardinality(S \cup {y}) = Cardinality(S) + 1
        BY FS_AddElement
    <2>3. (W # 0 => W > 0) /\ (R # 0 => R > 0)
        BY <1>1
    <2> QED BY <1>0, <2>1, <2>2, <2>3, Zenon
<1>4. CASE UNCHANGED files
    BY <1>4 DEF files, CountStep
<1>5. CASE FreezeNew
    <2>1. /\ Head(queue) \notin wait /\ waitCount + readyCount < MaxFiles
          /\ wait' = wait \cup {Head(queue)} /\ UNCHANGED <<ready, readyCount>>
          /\ \/ waitCount' = waitCount + 1 /\ faults' = faults
             \/ waitCount' = waitCount /\ faults' = faults + 1
        BY <1>5 DEF FreezeNew, SpoolHasRoom, Fault
    <2>2. W' = W + 1 /\ R' = R
        BY <1>3, <2>1
    <2> HIDE DEF W, R
    <2> QED BY <2>1, <2>2 DEF CountStep
<1>6. ASSUME NEW dir \in Stages, NEW id \in Ids, NEW code \in Codes,
             MoveToDead(dir, id, code), dir = "ready" => id \in ready,
             dir = "wait" => id \in wait
      PROVE  Counted
    <2>1. Cardinality(dead) <= MaxDead
        BY DEF LimitInv
    <2>2. \/ /\ faults' = faults + 1
             /\ UNCHANGED <<wait, ready, waitCount, readyCount>>
          \/ /\ faults' = faults
             /\ \/ /\ id \in ready /\ ready' = ready \ {id}
                   /\ readyCount' = Lower(readyCount)
                   /\ UNCHANGED <<wait, waitCount>>
                \/ /\ id \in wait /\ wait' = wait \ {id}
                   /\ waitCount' = Lower(waitCount)
                   /\ UNCHANGED <<ready, readyCount>>
        BY <1>6, <2>1, MoveOutcome
    <2>3. \/ /\ faults' = faults + 1 /\ W' = W /\ R' = R
             /\ UNCHANGED <<waitCount, readyCount>>
          \/ /\ faults' = faults /\ R > 0 /\ R' = R - 1 /\ W' = W
             /\ readyCount' = Lower(readyCount) /\ waitCount' = waitCount
          \/ /\ faults' = faults /\ W > 0 /\ W' = W - 1 /\ R' = R
             /\ waitCount' = Lower(waitCount) /\ readyCount' = readyCount
        BY <1>3, <2>2
    <2> HIDE DEF W, R
    <2> QED BY <2>3 DEF CountStep
<1>7. CASE DropUnreadable
    <2>1. PICK dir \in Stages, id \in Ids :
              /\ MoveToDead(dir, id, 0)
              /\ dir = "ready" => id \in ready
              /\ dir = "wait" => id \in wait
        BY <1>0, <1>7, FirstFileHeld DEF DropUnreadable, Stages
    <2> HIDE DEF Counted
    <2> QED BY <1>6, <2>1 DEF Codes
<1>8. CASE EvidenceRefused
    <2>1. call.req.id \in Ids /\ call.req.id \in wait
        BY <1>0, <1>8, CallFields DEF EvidenceRefused, Answered, FileInv
    <2>2. \E code \in Codes : MoveToDead("wait", call.req.id, code)
        BY <1>8 DEF EvidenceRefused, Codes
    <2> HIDE DEF Counted
    <2> QED BY <1>6, <2>1, <2>2 DEF Stages
<1>9. CASE LabelRefused
    <2>1. call.req.id \in Ids /\ call.req.id \in ready
        BY <1>0, <1>9, CallFields DEF LabelRefused, Answered, FileInv
    <2>2. \E code \in Codes : MoveToDead("ready", call.req.id, code)
        BY <1>9 DEF LabelRefused, Codes
    <2> HIDE DEF Counted
    <2> QED BY <1>6, <2>1, <2>2 DEF Stages
<1>10. CASE EvidenceStored
    <2>1. call.req.id \in wait /\ call.req.id \notin ready
        BY <1>0, <1>10, CallFields DEF EvidenceStored, Answered, FileInv
    <2>2. /\ wait' = wait \ {call.req.id} /\ ready' = ready \cup {call.req.id}
          /\ \/ /\ waitCount' = Lower(waitCount) /\ readyCount' = readyCount + 1
                /\ faults' = faults
             \/ faults' = faults + 1 /\ UNCHANGED <<waitCount, readyCount>>
        BY <1>10, <2>1 DEF EvidenceStored, Fault, Lower
    <2>3. W > 0 /\ W' = W - 1 /\ R' = R + 1
        BY <1>3, <2>1, <2>2
    <2> HIDE DEF W, R
    <2> QED BY <2>2, <2>3 DEF CountStep
<1>11. CASE LabelStored
    <2>1. call.req.id \in ready
        BY <1>0, <1>11, CallFields DEF LabelStored, Answered, FileInv
    <2>2. /\ ready' = ready \ {call.req.id} /\ UNCHANGED <<wait, waitCount>>
          /\ \/ readyCount' = Lower(readyCount) /\ faults' = faults
             \/ readyCount' = readyCount /\ faults' = faults + 1
        BY <1>11 DEF LabelStored, Fault, Lower
    <2>3. R > 0 /\ R' = R - 1 /\ W' = W
        BY <1>3, <2>1, <2>2
    <2> HIDE DEF W, R
    <2> QED BY <2>2, <2>3 DEF CountStep
<1>12. CASE Restart
    <2>1. waitCount' = W /\ readyCount' = R /\ UNCHANGED <<wait, ready, faults>>
        BY <1>12 DEF Restart
    <2> QED BY <2>1 DEF CountStep
<1>13. CASE Decay
    <2>1. UNCHANGED <<wait, ready, waitCount, readyCount>> /\ faults' = faults + 1
        BY <1>13 DEF Decay, Fault
    <2> QED BY <2>1 DEF CountStep
<1> HIDE DEF Counted
<1> QED BY <1>4, <1>5, <1>7, <1>8, <1>9, <1>10, <1>11, <1>12, <1>13, FileSteps

-----------------------------------------------------------------------------
(* Where a bundle is while something is under way for it.                  *)

\* What a new answer leaves of the request, and what a sent request is.
LEMMA RequestKept ==
    ASSUME FeedbackTypes, Ingest \/ CreateFeedback \/ Refuse
    PROVE  /\ UNCHANGED <<device, files>>
           /\ call' # NoCall => call # NoCall /\ call'.req = call.req
<1>0. call \in Calls /\ net \subseteq Requests
    BY DEF FeedbackTypes
<1>1. CASE Ingest
    <2>1. PICK req \in net : Answer(req, "409") \/ Answer(req, "200")
        BY <1>1 DEF Ingest
    <2>2. call' # NoCall => call # NoCall /\ call'.req = call.req
        BY <1>0, <2>1, AnswerOutcome
    <2> QED BY <1>1, <2>2 DEF Ingest
<1>2. CASE CreateFeedback
    <2>1. PICK req \in net : Answer(req, "404") \/ Answer(req, "200")
        BY <1>2 DEF CreateFeedback
    <2>2. call' # NoCall => call # NoCall /\ call'.req = call.req
        BY <1>0, <2>1, AnswerOutcome
    <2> QED BY <1>2, <2>2 DEF CreateFeedback
<1>3. CASE Refuse
    <2>1. call.at = "sent" /\ \E code \in {"401", "422"} : call' = [call EXCEPT !.at = code]
        BY <1>3 DEF Refuse
    <2>2. /\ call # NoCall
          /\ call \in [at : {"sent", "200", "401", "404", "409", "422"}, req : Requests]
        BY <1>0, <2>1, CallFields
    <2>3. call'.req = call.req
        BY <2>1, <2>2
    <2> QED BY <1>3, <2>2, <2>3 DEF Refuse
<1> QED BY <1>1, <1>2, <1>3

\* With no exchange and no commit under way, only the directories matter.
LEMMA QuietStep ==
    ASSUME copied = <<>> \/ copied' = <<>>, UNCHANGED copied \/ copied' = <<>>,
           call' = NoCall, wait' \cap ready' = {}
    PROVE  FileInv'
<1>1. copied' = <<>>
    OBVIOUS
<1> QED BY <1>1 DEF FileInv

\* Requests and commits are about bundles that are where they should be.
LEMMA FilePlacesKept ==
    ASSUME FeedbackTypes, LimitInv, FileInv, [FeedbackNext]_feedbackVars
    PROVE  FileInv'
<1>0. /\ wait \subseteq Ids /\ ready \subseteq Ids /\ queue \in Seq(Ids)
      /\ call \in Calls /\ wait \cap ready = {} /\ Cardinality(dead) <= MaxDead
    BY DEF FeedbackTypes, FileInv, LimitInv
<1>1. call # NoCall => copied = <<>>
    BY DEF FileInv
<1>2. CASE UNCHANGED <<wait, ready, call, queue, copied>>
    BY <1>2 DEF FileInv
<1>3. CASE Push
    <2>1. /\ UNCHANGED <<wait, ready, call, copied>>
          /\ queue' = queue \/ \E id : queue' = Append(queue, id)
        BY <1>3 DEF Push, Stored, files, worker
    <2>2. queue # <<>> => queue' # <<>> /\ Head(queue') = Head(queue)
        BY <1>0, <2>1
    <2> QED BY <2>1, <2>2 DEF FileInv
<1>4. CASE FreezeNew
    <2>1. /\ queue # <<>> /\ Head(queue) \notin ready /\ call = NoCall /\ copied = <<>>
          /\ wait' = wait \cup {Head(queue)}
          /\ copied' = Prefix \/ copied' = copied
          /\ UNCHANGED <<ready, queue, call>>
        BY <1>4 DEF FreezeNew, Idle, worker
    <2> QED BY <1>0, <2>1 DEF FileInv, Prefix
<1>5. CASE FreezeExisting
    <2>1. /\ queue # <<>> /\ Head(queue) \in wait \cup ready /\ call = NoCall
          /\ copied' = <<Head(queue)>> /\ UNCHANGED <<wait, ready, queue, call>>
        BY <1>5 DEF FreezeExisting, Idle, worker, files, Prefix
    <2> QED BY <1>0, <2>1 DEF FileInv
<1>6. CASE CommitPrefix
    <2>1. copied # <<>> /\ copied' = <<>> /\ UNCHANGED <<wait, ready, call>>
        BY <1>6 DEF CommitPrefix, files, worker
    <2> QED BY <1>0, <1>1, <2>1 DEF FileInv
<1>7. CASE PostLabel
    <2>1. /\ copied = <<>> /\ UNCHANGED <<wait, ready, copied, queue>>
          /\ call' = [at |-> "sent", req |-> [kind |-> "label", id |-> FirstFile(ready)]]
          /\ FirstFile(ready) \in ready
        BY <1>0, <1>7, FirstFileHeld DEF PostLabel, Post, MayUpload, Idle, device, files
    <2> QED BY <1>0, <2>1 DEF FileInv
<1>8. CASE PostEvidence
    <2>1. /\ copied = <<>> /\ UNCHANGED <<wait, ready, copied, queue>>
          /\ call' = [at |-> "sent", req |-> [kind |-> "evidence", id |-> FirstFile(wait)]]
          /\ FirstFile(wait) \in wait
        BY <1>0, <1>8, FirstFileHeld DEF PostEvidence, Post, MayUpload, Idle, device, files
    <2> QED BY <1>0, <2>1 DEF FileInv
<1>9. CASE Ingest \/ CreateFeedback \/ Refuse
    <2>1. /\ UNCHANGED <<wait, ready, copied, queue>>
          /\ call' # NoCall => call # NoCall /\ call'.req = call.req
        BY <1>9, RequestKept DEF device, files
    <2> QED BY <2>1 DEF FileInv
<1>10. ASSUME NEW dir \in Stages, NEW id \in Ids, NEW code \in Codes,
              MoveToDead(dir, id, code)
       PROVE  wait' \cap ready' = {}
    <2>1. wait' \in {wait, wait \ {id}} /\ ready' \in {ready, ready \ {id}}
        BY <1>0, <1>10, MoveOutcome
    <2> QED BY <1>0, <2>1
<1>11. CASE DropUnreadable
    <2>1. PICK dir \in Stages, id \in Ids : MoveToDead(dir, id, 0)
        BY <1>0, <1>11, FirstFileHeld DEF DropUnreadable, Stages
    <2>2. wait' \cap ready' = {}
        BY <1>10, <2>1 DEF Codes
    <2>3. call' = NoCall /\ copied = <<>> /\ copied' = <<>>
        BY <1>11 DEF DropUnreadable, MayUpload, Idle, device
    <2> QED BY <2>2, <2>3, QuietStep
<1>12. CASE EvidenceRefused \/ LabelRefused
    <2>1. call.req.id \in Ids /\ call # NoCall
        BY <1>0, <1>12, CallFields DEF EvidenceRefused, LabelRefused, Answered
    <2>2. \E dir \in Stages, code \in Codes : MoveToDead(dir, call.req.id, code)
        BY <1>12 DEF EvidenceRefused, LabelRefused, Codes, Stages
    <2>3. wait' \cap ready' = {}
        BY <1>10, <2>1, <2>2
    <2>4. call' = NoCall /\ UNCHANGED copied
        BY <1>12 DEF EvidenceRefused, LabelRefused, device
    <2> QED BY <1>1, <2>1, <2>3, <2>4, QuietStep
<1>13. CASE EvidenceStored
    <2>1. call # NoCall /\ call' = NoCall /\ UNCHANGED copied
        BY <1>0, <1>13, CallFields DEF EvidenceStored, Answered, device
    <2>2. \/ UNCHANGED <<wait, ready>>
          \/ wait' = wait \ {call.req.id} /\ ready' = ready \cup {call.req.id}
        BY <1>13 DEF EvidenceStored
    <2> QED BY <1>0, <1>1, <2>1, <2>2, QuietStep
<1>14. CASE LabelStored
    <2>1. call # NoCall /\ call' = NoCall /\ UNCHANGED <<copied, wait>>
          /\ ready' = ready \ {call.req.id}
        BY <1>0, <1>14, CallFields DEF LabelStored, Answered, device
    <2> QED BY <1>0, <1>1, <2>1, QuietStep
<1>15. CASE GiveUp \/ Unauthorized \/ BeginProbe
    <2>1. call # NoCall /\ call' = NoCall /\ UNCHANGED <<copied, wait, ready>>
        BY <1>0, <1>15, CallFields
           DEF GiveUp, Unauthorized, BeginProbe, Answered, device, files
    <2> QED BY <1>0, <1>1, <2>1, QuietStep
<1>16. CASE Restart
    <2>1. call' = NoCall /\ copied' = <<>> /\ UNCHANGED <<wait, ready>>
        BY <1>16 DEF Restart
    <2> QED BY <1>0, <2>1, QuietStep
<1>17. CASE Restore \/ Repair \/ CompareConfig \/ Decay \/ UNCHANGED feedbackVars
    <2>1. UNCHANGED <<wait, ready, call, queue, copied>>
        BY <1>17 DEF Restore, Repair, CompareConfig, Decay, feedbackVars, device, files,
                     worker
    <2> QED BY <1>2, <2>1
<1> QED BY <1>3, <1>4, <1>5, <1>6, <1>7, <1>8, <1>9, <1>11, <1>12, <1>13, <1>14, <1>15,
           <1>16, <1>17 DEF FeedbackNext

-----------------------------------------------------------------------------
(* What an unrestored server holds of what the device goes on.             *)

\* The worker is told that a sample or a label is stored only when it is, and
\* posts a label only when its sample is.
LEMMA ServerKept ==
    ASSUME FeedbackTypes, LimitInv, FileInv, ServerInv, [FeedbackNext]_feedbackVars
    PROVE  ServerInv'
<1> SUFFICES ASSUME restored' = 0 PROVE ServerInv'
    BY DEF ServerInv
<1>0. /\ wait \subseteq Ids /\ ready \subseteq Ids /\ net \subseteq Requests
      /\ call \in Calls /\ call' \in Calls /\ restored \in Nat
      /\ labels \subseteq samples /\ Cardinality(dead) <= MaxDead
    BY ServerTypes, FeedbackBounds DEF FeedbackTypes, LimitInv
<1>1. restored = 0 /\ ~Restore
    <2>1. ~Restore
        BY <1>0 DEF Restore
    <2>2. UNCHANGED restored
        BY <2>1, ServerSteps DEF server, PostLabel, PostEvidence, Post, Ingest,
           CreateFeedback, Refuse, Repair
    <2> QED BY <2>1, <2>2
<1>2. /\ ready \subseteq samples /\ acked \subseteq labels
      /\ \A r \in net : r.kind = "label" => r.id \in samples
      /\ \A d \in dead : d.code # 404
    BY <1>1 DEF ServerInv
<1>3. call # NoCall =>
          /\ call.req.kind = "label" => call.req.id \in samples
          /\ call.at # "404"
          /\ call.at = "200" /\ call.req.kind = "evidence" => call.req.id \in samples
          /\ call.at = "200" /\ call.req.kind = "label" => call.req.id \in labels
    BY <1>1 DEF ServerInv
<1>4. CASE UNCHANGED <<ready, samples, labels, acked, net, dead>>
           /\ (call' = NoCall \/ UNCHANGED call)
    BY <1>2, <1>3, <1>4 DEF ServerInv
<1>5. CASE Push \/ FreezeNew \/ FreezeExisting \/ CommitPrefix \/ Repair \/ GiveUp
           \/ Unauthorized \/ BeginProbe \/ CompareConfig \/ Restart \/ Decay
           \/ UNCHANGED feedbackVars
    <2>1. UNCHANGED <<ready, samples, labels, acked, net, dead>>
          /\ (call' = NoCall \/ UNCHANGED call)
        BY <1>5 DEF Push, FreezeNew, FreezeExisting, CommitPrefix, Repair, GiveUp,
           Unauthorized, BeginProbe, CompareConfig, Restart, Decay, feedbackVars, files,
           worker, server, past
    <2> QED BY <1>4, <2>1
<1>6. CASE PostLabel \/ PostEvidence
    <2>1. PICK kind \in {"evidence", "label"}, id \in Ids :
              /\ Post(kind, id)
              /\ kind = "label" => id \in ready
        BY <1>0, <1>6, FirstFileHeld DEF PostLabel, PostEvidence
    <2> DEFINE req == [kind |-> kind, id |-> id]
    <2>2. /\ call' = [at |-> "sent", req |-> req] /\ net' = net \cup {req}
          /\ UNCHANGED <<ready, samples, labels, acked, dead>>
        BY <2>1 DEF Post, files, past
    <2>3. req.kind = "label" => req.id \in samples
        BY <1>2, <2>1
    <2> HIDE DEF req
    <2>4. call'.at = "sent" /\ call'.req = req
        BY <2>2
    <2> QED BY <1>2, <2>2, <2>3, <2>4 DEF ServerInv
<1>7. CASE Ingest
    <2>1. PICK req \in net :
              /\ req.kind = "evidence" /\ net' = net \ {req}
              /\ \/ Answer(req, "409") /\ UNCHANGED samples
                 \/ Answer(req, "200") /\ samples' = samples \cup {req.id}
              /\ UNCHANGED <<ready, labels, acked, dead>>
        BY <1>7 DEF Ingest, files, past
    <2>2. /\ samples \subseteq samples'
          /\ \/ call' = call
             \/ /\ call # NoCall /\ call'.req = req
                /\ call'.at = "409" \/ (call'.at = "200" /\ req.id \in samples')
        BY <1>0, <2>1, AnswerOutcome
    <2>3. call' # NoCall =>
              /\ call'.req.kind = "label" => call'.req.id \in samples'
              /\ call'.at # "404"
              /\ call'.at = "200" /\ call'.req.kind = "evidence" =>
                     call'.req.id \in samples'
              /\ call'.at = "200" /\ call'.req.kind = "label" =>
                     call'.req.id \in labels'
        BY <1>3, <2>1, <2>2
    <2> QED BY <1>2, <2>1, <2>2, <2>3 DEF ServerInv
<1>8. CASE CreateFeedback
    <2>1. PICK req \in net :
              /\ req.kind = "label" /\ net' = net \ {req}
              /\ IF req.id \in labels \cup samples
                   THEN Answer(req, "200") /\ labels' = labels \cup {req.id}
                   ELSE Answer(req, "404") /\ UNCHANGED labels
              /\ UNCHANGED <<ready, samples, acked, dead>>
        BY <1>8 DEF CreateFeedback, files, past
    <2>2. req.id \in samples
        BY <1>2, <2>1
    <2>3. Answer(req, "200") /\ labels' = labels \cup {req.id}
        BY <2>1, <2>2
    <2>4. \/ call' = call
          \/ call # NoCall /\ call'.req = req /\ call'.at = "200"
        BY <1>0, <2>3, AnswerOutcome
    <2>5. call' # NoCall =>
              /\ call'.req.kind = "label" => call'.req.id \in samples'
              /\ call'.at # "404"
              /\ call'.at = "200" /\ call'.req.kind = "evidence" =>
                     call'.req.id \in samples'
              /\ call'.at = "200" /\ call'.req.kind = "label" =>
                     call'.req.id \in labels'
        BY <1>3, <2>1, <2>2, <2>3, <2>4
    <2> QED BY <1>2, <2>1, <2>3, <2>5 DEF ServerInv
<1>9. CASE Refuse
    <2>1. /\ call.at = "sent" /\ net' \subseteq net
          /\ \E code \in {"401", "422"} : call' = [call EXCEPT !.at = code]
          /\ UNCHANGED <<ready, samples, labels, acked, dead>>
        BY <1>9 DEF Refuse, files, past
    <2>2. /\ call # NoCall
          /\ call \in [at : {"sent", "200", "401", "404", "409", "422"}, req : Requests]
        BY <1>0, <2>1, CallFields
    <2>3. call'.req = call.req /\ call'.at \in {"401", "422"}
        BY <2>1, <2>2
    <2> QED BY <1>2, <1>3, <2>1, <2>2, <2>3 DEF ServerInv
<1>10. ASSUME NEW dir \in Stages, NEW id \in Ids, NEW code \in Codes, code # 404,
              MoveToDead(dir, id, code)
       PROVE  ready' \subseteq samples /\ \A d \in dead' : d.code # 404
    <2>1. ready' \in {ready, ready \ {id}} /\ \A d \in dead' : d \in dead \/ d.code = code
        BY <1>0, <1>10, MoveOutcome
    <2> QED BY <1>2, <1>10, <2>1
<1>11. CASE DropUnreadable
    <2>1. PICK dir \in Stages, id \in Ids : MoveToDead(dir, id, 0)
        BY <1>0, <1>11, FirstFileHeld DEF DropUnreadable, Stages
    <2>2. ready' \subseteq samples /\ \A d \in dead' : d.code # 404
        BY <1>10, <2>1 DEF Codes
    <2>3. UNCHANGED <<samples, labels, acked, net, call>>
        BY <1>11 DEF DropUnreadable, server, past
    <2> QED BY <1>2, <1>3, <2>2, <2>3 DEF ServerInv
<1>12. CASE EvidenceRefused \/ LabelRefused
    <2>1. call.req.id \in Ids /\ call # NoCall
        BY <1>0, <1>12, CallFields DEF EvidenceRefused, LabelRefused, Answered
    <2>2. \E dir \in Stages, code \in {409, 422} : MoveToDead(dir, call.req.id, code)
        BY <1>3, <1>12, <2>1 DEF EvidenceRefused, LabelRefused, Stages
    <2>3. ready' \subseteq samples /\ \A d \in dead' : d.code # 404
        BY <1>10, <2>1, <2>2 DEF Codes
    <2>4. UNCHANGED <<samples, labels, acked, net>> /\ call' = NoCall
        BY <1>12 DEF EvidenceRefused, LabelRefused, server, past
    <2> QED BY <1>2, <2>3, <2>4 DEF ServerInv
<1>13. CASE EvidenceStored
    <2>1. call.req.id \in samples
        BY <1>0, <1>3, <1>13, CallFields DEF EvidenceStored, Answered
    <2>2. /\ ready' \subseteq ready \cup {call.req.id} /\ call' = NoCall
          /\ UNCHANGED <<samples, labels, acked, net, dead>>
        BY <1>13 DEF EvidenceStored, server, past
    <2> QED BY <1>2, <2>1, <2>2 DEF ServerInv
<1>14. CASE LabelStored
    <2>1. call.req.id \in labels
        BY <1>0, <1>3, <1>14, CallFields DEF LabelStored, Answered
    <2>2. /\ ready' \subseteq ready /\ call' = NoCall /\ acked' = acked \cup {call.req.id}
          /\ UNCHANGED <<samples, labels, net, dead>>
        BY <1>14 DEF LabelStored, server
    <2> QED BY <1>2, <2>1, <2>2 DEF ServerInv
<1> QED BY <1>1, <1>5, <1>6, <1>7, <1>8, <1>9, <1>11, <1>12, <1>13, <1>14
        DEF FeedbackNext

-----------------------------------------------------------------------------
(* Where a correction that was taken may be.                               *)

\* No step takes a correction from every place it may be in.
LEMMA CorrectionsKept ==
    ASSUME FeedbackInv, [FeedbackNext]_feedbackVars
    PROVE  accepted' \subseteq Places'
<1>0. /\ wait \subseteq Ids /\ ready \subseteq Ids /\ queue \in Seq(Ids)
      /\ call \in Calls /\ Cardinality(dead) <= MaxDead /\ accepted \subseteq Places
    BY DEF FeedbackInv, FeedbackTypes, LimitInv
<1> DEFINE Elsewhere == wait \cup ready \cup {d.id : d \in dead} \cup evicted
                            \cup acked \cup lost
<1>1. Places = Queued \cup Elsewhere /\ Places' = Queued' \cup Elsewhere'
    BY DEF Places
<1>2. ASSUME Queued \subseteq Queued' \cup Elsewhere', Elsewhere \subseteq Elsewhere',
             UNCHANGED accepted
      PROVE  accepted' \subseteq Places'
    <2> HIDE DEF Elsewhere
    <2> QED BY <1>0, <1>1, <1>2
<1>3. CASE UNCHANGED <<queue, accepted>> /\ Elsewhere \subseteq Elsewhere'
    <2>1. Queued' = Queued
        BY <1>3 DEF Queued
    <2> HIDE DEF Elsewhere
    <2> QED BY <1>2, <1>3, <2>1
<1>4. CASE Push
    <2> DEFINE id == [boot |-> boot, seq |-> nextSeq]
    <2>1. /\ queue' = Stored(id)
          /\ accepted' = IF queue' = queue THEN accepted ELSE accepted \cup {id}
          /\ UNCHANGED <<wait, ready, dead, evicted, acked, lost>>
        BY <1>4 DEF Push, files
    <2> HIDE DEF id
    <2>2. Elsewhere' = Elsewhere
        BY <2>1
    <2>3. CASE queue' = queue
        BY <1>3, <2>1, <2>2, <2>3
    <2>4. CASE queue' # queue
        <3>1. queue' = Append(queue, id)
            BY <2>1, <2>4 DEF Stored
        <3>2. Queued \cup {id} \subseteq Queued'
            <4>1. \A i \in DOMAIN queue : i \in DOMAIN queue' /\ queue'[i] = queue[i]
                BY <1>0, <3>1
            <4>2. Len(queue) + 1 \in DOMAIN queue' /\ queue'[Len(queue) + 1] = id
                BY <1>0, <3>1
            <4> QED BY <4>1, <4>2 DEF Queued
        <3> HIDE DEF Elsewhere
        <3> QED BY <1>0, <1>1, <2>1, <2>2, <2>4, <3>2
    <2> QED BY <2>3, <2>4
<1>5. CASE FreezeNew
    <2>1. /\ UNCHANGED <<queue, accepted, ready, dead, evicted, acked, lost>>
          /\ wait \subseteq wait'
        BY <1>5 DEF FreezeNew, past
    <2> QED BY <1>3, <2>1
<1>6. CASE CommitPrefix
    <2>1. /\ queue # <<>> /\ copied = <<Head(queue)>> /\ Head(queue) \in wait \cup ready
          /\ queue' = Committed(copied)
          /\ UNCHANGED <<accepted, wait, ready, dead, evicted, acked, lost>>
        BY <1>6 DEF CommitPrefix, FeedbackInv, FileInv, files, past
    <2>2. queue' = Tail(queue)
        BY <2>1 DEF Committed, Prefix
    <2>3. ASSUME NEW x \in Queued PROVE x \in Queued' \cup {Head(queue)}
        <3>1. PICK i \in DOMAIN queue : x = queue[i]
            BY DEF Queued
        <3>2. i = 1 => x = Head(queue)
            BY <1>0, <2>1, <3>1
        <3>3. i # 1 => i - 1 \in DOMAIN queue' /\ queue'[i - 1] = x
            BY <1>0, <2>1, <2>2, <3>1
        <3> QED BY <3>2, <3>3 DEF Queued
    <2>4. Elsewhere' = Elsewhere /\ Head(queue) \in Elsewhere
        BY <2>1
    <2> HIDE DEF Elsewhere
    <2> QED BY <1>2, <2>1, <2>3, <2>4
<1>7. ASSUME NEW dir \in Stages, NEW id \in Ids, NEW code \in Codes,
             MoveToDead(dir, id, code), UNCHANGED <<acked, lost>>
      PROVE  Elsewhere \subseteq Elsewhere'
    <2>1. /\ \A d \in dead : d \in dead' \/ d.id \in evicted'
          /\ evicted \subseteq evicted'
          /\ \/ UNCHANGED <<wait, ready>>
             \/ /\ id \in {d.id : d \in dead'}
                /\ wait' \in {wait, wait \ {id}} /\ ready' \in {ready, ready \ {id}}
        BY <1>0, <1>7, MoveOutcome DEF FeedbackInv
    <2>2. {d.id : d \in dead} \subseteq {d.id : d \in dead'} \cup evicted'
        BY <2>1
    <2>3. wait \cup ready \subseteq wait' \cup ready' \cup {d.id : d \in dead'}
        BY <2>1
    <2> QED BY <1>7, <2>1, <2>2, <2>3
<1>8. CASE DropUnreadable
    <2>1. PICK dir \in Stages, id \in Ids : MoveToDead(dir, id, 0)
        BY <1>0, <1>8, FirstFileHeld DEF DropUnreadable, Stages
    <2>2. UNCHANGED <<queue, accepted, acked, lost>>
        BY <1>8 DEF DropUnreadable, device, past
    <2>3. Elsewhere \subseteq Elsewhere'
        BY <1>7, <2>1, <2>2 DEF Codes
    <2> QED BY <1>3, <2>2, <2>3
<1>9. CASE EvidenceRefused \/ LabelRefused
    <2>1. call.req.id \in Ids
        BY <1>0, <1>9, CallFields DEF EvidenceRefused, LabelRefused, Answered
    <2>2. \E dir \in Stages, code \in Codes : MoveToDead(dir, call.req.id, code)
        BY <1>9 DEF EvidenceRefused, LabelRefused, Codes, Stages
    <2>3. UNCHANGED <<queue, accepted, acked, lost>>
        BY <1>9 DEF EvidenceRefused, LabelRefused, device, past
    <2>4. Elsewhere \subseteq Elsewhere'
        BY <1>7, <2>1, <2>2, <2>3
    <2> QED BY <1>3, <2>3, <2>4
<1>10. CASE EvidenceStored
    <2>1. /\ UNCHANGED <<queue, accepted, dead, evicted, acked, lost>>
          /\ \/ UNCHANGED <<wait, ready>>
             \/ wait' = wait \ {call.req.id} /\ ready' = ready \cup {call.req.id}
        BY <1>10 DEF EvidenceStored, device, past
    <2> QED BY <1>3, <2>1
<1>11. CASE LabelStored
    <2>1. /\ UNCHANGED <<queue, accepted, wait, dead, evicted, lost>>
          /\ ready' = ready \ {call.req.id} /\ acked' = acked \cup {call.req.id}
        BY <1>11 DEF LabelStored, device
    <2> QED BY <1>3, <2>1
<1>12. CASE Restart
    <2>1. /\ UNCHANGED <<accepted, wait, ready, dead, evicted, acked>>
          /\ lost' = lost \cup (Queued \ (wait \cup ready))
        BY <1>12 DEF Restart
    <2> QED BY <1>2, <2>1
<1>13. CASE UNCHANGED <<queue, files, past>>
    BY <1>3, <1>13 DEF files, past
<1>14. CASE FreezeExisting \/ PostLabel \/ PostEvidence \/ Ingest \/ CreateFeedback
            \/ Refuse \/ Restore \/ Repair \/ GiveUp \/ Unauthorized \/ BeginProbe
            \/ CompareConfig \/ UNCHANGED feedbackVars
    <2>1. UNCHANGED <<queue, files, past>>
        BY <1>14 DEF FreezeExisting, PostLabel, PostEvidence, Post, Ingest, CreateFeedback,
           Refuse, Restore, Repair, GiveUp, Unauthorized, BeginProbe, CompareConfig,
           feedbackVars, device
    <2> QED BY <1>13, <2>1
<1>15. CASE Decay
    <2>1. UNCHANGED <<queue, accepted, wait, ready, dead, evicted, acked, lost>>
        BY <1>15 DEF Decay, device, past
    <2> QED BY <1>3, <2>1
<1> QED BY <1>4, <1>5, <1>6, <1>8, <1>9, <1>10, <1>11, <1>12, <1>14, <1>15
        DEF FeedbackNext

-----------------------------------------------------------------------------
(* The theorems.                                                           *)

\* The invariant holds of a device whose spool is empty.
LEMMA FeedbackStarts ==
    ASSUME FeedbackInit
    PROVE  FeedbackInv
<1>1. /\ boot \in BootIds /\ used = {boot} /\ nextSeq = 1
      /\ queue = <<>> /\ copied = <<>>
      /\ wait = {} /\ ready = {} /\ bad = {} /\ dead = {}
      /\ waitCount = 0 /\ readyCount = 0
      /\ call = NoCall /\ probe = [of |-> "none"] /\ halted = FALSE
      /\ net = {} /\ samples = {} /\ labels = {} /\ refusing = FALSE
      /\ restored = 0 /\ faults = 0 /\ accepted = {} /\ acked = {}
    BY DEF FeedbackInit
<1>2. <<>> \in Seq(Ids) /\ Len(<<>>) = 0
    BY EmptySeq
<1>3. IsFiniteSet({}) /\ Cardinality({}) = 0
    BY FS_EmptySet
<1>4. call \in Calls /\ probe \in Probes
    BY <1>1 DEF Calls, Probes
<1>5. FeedbackTypes
    <2>1. /\ nextSeq \in 1..(MaxSeq + 1) /\ restored \in 0..MaxRestores
          /\ faults \in 0..MaxFaults
        BY <1>1, FeedbackBounds
    <2>2. queue \in Seq(Ids) /\ Len(queue) <= QueueCapacity
          /\ copied \in Seq(Ids) /\ Len(copied) <= 1
        BY <1>1, <1>2, FeedbackBounds
    <2>3. boot \in used /\ used \subseteq BootIds
        BY <1>1
    <2>4. IsFiniteSet(wait) /\ IsFiniteSet(ready) /\ IsFiniteSet(dead)
        BY <1>1, <1>3
    <2>5. /\ wait \subseteq Ids /\ ready \subseteq Ids /\ bad \subseteq wait \cup ready
          /\ dead \subseteq DeadNames /\ net \subseteq Requests
          /\ labels \subseteq samples /\ samples \subseteq Ids
        BY <1>1
    <2>6. waitCount \in Nat /\ readyCount \in Nat /\ halted \in BOOLEAN /\ refusing \in BOOLEAN
        BY <1>1
    <2> QED BY <1>4, <2>1, <2>2, <2>3, <2>4, <2>5, <2>6 DEF FeedbackTypes
<1>6. LimitInv
    BY <1>1, <1>3, FeedbackBounds DEF LimitInv, CountBound, Uncounted
<1>7. FileInv /\ ServerInv
    BY <1>1 DEF FileInv, ServerInv
<1>8. accepted \subseteq Places
    BY <1>1
<1> QED BY <1>5, <1>6, <1>7, <1>8 DEF FeedbackInv

\* Types, limits and the places of bundles, requests and corrections hold
\* together, of every reachable state.
THEOREM FeedbackInvariance == FeedbackSpec => []FeedbackInv
<1>1. FeedbackInit => FeedbackInv
    BY FeedbackStarts
<1>2. FeedbackInv /\ [FeedbackNext]_feedbackVars => FeedbackInv'
    <2> SUFFICES ASSUME FeedbackInv, [FeedbackNext]_feedbackVars PROVE FeedbackInv'
        OBVIOUS
    <2>1. FeedbackTypes /\ LimitInv /\ FileInv /\ ServerInv
        BY DEF FeedbackInv
    <2>2. FeedbackTypes' /\ LimitInv' /\ FileInv' /\ ServerInv'
        BY <2>1, TypesKept, LimitKept, FilePlacesKept, ServerKept
    <2>3. accepted' \subseteq Places'
        BY CorrectionsKept
    <2> QED BY <2>2, <2>3 DEF FeedbackInv
<1> QED BY <1>1, <1>2, PTL DEF FeedbackSpec

\* freezeFeedbackQueueIfNeeded and moveFeedbackToDeadLetter keep the files
\* within their limits, whatever renames are reported as failed: the files
\* counted exceed the limit by no more than the faults, dead letters never.
THEOREM FeedbackTypeCorrect == FeedbackSpec => []FeedbackTypeOK
<1>1. FeedbackInv => FeedbackTypeOK
    <2> SUFFICES ASSUME FeedbackInv PROVE FeedbackTypeOK
        OBVIOUS
    <2> DEFINE u == Uncounted(Cardinality(wait), waitCount)
               v == Uncounted(Cardinality(ready), readyCount)
    <2>1. FeedbackTypes /\ Cardinality(dead) <= MaxDead
        BY DEF FeedbackInv, LimitInv
    <2>2. /\ waitCount \in Nat /\ readyCount \in Nat /\ faults \in Nat /\ MaxFiles \in Nat
          /\ Cardinality(wait) \in Nat /\ Cardinality(ready) \in Nat
        BY <2>1, FeedbackBounds, FS_CardinalityType DEF FeedbackTypes
    <2>3. u \in Nat /\ v \in Nat
        BY <2>2 DEF Uncounted
    <2>4. waitCount + readyCount + (u + v) <= MaxFiles + faults
        BY DEF FeedbackInv, LimitInv, CountBound
    <2> HIDE DEF u, v
    <2>5. waitCount + readyCount <= MaxFiles + faults
        BY <2>2, <2>3, <2>4
    <2> QED BY <2>1, <2>5 DEF FeedbackTypes, FeedbackTypeOK
<1> QED BY <1>1, FeedbackInvariance, PTL

\* The worker offers create_feedback a label only when ingest has the sample
\* it is about: only a restored database refuses one as dangling.
THEOREM LabelsNeverDangle == FeedbackSpec => []NoDanglingLabel
<1>1. FeedbackInv => NoDanglingLabel
    BY DEF FeedbackInv, ServerInv, NoDanglingLabel
<1> QED BY <1>1, FeedbackInvariance, PTL

\* A correction taken from the user is never lost by an order of renames,
\* commits, answers and restarts but the RAM's, and is in one directory only.
THEOREM CorrectionsAreKept == FeedbackSpec => []CorrectionKept
<1>1. FeedbackInv => CorrectionKept
    BY DEF FeedbackInv, FileInv, ServerInv, Places, CorrectionKept
<1> QED BY <1>1, FeedbackInvariance, PTL

-----------------------------------------------------------------------------
(* Core dumps: the inductive invariant.                                    *)

Contexts == {Missing, Torn} \cup [gen : Boots, boot : Boots]
CrashStages == {"rotate", "repair", "attribute"}

\* The types; what is posted is the dump in flash under a known boot.
DumpTypes ==
    /\ slots \in [{0, 1} -> Contexts]
    /\ pin \in 0..TornPin /\ dump \in 0..Corrupt
    /\ instance \in Boots /\ cause \in {"ordinary", "crash"}
    /\ stage \in {"rotate", "repair", "attribute", "save", "unpin", "start", "run", "erased"}
    /\ previous \in 0..MaxBoots /\ attribution \in 0..MaxBoots /\ pending \in 0..MaxBoots
    /\ upload \in {"none", "sent", "durable", "conflict"}
    /\ posts \subseteq Report /\ stored \subseteq Report
    /\ rows \in Seq(Report) /\ Len(rows) <= DumpLimit
    /\ glitches \in 0..MaxGlitches /\ excused \subseteq {"pin", "identity", "watchdog"}

\* The generations of the contexts are in the order of the boots; a repair has
\* one to write.
SlotInv ==
    /\ stage = "repair" => ValidSlots # {}
    /\ \A s \in ValidSlots :
           /\ slots[s].gen <= slots[s].boot /\ slots[s].boot <= instance
           /\ stage = "rotate" => slots[s].boot < instance
    /\ \A s, t \in ValidSlots :
           /\ slots[s].gen < slots[t].gen => slots[s].boot < slots[t].boot
           /\ slots[s].gen = slots[t].gen => slots[s].boot = slots[t].boot

\* What the worker goes by, and what it was told.
UploadInv ==
    /\ pending # NoBoot => stage = "run" /\ attribution \in Boots /\ dump \in {pending, Corrupt}
    /\ upload # "none" => pending # NoBoot
    /\ upload = "durable" => [dump |-> pending, boot |-> attribution] \in stored
    /\ \A i \in DOMAIN rows : rows[i] \in stored

\* Unless a reset is excused.  *what is said of a dump is said under its boot, by
\* the reports, by the worker, by the pin once a crash has cleared an older one,
\* and by the identity a boot after a crash found.
BlameInv ==
    excused = {} =>
        /\ \A r \in stored \cup posts : r.boot = r.dump
        /\ pending # NoBoot => attribution = pending
        /\ stage = "save" => cause = "crash"
        /\ dump \in Boots =>
               /\ attribution # NoBoot => attribution = dump
               /\ pin \in Boots => pin = dump \/ (cause = "crash" /\ stage \in CrashStages)
               /\ cause = "crash" /\ stage \in {"repair", "attribute", "save"}
                      /\ previous # NoBoot => previous = dump
               /\ cause = "crash" /\ stage = "rotate" =>
                      /\ dump + 1 = instance
                      /\ Unjudged \/ \E s \in {0, 1} : slots[s].boot = dump

DumpInv == DumpTypes /\ SlotInv /\ UploadInv /\ BlameInv

-----------------------------------------------------------------------------
(* The two contexts.                                                       *)

\* The bounds as single facts.
LEMMA DumpBounds ==
    /\ MaxBoots \in Nat /\ MaxBoots >= 1 /\ MaxGlitches \in Nat /\ DumpLimit \in Nat
    /\ 1 \in Boots /\ NoBoot \notin Boots /\ TornPin \notin Boots /\ Corrupt \notin Boots
    /\ \A b : b \in Boots <=> b \in Nat /\ 1 <= b /\ b <= MaxBoots
BY DumpAssumption DEF Boots, NoBoot, TornPin, Corrupt

\* A slot is valid if it holds a context, which its boot tells.
LEMMA SlotFacts ==
    ASSUME DumpTypes, NEW s \in {0, 1}
    PROVE  /\ s \in ValidSlots <=> Valid(s)
           /\ s \in ValidSlots => slots[s].gen \in Boots /\ slots[s].boot \in Boots
           /\ slots[s].boot \in Boots => s \in ValidSlots
           /\ slots[s] \in Contexts
<1>1. slots[s] \in Contexts
    BY DEF DumpTypes
<1>2. Missing.boot \notin Boots /\ Torn.boot \notin Boots
    BY DumpBounds DEF Missing, Torn, NoBoot
<1>3. slots[s] \in {Missing, Torn} \/ slots[s] \in [gen : Boots, boot : Boots]
    BY <1>1 DEF Contexts
<1>4. slots[s] \in [gen : Boots, boot : Boots] =>
          slots[s].gen \in Boots /\ slots[s].boot \in Boots
    OBVIOUS
<1> QED BY <1>1, <1>2, <1>3, <1>4 DEF ValidSlots, Valid

\* The newest context is among the valid ones.
LEMMA NewestHeld ==
    ASSUME DumpTypes, ValidSlots # {}
    PROVE  /\ Newest \in ValidSlots
           /\ \A t \in ValidSlots : slots[t].gen <= slots[Newest].gen
<1>1. \A s \in ValidSlots : s \in {0, 1} /\ slots[s].gen \in Nat
    BY SlotFacts, DumpBounds DEF ValidSlots
<1>2. \E s \in ValidSlots : \A t \in ValidSlots :
          slots[s].gen > slots[t].gen \/ (slots[s].gen = slots[t].gen /\ s <= t)
    <2>1. CASE 0 \notin ValidSlots
        <3>1. ValidSlots = {1}
            BY <1>1, <2>1
        <3> QED BY <1>1, <3>1
    <2>2. CASE 1 \notin ValidSlots
        <3>1. ValidSlots = {0}
            BY <1>1, <2>2
        <3> QED BY <1>1, <3>1
    <2>3. CASE ValidSlots = {0, 1}
        <3>1. slots[0].gen \in Nat /\ slots[1].gen \in Nat
            BY <1>1, <2>3
        <3>2. CASE slots[1].gen > slots[0].gen
            BY <2>3, <3>1, <3>2
        <3>3. CASE ~(slots[1].gen > slots[0].gen)
            BY <2>3, <3>1, <3>3
        <3> QED BY <3>2, <3>3
    <2>4. ValidSlots = {0, 1} \/ 0 \notin ValidSlots \/ 1 \notin ValidSlots
        BY <1>1
    <2> QED BY <2>1, <2>2, <2>3, <2>4
<1>3. /\ Newest \in ValidSlots
      /\ \A t \in ValidSlots : slots[Newest].gen > slots[t].gen
                               \/ (slots[Newest].gen = slots[t].gen /\ Newest <= t)
    BY <1>2 DEF Newest
<1> QED BY <1>1, <1>3

\* The context of this boot is newer than all.
LEMMA CurrentNewer ==
    ASSUME DumpTypes, SlotInv
    PROVE  /\ Highest \in Nat /\ Highest <= instance
           /\ stage = "rotate" => Highest < instance
           /\ \A s \in ValidSlots : slots[s].gen <= Highest
           /\ stage = "rotate" => Current \in [gen : Boots, boot : Boots]
           /\ Current.gen = Highest + 1 /\ Current.boot = instance
<1>1. instance \in Boots
    BY DEF DumpTypes
<1>2. \A s \in ValidSlots : slots[s].gen \in Nat /\ slots[s].boot \in Nat
    BY SlotFacts, DumpBounds DEF ValidSlots
<1>3. /\ Highest \in Nat /\ Highest <= instance
      /\ stage = "rotate" => Highest < instance
      /\ \A s \in ValidSlots : slots[s].gen <= Highest
    <2>1. CASE ValidSlots = {}
        BY <1>1, <2>1, DumpBounds DEF Highest
    <2>2. CASE ValidSlots # {}
        <3>1. Highest = slots[Newest].gen /\ Newest \in ValidSlots
              /\ \A s \in ValidSlots : slots[s].gen <= slots[Newest].gen
            BY <2>2, NewestHeld DEF Highest
        <3>2. /\ slots[Newest].gen <= slots[Newest].boot /\ slots[Newest].boot <= instance
              /\ stage = "rotate" => slots[Newest].boot < instance
            BY <3>1 DEF SlotInv
        <3> QED BY <1>1, <1>2, <3>1, <3>2, DumpBounds
    <2> QED BY <2>1, <2>2
<1>4. Current.gen = Highest + 1 /\ Current.boot = instance
    BY DEF Current
<1>5. stage = "rotate" => Highest + 1 \in Boots
    BY <1>1, <1>3, DumpBounds
<1> QED BY <1>1, <1>3, <1>4, <1>5 DEF Current

\* Rotation supersedes one of the two slots.
LEMMA StaleSlotHeld ==
    ASSUME DumpTypes
    PROVE  StaleSlot \in {0, 1} /\ 1 - StaleSlot \in {0, 1}
<1>1. ValidSlots # {} => Newest \in {0, 1}
    BY NewestHeld DEF ValidSlots
<1> QED BY <1>1 DEF StaleSlot

\* What a write leaves in a slot, reported as failed or not.
LEMMA SlotWritten ==
    ASSUME DumpTypes, NEW s \in {0, 1}, NEW context \in Contexts, WriteSlot(s, context)
    PROVE  /\ slots' \in [{0, 1} -> Contexts] /\ glitches' \in 0..MaxGlitches
           /\ \A t \in {0, 1} : slots'[t] \in {slots[t], Torn, context}
<1>1. slots \in [{0, 1} -> Contexts] /\ glitches \in 0..MaxGlitches /\ Torn \in Contexts
    BY DEF DumpTypes, Contexts
<1>2. glitches' \in 0..MaxGlitches
    BY <1>1, DumpBounds DEF WriteSlot, Works, Glitch
<1>3. PICK left \in {slots[s], Torn, context} : slots' = [slots EXCEPT ![s] = left]
    BY DEF WriteSlot
<1> QED BY <1>1, <1>2, <1>3

\* Contexts stay ordered when each is an old one, this boot's, or none.
LEMMA ContextsOrdered ==
    ASSUME DumpTypes, SlotInv, slots' \in [{0, 1} -> Contexts],
           instance' \in Boots, instance <= instance',
           stage' = "rotate" => instance < instance' \/ (stage = "rotate" /\ instance' = instance),
           \A s \in {0, 1} :
               \/ slots'[s] \in {Torn, slots[0], slots[1]}
               \/ stage = "rotate" /\ stage' # "rotate" /\ slots'[s] = Current,
           stage' = "repair" => ValidSlots' # {}
    PROVE  SlotInv'
<1>0. instance \in Nat /\ instance' \in Nat
    BY DumpBounds DEF DumpTypes
<1>1. \A c : c \in {slots[0], slots[1]} /\ c \notin {Missing, Torn} =>
          \E s \in ValidSlots : c = slots[s]
    BY DEF ValidSlots, Valid
<1>2. ASSUME NEW s \in ValidSlots'
      PROVE  /\ s \in {0, 1}
             /\ \/ \E t \in ValidSlots : slots'[s] = slots[t]
                \/ stage = "rotate" /\ stage' # "rotate" /\ slots'[s] = Current
    <2>1. s \in {0, 1} /\ slots'[s] \notin {Missing, Torn}
        BY DEF ValidSlots, Valid
    <2> QED BY <1>1, <2>1
<1>3. \A t \in ValidSlots : /\ slots[t].gen \in Nat /\ slots[t].boot \in Nat
                            /\ slots[t].gen <= slots[t].boot /\ slots[t].boot <= instance
                            /\ stage = "rotate" => slots[t].boot < instance
                            /\ slots[t].gen <= Highest
    BY SlotFacts, CurrentNewer, DumpBounds DEF ValidSlots, SlotInv
<1>4. /\ Highest \in Nat /\ (stage = "rotate" => Highest < instance)
      /\ Current.gen = Highest + 1 /\ Current.boot = instance
    BY CurrentNewer
<1>5. ASSUME NEW s \in ValidSlots'
      PROVE  /\ slots'[s].gen <= slots'[s].boot /\ slots'[s].boot <= instance'
             /\ stage' = "rotate" => slots'[s].boot < instance'
    BY <1>0, <1>2, <1>3, <1>4
<1>6. ASSUME NEW s \in ValidSlots', NEW t \in ValidSlots'
      PROVE  /\ slots'[s].gen < slots'[t].gen => slots'[s].boot < slots'[t].boot
             /\ slots'[s].gen = slots'[t].gen => slots'[s].boot = slots'[t].boot
    <2>1. CASE (\E u \in ValidSlots : slots'[s] = slots[u])
               /\ (\E u \in ValidSlots : slots'[t] = slots[u])
        BY <2>1 DEF SlotInv
    <2>2. CASE (\E u \in ValidSlots : slots'[s] = slots[u])
               /\ stage = "rotate" /\ slots'[t] = Current
        BY <1>0, <1>3, <1>4, <2>2
    <2>3. CASE (\E u \in ValidSlots : slots'[t] = slots[u])
               /\ stage = "rotate" /\ slots'[s] = Current
        BY <1>0, <1>3, <1>4, <2>3
    <2>4. CASE slots'[s] = Current /\ slots'[t] = Current
        BY <1>0, <1>4, <2>4
    <2> QED BY <1>2, <2>1, <2>2, <2>3, <2>4
<1> QED BY <1>5, <1>6 DEF SlotInv

-----------------------------------------------------------------------------
(* Core dumps: the types.                                                  *)

\* The server's table keeps its bound, and only what was put in it.
LEMMA KeptRows ==
    ASSUME NEW all \in Seq(Report), Len(all) <= DumpLimit + 1
    PROVE  /\ Kept(all) \in Seq(Report) /\ Len(Kept(all)) <= DumpLimit
           /\ \A i \in DOMAIN Kept(all) : \E j \in DOMAIN all : Kept(all)[i] = all[j]
<1>0. DumpLimit \in Nat /\ Len(all) \in Nat
    BY DumpBounds, LenProperties
<1>1. CASE Len(all) <= DumpLimit
    BY <1>1 DEF Kept
<1>2. CASE ~(Len(all) <= DumpLimit)
    <2>1. all # << >>
        BY <1>0, <1>2
    <2>2. /\ Tail(all) \in Seq(Report) /\ Len(Tail(all)) = Len(all) - 1
          /\ \A i \in 1..Len(Tail(all)) : Tail(all)[i] = all[i + 1]
        BY <2>1, HeadTailProperties
    <2>3. DOMAIN all = 1..Len(all) /\ DOMAIN Tail(all) = 1..Len(Tail(all))
        BY <2>2, LenProperties
    <2> QED BY <1>0, <1>2, <2>2, <2>3 DEF Kept
<1> QED BY <1>1, <1>2

\* One dump more in the table.
LEMMA RowsIngested ==
    ASSUME DumpTypes, NEW report \in Report
    PROVE  /\ Kept(Append(rows, report)) \in Seq(Report)
           /\ Len(Kept(Append(rows, report))) <= DumpLimit
           /\ \A i \in DOMAIN Kept(Append(rows, report)) :
                  \/ Kept(Append(rows, report))[i] = report
                  \/ \E j \in DOMAIN rows : Kept(Append(rows, report))[i] = rows[j]
<1>1. rows \in Seq(Report) /\ Len(rows) <= DumpLimit /\ Len(rows) \in Nat
    BY LenProperties DEF DumpTypes
<1>2. /\ Append(rows, report) \in Seq(Report) /\ Len(Append(rows, report)) = Len(rows) + 1
      /\ \A i \in 1..Len(rows) : Append(rows, report)[i] = rows[i]
      /\ Append(rows, report)[Len(rows) + 1] = report
    BY <1>1, AppendProperties
<1>3. \A j \in DOMAIN Append(rows, report) : j \in DOMAIN rows \/ j = Len(rows) + 1
    BY <1>1, <1>2, LenProperties
<1>4. DOMAIN rows = 1..Len(rows)
    BY <1>1, LenProperties
<1>5. Len(Append(rows, report)) <= DumpLimit + 1
    BY <1>1, <1>2, DumpBounds
<1>6. /\ Kept(Append(rows, report)) \in Seq(Report)
      /\ Len(Kept(Append(rows, report))) <= DumpLimit
      /\ \A i \in DOMAIN Kept(Append(rows, report)) : \E j \in DOMAIN Append(rows, report) :
             Kept(Append(rows, report))[i] = Append(rows, report)[j]
    BY <1>2, <1>5, KeptRows
<1>7. \A j \in DOMAIN Append(rows, report) :
          \/ Append(rows, report)[j] = report
          \/ \E k \in DOMAIN rows : Append(rows, report)[j] = rows[k]
    BY <1>2, <1>3, <1>4
<1> QED BY <1>6, <1>7

LEMMA PreviousHeld ==
    ASSUME DumpTypes
    PROVE  /\ Previous \in 0..MaxBoots
           /\ Previous # NoBoot => ~Unjudged /\ Newest \in ValidSlots
                                   /\ Previous = slots[Newest].boot
<1>1. ValidSlots # {} => Newest \in ValidSlots /\ slots[Newest].boot \in Boots
    BY NewestHeld, SlotFacts DEF ValidSlots
<1> QED BY <1>1, DumpBounds DEF Previous, NoBoot

\* What the actions on the contexts do to them.
LEMMA ContextSteps ==
    ASSUME DumpTypes, SlotInv, Rotate \/ RepairSlot \/ DecaySlot
    PROVE  /\ slots' \in [{0, 1} -> Contexts] /\ glitches' \in 0..MaxGlitches
           /\ \A s \in {0, 1} : \/ slots'[s] \in {Torn, slots[0], slots[1]}
                                \/ stage = "rotate" /\ stage' # "rotate" /\ slots'[s] = Current
           /\ stage' = "repair" => ValidSlots' # {}
<1>1. CASE Rotate
    <2>0. stage = "rotate" /\ stage' # "rotate"
        BY <1>1 DEF Rotate
    <2>1. Current \in Contexts /\ Current \notin {Torn, Missing}
        <3>1. Current \in [gen : Boots, boot : Boots]
            BY <2>0, CurrentNewer
        <3>2. Current.boot \in Boots
            BY <3>1
        <3>3. Torn.boot \notin Boots /\ Missing.boot \notin Boots
            BY DumpBounds DEF Missing, Torn, NoBoot
        <3> QED BY <3>1, <3>2, <3>3 DEF Contexts
    <2>2. CASE WriteSlot(StaleSlot, Current)
        <3>1. /\ slots' \in [{0, 1} -> Contexts] /\ glitches' \in 0..MaxGlitches
              /\ \A t \in {0, 1} : slots'[t] \in {slots[t], Torn, Current}
            BY <2>1, <2>2, StaleSlotHeld, SlotWritten
        <3>2. stage' = "repair" => glitches' = glitches
            BY <1>1 DEF Rotate, Glitch
        <3>3. glitches \in Nat
            BY DEF DumpTypes
        <3>4. stage' = "repair" => slots'[StaleSlot] = Current
            BY <2>2, <3>2, <3>3, StaleSlotHeld DEF WriteSlot, Glitch, DumpTypes
        <3>5. stage' = "repair" => StaleSlot \in ValidSlots'
            BY <2>1, <3>4, StaleSlotHeld DEF ValidSlots, Valid
        <3> QED BY <2>0, <3>1, <3>5
    <2>3. CASE Glitch /\ stage' = "attribute" /\ UNCHANGED slots
        BY <2>3, DumpBounds DEF Glitch, DumpTypes
    <2> QED BY <1>1, <2>2, <2>3 DEF Rotate
<1>2. CASE RepairSlot
    <2>1. Newest \in ValidSlots
        BY <1>2, NewestHeld DEF RepairSlot, SlotInv
    <2>2. Newest \in {0, 1} /\ 1 - Newest \in {0, 1}
        BY <2>1 DEF ValidSlots
    <2>3. slots[Newest] \in Contexts /\ slots[Newest] \in {slots[0], slots[1]}
        BY <2>2, SlotFacts
    <2>4. WriteSlot(1 - Newest, slots[Newest]) /\ stage' = "attribute"
        BY <1>2 DEF RepairSlot
    <2>5. /\ slots' \in [{0, 1} -> Contexts] /\ glitches' \in 0..MaxGlitches
          /\ \A t \in {0, 1} : slots'[t] \in {slots[t], Torn, slots[Newest]}
        BY <2>2, <2>3, <2>4, SlotWritten
    <2> QED BY <2>3, <2>4, <2>5
<1>3. CASE DecaySlot
    <2>1. PICK s \in {0, 1} : slots' = [slots EXCEPT ![s] = Torn]
        BY <1>3 DEF DecaySlot, ValidSlots
    <2>2. glitches' \in 0..MaxGlitches /\ stage' = stage /\ stage # "repair"
        BY <1>3, DumpBounds DEF DecaySlot, Glitch, ram, DumpTypes
    <2>3. slots \in [{0, 1} -> Contexts] /\ Torn \in Contexts
        BY DEF DumpTypes, Contexts
    <2> QED BY <2>1, <2>2, <2>3
<1> QED BY <1>1, <1>2, <1>3

\* Every step keeps the types.
LEMMA DumpTypesKept ==
    ASSUME DumpTypes, SlotInv, UploadInv, DumpNext
    PROVE  DumpTypes'
<1>0. TornPin \in Nat /\ Corrupt \in Nat /\ Boots \subseteq Nat /\ NoBoot = 0
      /\ 0..MaxBoots \subseteq 0..TornPin /\ TornPin = MaxBoots + 1 /\ Corrupt = MaxBoots + 1
      /\ \A b \in Boots : b \in 0..MaxBoots
    BY DumpBounds DEF TornPin, Corrupt, NoBoot
<1>g. ASSUME Glitch \/ Works
      PROVE  glitches' \in 0..MaxGlitches
    BY <1>g, DumpBounds DEF Glitch, Works, DumpTypes
<1>1. CASE Rotate
    <2>1. slots' \in [{0, 1} -> Contexts] /\ glitches' \in 0..MaxGlitches
        BY <1>1, ContextSteps
    <2>2. previous' \in 0..MaxBoots
        BY <1>1, <1>0, PreviousHeld, DumpBounds DEF Rotate
    <2> QED BY <1>1, <2>1, <2>2 DEF DumpTypes, Rotate, remote
<1>2. CASE RepairSlot
    <2>1. slots' \in [{0, 1} -> Contexts] /\ glitches' \in 0..MaxGlitches
        BY <1>2, ContextSteps
    <2> QED BY <1>2, <2>1 DEF DumpTypes, RepairSlot, remote
<1>3. CASE LoadPin
    <2>1. attribution' \in 0..MaxBoots
        BY <1>3, <1>0, DumpBounds DEF LoadPin
    <2>2. glitches' \in 0..MaxGlitches
        BY <1>3, <1>g DEF LoadPin
    <2> QED BY <1>3, <2>1, <2>2 DEF DumpTypes, LoadPin, flash, remote
<1>4. CASE ClearStalePin
    <2>1. glitches' \in 0..MaxGlitches /\ pin' \in 0..TornPin
        BY <1>4, <1>0, <1>g DEF ClearStalePin, ClearPin, DumpTypes
    <2> QED BY <1>4, <2>1 DEF DumpTypes, ClearStalePin, remote
<1>5. CASE SavePin
    <2>1. glitches' \in 0..MaxGlitches
        BY <1>5, <1>g DEF SavePin
    <2>2. pin' \in 0..TornPin /\ attribution' \in 0..MaxBoots
        BY <1>5, <1>0 DEF SavePin, DumpTypes
    <2> QED BY <1>5, <2>1, <2>2 DEF DumpTypes, SavePin, remote
<1>6. CASE UndoPin
    <2>1. glitches' \in 0..MaxGlitches /\ pin' \in 0..TornPin
        BY <1>6, <1>0, <1>g DEF UndoPin, ClearPin, DumpTypes
    <2> QED BY <1>6, <2>1 DEF DumpTypes, UndoPin, remote
<1>7. CASE InitializeCoreDump
    <2>1. glitches' \in 0..MaxGlitches /\ pin' \in 0..TornPin
        BY <1>7, <1>0, <1>g DEF InitializeCoreDump, ClearPin, DumpTypes
    <2>2. pending' \in 0..MaxBoots
        <3>1. dump \in 0..Corrupt /\ pending \in 0..MaxBoots /\ MaxBoots \in Nat
            BY DumpBounds DEF DumpTypes
        <3>2. pending' \in {pending, NoBoot} \/ (dump # Corrupt /\ pending' = dump)
            BY <1>7 DEF InitializeCoreDump
        <3> QED BY <1>0, <3>1, <3>2
    <2> QED BY <1>7, <2>1, <2>2 DEF DumpTypes, InitializeCoreDump, remote
<1>8. CASE PostDump
    <2>1. pending # NoBoot /\ pending \in 0..MaxBoots /\ attribution \in Boots
        BY <1>8 DEF PostDump, DumpTypes, UploadInv
    <2>2. pending \in Boots
        BY <1>0, <2>1, DumpBounds
    <2>3. [dump |-> pending, boot |-> attribution] \in Report
        BY <2>1, <2>2 DEF Report
    <2> QED BY <1>8, <2>3 DEF DumpTypes, PostDump, flash
<1>9. CASE IngestDump
    <2>1. PICK report \in posts :
             /\ posts' = posts \ {report}
             /\ \/ /\ rows' = Kept(Append(rows, report)) /\ stored' = stored \cup {report}
                   /\ AnswerReport(report, "durable")
                \/ /\ UNCHANGED <<rows, stored>>
                   /\ AnswerReport(report, "durable") \/ AnswerReport(report, "conflict")
             /\ UNCHANGED <<flash, instance, cause, stage, previous, attribution, pending,
                            glitches, excused>>
        BY <1>9 DEF IngestDump
    <2>2. report \in Report
        BY <2>1 DEF DumpTypes
    <2>3. rows' \in Seq(Report) /\ Len(rows') <= DumpLimit
        BY <2>1, <2>2, RowsIngested DEF DumpTypes
    <2>4. stored' \subseteq Report /\ posts' \subseteq Report
        BY <2>1, <2>2 DEF DumpTypes
    <2>5. upload' \in {"none", "sent", "durable", "conflict"}
        BY <2>1 DEF AnswerReport, DumpTypes
    <2> QED BY <2>1, <2>3, <2>4, <2>5 DEF DumpTypes, flash
<1>10. CASE Retry
    BY <1>10 DEF DumpTypes, Retry, flash, remote
<1>11. CASE EraseDump
    <2>1. glitches' \in 0..MaxGlitches
        BY <1>11, <1>g DEF EraseDump
    <2>2. dump' \in 0..Corrupt /\ pending' \in 0..MaxBoots
        BY <1>11, <1>0, DumpBounds DEF EraseDump, DumpTypes
    <2> QED BY <1>11, <2>1, <2>2 DEF DumpTypes, EraseDump, remote
<1>12. CASE ClearUploadedPin
    <2>1. glitches' \in 0..MaxGlitches /\ pin' \in 0..TornPin
        BY <1>12, <1>0, <1>g DEF ClearUploadedPin, ClearPin, DumpTypes
    <2> QED BY <1>12, <2>1 DEF DumpTypes, ClearUploadedPin, remote
<1>r. ASSUME NEW reason \in {"ordinary", "crash"}, Reset(reason)
      PROVE  /\ instance' \in Boots /\ instance \in 0..Corrupt
             /\ cause' \in {"ordinary", "crash"} /\ stage' = "rotate"
             /\ previous' \in 0..MaxBoots /\ attribution' \in 0..MaxBoots
             /\ pending' \in 0..MaxBoots /\ upload' = "none"
             /\ UNCHANGED <<slots, pin, posts, rows, stored, glitches>>
    BY <1>r, <1>0, DumpBounds DEF Reset, remote, DumpTypes
<1>13. CASE PowerLoss
    BY <1>13, <1>r DEF PowerLoss, DumpTypes
<1>14. CASE Panic
    BY <1>14, <1>r DEF Panic, DumpTypes
<1>15. CASE WatchdogReset
    BY <1>15, <1>r DEF WatchdogReset, DumpTypes
<1>16. CASE DecaySlot
    <2>1. slots' \in [{0, 1} -> Contexts] /\ glitches' \in 0..MaxGlitches
        BY <1>16, ContextSteps
    <2> QED BY <1>16, <2>1 DEF DumpTypes, DecaySlot, ram, remote
<1> QED BY <1>1, <1>2, <1>3, <1>4, <1>5, <1>6, <1>7, <1>8, <1>9, <1>10, <1>11, <1>12,
           <1>13, <1>14, <1>15, <1>16 DEF DumpNext

-----------------------------------------------------------------------------
(* Core dumps: the contexts and the upload, step by step.                  *)

LEMMA SlotInvKept ==
    ASSUME DumpTypes, SlotInv, DumpNext, DumpTypes'
    PROVE  SlotInv'
<1>0. instance \in Nat /\ instance' \in Boots /\ slots' \in [{0, 1} -> Contexts]
    BY DumpBounds DEF DumpTypes
<1>1. CASE Rotate \/ RepairSlot \/ DecaySlot
    <2>1. instance' = instance /\ (stage' = "rotate" => stage = "rotate")
        BY <1>1 DEF Rotate, RepairSlot, DecaySlot, ram
    <2> QED BY <1>0, <1>1, <2>1, ContextSteps, ContextsOrdered
<1>2. CASE PowerLoss \/ Panic \/ WatchdogReset
    <2>1. slots' = slots /\ instance' = instance + 1 /\ stage' = "rotate"
        BY <1>2 DEF PowerLoss, Panic, WatchdogReset, Reset
    <2>2. /\ instance < instance' /\ stage' # "repair"
          /\ \A s \in {0, 1} : slots'[s] \in {Torn, slots[0], slots[1]}
        BY <1>0, <2>1
    <2> QED BY <1>0, <2>1, <2>2, ContextsOrdered
<1>3. CASE UNCHANGED <<slots, instance>> /\ stage' \in {stage, "save", "unpin", "start", "run", "erased"}
    <2>1. /\ instance <= instance' /\ (stage' = "rotate" => stage = "rotate")
          /\ \A s \in {0, 1} : slots'[s] \in {Torn, slots[0], slots[1]}
        BY <1>0, <1>3
    <2>2. stage' = "repair" => ValidSlots' # {}
        BY <1>3 DEF ValidSlots, Valid, SlotInv
    <2> QED BY <1>0, <1>3, <2>1, <2>2, ContextsOrdered
<1>4. CASE LoadPin \/ ClearStalePin \/ SavePin \/ UndoPin \/ InitializeCoreDump
    BY <1>3, <1>4 DEF LoadPin, ClearStalePin, SavePin, UndoPin, InitializeCoreDump, flash
<1>5. CASE PostDump \/ IngestDump \/ Retry \/ EraseDump \/ ClearUploadedPin
    BY <1>3, <1>5 DEF PostDump, IngestDump, Retry, EraseDump, ClearUploadedPin, flash
<1> QED BY <1>1, <1>2, <1>4, <1>5 DEF DumpNext

LEMMA UploadInvKept ==
    ASSUME DumpTypes, UploadInv, DumpNext
    PROVE  UploadInv'
<1>0. ASSUME UNCHANGED <<rows, stored>>
      PROVE  \A i \in DOMAIN rows' : rows'[i] \in stored'
    BY <1>0 DEF UploadInv
<1>1. CASE Rotate \/ RepairSlot \/ LoadPin \/ ClearStalePin
    <2>1. pending = NoBoot /\ upload = "none"
        BY <1>1 DEF UploadInv, Rotate, RepairSlot, LoadPin, ClearStalePin
    <2>2. pending' = NoBoot /\ upload' = "none" /\ UNCHANGED <<rows, stored>>
        BY <1>1, <2>1 DEF Rotate, RepairSlot, LoadPin, ClearStalePin, remote
    <2> QED BY <1>0, <2>2 DEF UploadInv
<1>2. CASE SavePin \/ UndoPin \/ ClearUploadedPin
    <2>1. pending = NoBoot /\ upload = "none"
        BY <1>2 DEF UploadInv, SavePin, UndoPin, ClearUploadedPin
    <2>2. pending' = NoBoot /\ upload' = "none" /\ UNCHANGED <<rows, stored>>
        BY <1>2, <2>1 DEF SavePin, UndoPin, ClearUploadedPin, remote
    <2> QED BY <1>0, <2>2 DEF UploadInv
<1>3. CASE InitializeCoreDump
    <2>1. pending = NoBoot /\ upload = "none"
        BY <1>3 DEF UploadInv, InitializeCoreDump
    <2>2. upload' = "none" /\ stage' = "run" /\ UNCHANGED <<attribution, dump, rows, stored>>
        BY <1>3, <2>1 DEF InitializeCoreDump, remote
    <2>3. pending' # NoBoot => attribution # NoBoot /\ pending' = dump
        BY <1>3, <2>1 DEF InitializeCoreDump
    <2>4. attribution # NoBoot => attribution \in Boots
        BY DumpBounds DEF DumpTypes, NoBoot
    <2> QED BY <1>0, <2>2, <2>3, <2>4 DEF UploadInv
<1>4. CASE PostDump
    BY <1>4, <1>0 DEF UploadInv, PostDump, flash
<1>5. CASE IngestDump
    <2>1. UNCHANGED <<dump, stage, attribution, pending>>
        BY <1>5 DEF IngestDump, flash
    <2>2. PICK report \in posts :
             \/ /\ rows' = Kept(Append(rows, report)) /\ stored' = stored \cup {report}
                /\ AnswerReport(report, "durable")
             \/ /\ UNCHANGED <<rows, stored>>
                /\ \/ (\E i \in DOMAIN rows : rows[i] = report) /\ AnswerReport(report, "durable")
                   \/ AnswerReport(report, "conflict")
        BY <1>5 DEF IngestDump
    <2>3. report \in Report
        BY <2>2 DEF DumpTypes
    <2>4. \A i \in DOMAIN rows' : rows'[i] \in stored'
        BY <2>2, <2>3, RowsIngested DEF UploadInv
    <2>5. stored \subseteq stored'
        BY <2>2
    <2>6. \/ upload' = upload
          \/ upload = "sent" /\ upload' = "conflict"
          \/ /\ upload = "sent" /\ upload' = "durable"
             /\ report = [dump |-> pending, boot |-> attribution] /\ report \in stored'
        BY <2>2 DEF AnswerReport, UploadInv
    <2>7. upload' = "durable" => [dump |-> pending, boot |-> attribution] \in stored'
        BY <2>5, <2>6 DEF UploadInv
    <2> QED BY <2>1, <2>4, <2>6, <2>7 DEF UploadInv
<1>6. CASE Retry
    BY <1>6, <1>0 DEF UploadInv, Retry, flash, remote
<1>7. CASE EraseDump
    BY <1>7, <1>0 DEF UploadInv, EraseDump, remote
<1>8. CASE PowerLoss \/ Panic \/ WatchdogReset
    BY <1>8, <1>0 DEF UploadInv, PowerLoss, Panic, WatchdogReset, Reset, remote
<1>9. CASE DecaySlot
    BY <1>9, <1>0 DEF UploadInv, DecaySlot, ram, remote
<1> QED BY <1>1, <1>2, <1>3, <1>4, <1>5, <1>6, <1>7, <1>8, <1>9 DEF DumpNext

-----------------------------------------------------------------------------
(* Core dumps: whose they are said to be, step by step.                    *)

LEMMA ExcusedGrows ==
    ASSUME DumpNext
    PROVE  excused \subseteq excused'
BY DEF DumpNext, Rotate, RepairSlot, LoadPin, ClearStalePin, SavePin, UndoPin,
       InitializeCoreDump, PostDump, IngestDump, Retry, EraseDump, ClearUploadedPin,
       PowerLoss, Panic, WatchdogReset, DecaySlot

\* The identity a boot after a crash finds is that of the boot that crashed.
LEMMA PreviousCrashed ==
    ASSUME DumpTypes, SlotInv, stage = "rotate", dump \in Boots, dump + 1 = instance,
           Unjudged \/ \E s \in {0, 1} : slots[s].boot = dump,
           Previous # NoBoot
    PROVE  Previous = dump
<1>1. ~Unjudged /\ Newest \in ValidSlots /\ Previous = slots[Newest].boot
    BY PreviousHeld
<1>2. PICK s \in {0, 1} : slots[s].boot = dump
    BY <1>1
<1>3. s \in ValidSlots
    BY <1>2, SlotFacts
<1>4. slots[s].gen \in Nat /\ slots[Newest].gen \in Nat /\ slots[Newest].boot \in Nat
    BY <1>1, <1>3, SlotFacts, DumpBounds DEF ValidSlots
<1>5. slots[s].gen <= slots[Newest].gen
    BY <1>3, NewestHeld
<1>6. slots[s].boot <= slots[Newest].boot /\ slots[Newest].boot < instance
    BY <1>1, <1>2, <1>3, <1>4, <1>5, DumpBounds DEF SlotInv
<1>7. dump \in Nat
    BY DumpBounds
<1> QED BY <1>1, <1>2, <1>4, <1>6, <1>7

LEMMA BlameInvKept ==
    ASSUME DumpTypes, SlotInv, UploadInv, BlameInv, DumpNext
    PROVE  BlameInv'
<1> SUFFICES ASSUME excused' = {} PROVE BlameInv'
    BY DEF BlameInv
<1>0. excused = {}
    BY ExcusedGrows
<1>a. /\ \A r \in stored \cup posts : r.boot = r.dump
      /\ pending # NoBoot => attribution = pending
      /\ stage = "save" => cause = "crash"
    BY <1>0 DEF BlameInv
<1>b. dump \in Boots =>
          /\ attribution # NoBoot => attribution = dump
          /\ pin \in Boots => pin = dump \/ (cause = "crash" /\ stage \in CrashStages)
          /\ cause = "crash" /\ stage \in {"repair", "attribute", "save"} /\ previous # NoBoot
                 => previous = dump
          /\ cause = "crash" /\ stage = "rotate" =>
                 dump + 1 = instance /\ (Unjudged \/ \E s \in {0, 1} : slots[s].boot = dump)
    BY <1>0 DEF BlameInv
<1>1. CASE Rotate
    <2>1. UNCHANGED <<stored, posts, pending, attribution, dump, pin, cause, instance>>
          /\ stage = "rotate" /\ stage' \in {"repair", "attribute"}
        BY <1>1 DEF Rotate, remote
    <2>2. previous' = NoBoot \/ previous' = Previous
        BY <1>1 DEF Rotate
    <2>3. dump \in Boots /\ cause = "crash" /\ previous' # NoBoot => previous' = dump
        BY <1>b, <2>1, <2>2, PreviousCrashed
    <2> QED BY <1>a, <1>b, <2>1, <2>3 DEF BlameInv, CrashStages
<1>2. CASE RepairSlot
    <2>1. UNCHANGED <<stored, posts, pending, attribution, dump, pin, cause, previous>>
          /\ stage = "repair" /\ stage' = "attribute"
        BY <1>2 DEF RepairSlot, remote
    <2> QED BY <1>a, <1>b, <2>1 DEF BlameInv, CrashStages
<1>3. CASE LoadPin
    <2>1. UNCHANGED <<stored, posts, pending, dump, pin, cause>>
          /\ stage = "attribute" /\ stage' = "start" /\ cause = "ordinary"
          /\ (attribution' = NoBoot \/ (pin \in Boots /\ attribution' = pin))
        BY <1>3 DEF LoadPin, flash, remote
    <2>2. pending = NoBoot
        BY <2>1 DEF UploadInv
    <2> QED BY <1>a, <1>b, <2>1, <2>2 DEF BlameInv, CrashStages
<1>4. CASE ClearStalePin
    <2>1. UNCHANGED <<stored, posts, pending, attribution, dump, cause, previous>>
          /\ stage = "attribute" /\ stage' \in {"start", "save"} /\ cause = "crash"
        BY <1>4 DEF ClearStalePin, remote
    <2>2. pin' = NoBoot
        BY <1>4 DEF ClearStalePin
    <2> QED BY <1>a, <1>b, <2>1, <2>2, DumpBounds DEF BlameInv
<1>5. CASE SavePin
    <2>1. UNCHANGED <<stored, posts, pending, dump, cause, previous>>
          /\ stage = "save" /\ stage' \in {"start", "unpin"}
          /\ (attribution' = previous \/ attribution' = attribution)
          /\ pin' \in {pin, TornPin, previous}
        BY <1>5 DEF SavePin, remote
    <2>2. pending = NoBoot
        BY <2>1 DEF UploadInv
    <2> QED BY <1>a, <1>b, <2>1, <2>2, DumpBounds DEF BlameInv, CrashStages
<1>6. CASE UndoPin
    <2>1. UNCHANGED <<stored, posts, pending, attribution, dump, cause, previous>>
          /\ stage = "unpin" /\ stage' = "start" /\ pin' \in {pin, NoBoot}
        BY <1>6 DEF UndoPin, ClearPin, remote
    <2> QED BY <1>a, <1>b, <2>1, DumpBounds DEF BlameInv, CrashStages
<1>7. CASE InitializeCoreDump
    <2>1. UNCHANGED <<stored, posts, attribution, dump, cause, previous>>
          /\ stage = "start" /\ stage' = "run"
          /\ (pin' = pin \/ pin' = NoBoot)
        BY <1>7 DEF InitializeCoreDump, ClearPin, remote
    <2>2. pending = NoBoot
        BY <2>1 DEF UploadInv
    <2>3. pending' # NoBoot =>
              pending' = dump /\ attribution # NoBoot /\ dump # Corrupt /\ dump # NoBoot
        BY <1>7, <2>2 DEF InitializeCoreDump
    <2>4. dump \in Boots \/ dump = Corrupt \/ dump = NoBoot
        BY DumpBounds DEF DumpTypes, Boots, Corrupt, NoBoot
    <2> QED BY <1>a, <1>b, <2>1, <2>3, <2>4, DumpBounds DEF BlameInv, CrashStages
<1>8. CASE PostDump
    <2>1. UNCHANGED <<stored, pending, attribution, dump, pin, cause, previous, stage>>
          /\ posts' = posts \cup {[dump |-> pending, boot |-> attribution]}
          /\ pending # NoBoot /\ stage = "run"
        BY <1>8 DEF PostDump, flash
    <2>2. \A r \in stored' \cup posts' : r.boot = r.dump
        BY <1>a, <2>1
    <2> QED BY <1>a, <1>b, <2>1, <2>2 DEF BlameInv
<1>9. CASE IngestDump
    <2>1. UNCHANGED <<pending, attribution, slots, instance, dump, pin, cause, previous, stage>>
          /\ stored' \cup posts' \subseteq stored \cup posts
        BY <1>9 DEF IngestDump, flash
    <2>2. Unjudged' = Unjudged
        BY <2>1 DEF Unjudged, Invalid, Ambiguous, Valid
    <2> QED BY <1>a, <1>b, <2>1, <2>2 DEF BlameInv
<1>10. CASE Retry
    <2>1. UNCHANGED <<pending, attribution, slots, instance, dump, pin, cause, previous, stage,
                      stored, posts>>
        BY <1>10 DEF Retry, flash, remote
    <2>2. Unjudged' = Unjudged
        BY <2>1 DEF Unjudged, Invalid, Ambiguous, Valid
    <2> QED BY <1>a, <1>b, <2>1, <2>2 DEF BlameInv
<1>11. CASE EraseDump
    <2>1. UNCHANGED <<attribution, pin, cause, previous, stored, posts>>
          /\ stage = "run" /\ stage' \in {"run", "erased"} /\ pending' \in {NoBoot, pending}
          /\ dump' \in {NoBoot, dump, Corrupt}
        BY <1>11 DEF EraseDump, remote
    <2> QED BY <1>a, <1>b, <2>1, DumpBounds DEF BlameInv, CrashStages
<1>12. CASE ClearUploadedPin
    <2>1. UNCHANGED <<stored, posts, pending, attribution, dump, cause, previous>>
          /\ stage = "erased" /\ stage' = "run" /\ pin' \in {pin, NoBoot}
        BY <1>12 DEF ClearUploadedPin, ClearPin, remote
    <2> QED BY <1>a, <1>b, <2>1, DumpBounds DEF BlameInv, CrashStages
<1>r. ASSUME NEW reason, Reset(reason)
      PROVE  /\ UNCHANGED <<slots, pin, stored, posts>>
             /\ instance' = instance + 1 /\ cause' = reason /\ stage' = "rotate"
             /\ previous' = NoBoot /\ attribution' = NoBoot /\ pending' = NoBoot
    BY <1>r DEF Reset, remote
<1>13. CASE PowerLoss
    <2>1. dump' = dump /\ ~(cause = "crash" /\ pin # NoBoot /\ stage \in CrashStages)
        BY <1>13 DEF PowerLoss, CrashStages
    <2>2. Reset("ordinary")
        BY <1>13 DEF PowerLoss
    <2> QED BY <1>a, <1>b, <1>r, <2>1, <2>2, DumpBounds DEF BlameInv
<1>14. CASE Panic
    <2>1. dump' = instance /\ \E s \in {0, 1} : slots[s].boot = instance
        BY <1>14 DEF Panic
    <2>2. Reset("crash")
        BY <1>14 DEF Panic
    <2> QED BY <1>a, <1>r, <2>1, <2>2 DEF BlameInv, CrashStages
<1>15. CASE WatchdogReset
    <2>1. dump' = dump /\ dump \notin Boots
        BY <1>15 DEF WatchdogReset
    <2>2. Reset("crash")
        BY <1>15 DEF WatchdogReset
    <2> QED BY <1>a, <1>r, <2>1, <2>2 DEF BlameInv
<1>16. CASE DecaySlot
    <2>1. UNCHANGED <<pending, attribution, instance, dump, pin, cause, previous, stage,
                      stored, posts>>
        BY <1>16 DEF DecaySlot, ram, remote
    <2>2. PICK s \in {0, 1} : slots' = [slots EXCEPT ![s] = Torn]
        BY <1>16 DEF DecaySlot, ValidSlots
    <2>3. slots'[s] = Torn
        BY <2>2 DEF DumpTypes
    <2>4. Unjudged'
        BY <2>3 DEF Unjudged, Invalid
    <2> QED BY <1>a, <1>b, <2>1, <2>4 DEF BlameInv
<1> QED BY <1>1, <1>2, <1>3, <1>4, <1>5, <1>6, <1>7, <1>8, <1>9, <1>10, <1>11, <1>12,
           <1>13, <1>14, <1>15, <1>16 DEF DumpNext

-----------------------------------------------------------------------------
(* Core dumps: the theorems.                                               *)

LEMMA DumpInvInitial ==
    ASSUME DumpInit
    PROVE  DumpInv
<1>1. ValidSlots = {} /\ slots \in [{0, 1} -> Contexts]
    BY DEF DumpInit, ValidSlots, Valid, Contexts
<1>2. rows \in Seq(Report) /\ Len(rows) = 0 /\ DOMAIN rows = {}
    BY EmptySeq DEF DumpInit
<1>3. NoBoot \in 0..MaxBoots /\ NoBoot \in 0..TornPin /\ NoBoot \in 0..Corrupt
    BY DumpBounds DEF NoBoot, TornPin, Corrupt
<1>4. DumpTypes
    BY <1>1, <1>2, <1>3, DumpBounds DEF DumpInit, DumpTypes
<1>5. SlotInv
    BY <1>1 DEF DumpInit, SlotInv
<1>6. UploadInv
    BY <1>2 DEF DumpInit, UploadInv
<1>7. BlameInv
    BY DumpBounds DEF DumpInit, BlameInv
<1> QED BY <1>4, <1>5, <1>6, <1>7 DEF DumpInv

LEMMA DumpInvKept ==
    ASSUME DumpInv, [DumpNext]_coreDumpVars
    PROVE  DumpInv'
<1>1. CASE DumpNext
    <2>1. DumpTypes /\ SlotInv /\ UploadInv /\ BlameInv
        BY DEF DumpInv
    <2>2. DumpTypes'
        BY <1>1, <2>1, DumpTypesKept
    <2>3. SlotInv' /\ UploadInv' /\ BlameInv'
        BY <1>1, <2>1, <2>2, SlotInvKept, UploadInvKept, BlameInvKept
    <2> QED BY <2>2, <2>3 DEF DumpInv
<1>2. CASE UNCHANGED coreDumpVars
    BY <1>2 DEF coreDumpVars, flash, ram, remote, DumpInv, DumpTypes, SlotInv, UploadInv, BlameInv,
                ValidSlots, Valid, Unjudged, Invalid, Ambiguous
<1> QED BY <1>1, <1>2

\* What crash_context.cpp and core_dump_upload.cpp keep between the two slots,
\* the pin, the dump and the reports under way, whatever is reset and fails.
THEOREM DumpInvariance == DumpSpec => []DumpInv
BY DumpInvInitial, DumpInvKept, PTL DEF DumpSpec

\* Every variable has its type, and an upload is of the dump in flash.
THEOREM DumpTypeCorrect == DumpSpec => []DumpTypeOK
<1>1. DumpInv => DumpTypeOK
    <2> SUFFICES ASSUME DumpInv PROVE DumpTypeOK
        OBVIOUS
    <2>1. \A s \in {0, 1} : slots[s] \in {Missing, Torn} \cup [gen : 1..MaxBoots, boot : Boots]
        BY DEF DumpInv, DumpTypes, Contexts, Boots
    <2>2. pending # NoBoot => dump \in {pending, Corrupt} /\ attribution \in Boots
        BY DEF DumpInv, UploadInv
    <2> QED BY <2>1, <2>2 DEF DumpInv, DumpTypes, DumpTypeOK
<1> QED BY <1>1, DumpInvariance, PTL

\* A dump is reported under the boot that crashed, unless a reset came that
\* leaves the code no way to know it.
THEOREM DumpsAttributed == DumpSpec => []AttributedUnlessExcused
<1>1. DumpInv => AttributedUnlessExcused
    BY DEF DumpInv, BlameInv, AttributedUnlessExcused, Attributed
<1> QED BY <1>1, DumpInvariance, PTL

\* A dump leaves the flash once the server has it, or for that of a later crash.
THEOREM DumpsKept == DumpSpec => DumpKept
<1>1. ASSUME DumpInv, [DumpNext]_coreDumpVars
      PROVE  [dump' # dump /\ dump \in Boots =>
                  dump \in {r.dump : r \in stored} \/ dump' = instance]_coreDumpVars
    <2>1. dump' = dump \/ EraseDump \/ Panic
        BY <1>1 DEF DumpNext, coreDumpVars, flash, ram, remote, Rotate, RepairSlot, LoadPin,
               ClearStalePin, SavePin, UndoPin, InitializeCoreDump, PostDump, IngestDump, Retry,
               ClearUploadedPin, PowerLoss, WatchdogReset, DecaySlot
    <2>2. CASE EraseDump /\ dump \in Boots
        <3>1. upload = "durable"
            BY <2>2 DEF EraseDump, Durable
        <3>2. [dump |-> pending, boot |-> attribution] \in stored /\ dump \in {pending, Corrupt}
            BY <1>1, <3>1 DEF DumpInv, UploadInv
        <3>3. dump = pending
            BY <2>2, <3>2, DumpBounds
        <3> QED BY <3>2, <3>3
    <2>3. CASE Panic
        BY <2>3 DEF Panic
    <2> QED BY <2>1, <2>2, <2>3
<1> QED BY <1>1, DumpInvariance, PTL DEF DumpSpec, DumpKept

-----------------------------------------------------------------------------
(* The answers of the server.                                              *)

\* What is said of a served answer: each member once, each with a value its
\* parser takes, and, unless it only informs or is free, with the only one.
Parts(ms) == {ms[i] : i \in 1..Len(ms)}

Shaped(ms, known, free) ==
    /\ Len(ms) \in Nat /\ DOMAIN ms = 1..Len(ms) /\ ms \in Seq(Parts(ms))
    /\ \A i \in DOMAIN ms : ms[i] = ms[i].name ^^ ms[i].value
    /\ \A i, j \in DOMAIN ms : ms[i].name = ms[j].name => i = j
    /\ \A i \in DOMAIN ms :
         /\ ms[i].name \in DOMAIN known /\ ms[i].value \in known[ms[i].name]
         /\ ms[i].name \notin Informational \cup free => known[ms[i].name] = {ms[i].value}

\* What is a function on 1..n is a sequence.
LEMMA IsSequence ==
    ASSUME NEW n \in Nat, NEW S, NEW f \in [1..n -> S]
    PROVE  f \in Seq(S)
    BY SeqDef

\* The numbers the server writes.
LEMMA Known ==
    /\ Num(0) \in Numbers /\ Num(1) \in Numbers /\ Num(1) \in Positive /\ Num(Seq0) \in Positive
    /\ \A n \in 0..Count : Num(n) \in Numbers /\ Num(Count - n) \in Numbers
    /\ \A n \in 1..Count : Num(n) \in Positive /\ Num(n) \in Numbers
    /\ Num(Count) \in Numbers
    /\ \A n \in 0..1 : Num(n) \in Numbers /\ Num(n) \in InRange
    /\ Num(1) \in FromOne
    BY AnswersAssumption DEF Num, Numbers, Positive, Seq0, Over, InRange, FromOne

\* Each kind of answer, member by member.
LEMMA IngestShaped ==
    ASSUME NEW n \in 0..Count, NEW r \in 0..1,
           NEW ms, ms = ServedIngest(n, r)
    PROVE  /\ Shaped(ms, IngestAck, {"stored", "duplicates"})
           /\ Names(ms) = DOMAIN IngestAck
<1>1. /\ ms[1].name = "batch_id" /\ ms[2].name = "stored"
      /\ ms[3].name = "duplicates" /\ ms[4].name = "max_seq"
      /\ ms[5].name = "server_utc_ms" /\ ms[6].name = "desired_config_revision"
    BY DEF ServedIngest, ^^
<1>2. Len(ms) = 6 /\ DOMAIN ms = 1..6
    BY DEF ServedIngest, ^^
<1>3. ms \in [1..6 -> Parts(ms)]
    BY <1>2 DEF Parts, ServedIngest, IngestAck, ^^
<1>4. ms \in Seq(Parts(ms))
    BY <1>3, IsSequence
<1>5. \A i \in 1..6 : ms[i] = ms[i].name ^^ ms[i].value
    BY DEF ServedIngest, ^^
<1>6. \A i, j \in 1..6 : ms[i].name = ms[j].name => i = j
    BY <1>1
<1>7. \A i \in 1..6 :
         ms[i].name \in DOMAIN IngestAck /\ ms[i].value \in IngestAck[ms[i].name]
    BY Known, <1>1 DEF ServedIngest, IngestAck, ^^, Own, Yes, AnyText, AnyUtf8, Text
<1>8. \A i \in 1..6 :
         ms[i].name \notin Informational \cup {"stored", "duplicates"}
           => IngestAck[ms[i].name] = {ms[i].value}
    BY <1>1 DEF ServedIngest, IngestAck, ^^, Own, Yes, Informational, FromOne
<1>9. Names(ms) = DOMAIN IngestAck
    BY <1>1, <1>2, <1>7 DEF Names, IngestAck
<1> QED BY <1>2, <1>4, <1>5, <1>6, <1>7, <1>8, <1>9 DEF Shaped

LEMMA FeedbackShaped ==
    ASSUME NEW at \in {Null, Num(1)}, NEW d \in Either,
           NEW ms, ms = ServedFeedback(at, d)
    PROVE  /\ Shaped(ms, FeedbackAck, {"duplicate"})
           /\ Names(ms) = DOMAIN FeedbackAck
<1>1. /\ ms[1].name = "feedback_id" /\ ms[2].name = "device_id"
      /\ ms[3].name = "boot_id" /\ ms[4].name = "seq"
      /\ ms[5].name = "created_at_ms" /\ ms[6].name = "occurred_at_ms"
      /\ ms[7].name = "occurred_uptime_ms" /\ ms[8].name = "time_quality"
      /\ ms[9].name = "actual_presence" /\ ms[10].name = "observed_state"
      /\ ms[11].name = "source" /\ ms[12].name = "note"
      /\ ms[13].name = "duplicate"
    BY DEF ServedFeedback, ^^
<1>2. Len(ms) = 13 /\ DOMAIN ms = 1..13
    BY DEF ServedFeedback, ^^
<1>3. ms \in [1..13 -> Parts(ms)]
    BY <1>2 DEF Parts, ServedFeedback, FeedbackAck, ^^
<1>4. ms \in Seq(Parts(ms))
    BY <1>3, IsSequence
<1>5. \A i \in 1..13 : ms[i] = ms[i].name ^^ ms[i].value
    BY DEF ServedFeedback, ^^
<1>6. \A i, j \in 1..13 : ms[i].name = ms[j].name => i = j
    BY <1>1
<1>7. \A i \in 1..13 :
         ms[i].name \in DOMAIN FeedbackAck /\ ms[i].value \in FeedbackAck[ms[i].name]
    BY Known, <1>1 DEF ServedFeedback, FeedbackAck, ^^, Own, Yes, AnyText, AnyUtf8, Text
<1>8. \A i \in 1..13 :
         ms[i].name \notin Informational \cup {"duplicate"}
           => FeedbackAck[ms[i].name] = {ms[i].value}
    BY <1>1 DEF ServedFeedback, FeedbackAck, ^^, Own, Yes, Informational, FromOne
<1>9. Names(ms) = DOMAIN FeedbackAck
    BY <1>1, <1>2, <1>7 DEF Names, FeedbackAck
<1>10. Len(ms) \in Nat /\ DOMAIN ms = 1..Len(ms)
    BY <1>2
<1>11. /\ \A i \in DOMAIN ms : ms[i] = ms[i].name ^^ ms[i].value
       /\ \A i, j \in DOMAIN ms : ms[i].name = ms[j].name => i = j
    BY <1>2, <1>5, <1>6
<1>12. \A i \in DOMAIN ms :
          /\ ms[i].name \in DOMAIN FeedbackAck /\ ms[i].value \in FeedbackAck[ms[i].name]
          /\ ms[i].name \notin Informational \cup {"duplicate"}
               => FeedbackAck[ms[i].name] = {ms[i].value}
    BY <1>2, <1>7, <1>8
<1> QED BY <1>4, <1>9, <1>10, <1>11, <1>12 DEF Shaped

LEMMA ReleaseStatusShaped ==
    ASSUME NEW d \in Either, NEW c \in Either,
           NEW ms, ms = ServedReleaseStatus(d, c)
    PROVE  /\ Shaped(ms, ReleaseStatusAck, {"duplicate", "desired_release_completed"})
           /\ Names(ms) = DOMAIN ReleaseStatusAck
<1>1. /\ ms[1].name = "status_id" /\ ms[2].name = "duplicate"
      /\ ms[3].name = "server_utc_ms" /\ ms[4].name = "desired_release_completed"
    BY DEF ServedReleaseStatus, ^^
<1>2. Len(ms) = 4 /\ DOMAIN ms = 1..4
    BY DEF ServedReleaseStatus, ^^
<1>3. ms \in [1..4 -> Parts(ms)]
    BY <1>2 DEF Parts, ServedReleaseStatus, ReleaseStatusAck, ^^
<1>4. ms \in Seq(Parts(ms))
    BY <1>3, IsSequence
<1>5. \A i \in 1..4 : ms[i] = ms[i].name ^^ ms[i].value
    BY DEF ServedReleaseStatus, ^^
<1>6. \A i, j \in 1..4 : ms[i].name = ms[j].name => i = j
    BY <1>1
<1>7. \A i \in 1..4 :
         ms[i].name \in DOMAIN ReleaseStatusAck /\ ms[i].value \in ReleaseStatusAck[ms[i].name]
    BY Known, <1>1 DEF ServedReleaseStatus, ReleaseStatusAck, ^^, Own, Yes, AnyText, AnyUtf8, Text
<1>8. \A i \in 1..4 :
         ms[i].name \notin Informational \cup {"duplicate", "desired_release_completed"}
           => ReleaseStatusAck[ms[i].name] = {ms[i].value}
    BY <1>1 DEF ServedReleaseStatus, ReleaseStatusAck, ^^, Own, Yes, Informational, FromOne
<1>9. Names(ms) = DOMAIN ReleaseStatusAck
    BY <1>1, <1>2, <1>7 DEF Names, ReleaseStatusAck
<1> QED BY <1>2, <1>4, <1>5, <1>6, <1>7, <1>8, <1>9 DEF Shaped

LEMMA CoreDumpShaped ==
    ASSUME NEW d \in Either,
           NEW ms, ms = ServedCoreDump(d)
    PROVE  /\ Shaped(ms, CoreDumpAck, {"duplicate"})
           /\ Names(ms) = DOMAIN CoreDumpAck
<1>1. /\ ms[1].name = "crash_id" /\ ms[2].name = "duplicate"
      /\ ms[3].name = "durable" /\ ms[4].name = "server_utc_ms"
      /\ ms[5].name = "symbolication_status"
    BY DEF ServedCoreDump, ^^
<1>2. Len(ms) = 5 /\ DOMAIN ms = 1..5
    BY DEF ServedCoreDump, ^^
<1>3. ms \in [1..5 -> Parts(ms)]
    BY <1>2 DEF Parts, ServedCoreDump, CoreDumpAck, ^^
<1>4. ms \in Seq(Parts(ms))
    BY <1>3, IsSequence
<1>5. \A i \in 1..5 : ms[i] = ms[i].name ^^ ms[i].value
    BY DEF ServedCoreDump, ^^
<1>6. \A i, j \in 1..5 : ms[i].name = ms[j].name => i = j
    BY <1>1
<1>7. \A i \in 1..5 :
         ms[i].name \in DOMAIN CoreDumpAck /\ ms[i].value \in CoreDumpAck[ms[i].name]
    BY Known, <1>1 DEF ServedCoreDump, CoreDumpAck, ^^, Own, Yes, AnyText, AnyUtf8, Text
<1>8. \A i \in 1..5 :
         ms[i].name \notin Informational \cup {"duplicate"}
           => CoreDumpAck[ms[i].name] = {ms[i].value}
    BY <1>1 DEF ServedCoreDump, CoreDumpAck, ^^, Own, Yes, Informational, FromOne
<1>9. Names(ms) = DOMAIN CoreDumpAck
    BY <1>1, <1>2, <1>7 DEF Names, CoreDumpAck
<1> QED BY <1>2, <1>4, <1>5, <1>6, <1>7, <1>8, <1>9 DEF Shaped

LEMMA LogShaped ==
    ASSUME NEW n \in 0..Count,
           NEW ms, ms = ServedLog(n)
    PROVE  /\ Shaped(ms, OperationalLogAck, {"stored", "duplicates"})
           /\ Names(ms) = DOMAIN OperationalLogAck
<1>1. /\ ms[1].name = "batch_id" /\ ms[2].name = "stored"
      /\ ms[3].name = "duplicates" /\ ms[4].name = "server_utc_ms"
      /\ ms[5].name = "retained_records"
    BY DEF ServedLog, ^^
<1>2. Len(ms) = 5 /\ DOMAIN ms = 1..5
    BY DEF ServedLog, ^^
<1>3. ms \in [1..5 -> Parts(ms)]
    BY <1>2 DEF Parts, ServedLog, OperationalLogAck, ^^
<1>4. ms \in Seq(Parts(ms))
    BY <1>3, IsSequence
<1>5. \A i \in 1..5 : ms[i] = ms[i].name ^^ ms[i].value
    BY DEF ServedLog, ^^
<1>6. \A i, j \in 1..5 : ms[i].name = ms[j].name => i = j
    BY <1>1
<1>7. \A i \in 1..5 :
         ms[i].name \in DOMAIN OperationalLogAck /\ ms[i].value \in OperationalLogAck[ms[i].name]
    BY Known, <1>1 DEF ServedLog, OperationalLogAck, ^^, Own, Yes, AnyText, AnyUtf8, Text
<1>8. \A i \in 1..5 :
         ms[i].name \notin Informational \cup {"stored", "duplicates"}
           => OperationalLogAck[ms[i].name] = {ms[i].value}
    BY <1>1 DEF ServedLog, OperationalLogAck, ^^, Own, Yes, Informational, FromOne
<1>9. Names(ms) = DOMAIN OperationalLogAck
    BY <1>1, <1>2, <1>7 DEF Names, OperationalLogAck
<1> QED BY <1>2, <1>4, <1>5, <1>6, <1>7, <1>8, <1>9 DEF Shaped

LEMMA AckShaped ==
    ASSUME NEW d \in Either,
           NEW ms, ms = ServedAck(d)
    PROVE  /\ Shaped(ms, CommandAck, {"duplicate"})
           /\ Names(ms) = DOMAIN CommandAck
<1>1. /\ ms[1].name = "ack_id" /\ ms[2].name = "command_id"
      /\ ms[3].name = "status" /\ ms[4].name = "duplicate"
      /\ ms[5].name = "server_utc_ms"
    BY DEF ServedAck, ^^
<1>2. Len(ms) = 5 /\ DOMAIN ms = 1..5
    BY DEF ServedAck, ^^
<1>3. ms \in [1..5 -> Parts(ms)]
    BY <1>2 DEF Parts, ServedAck, CommandAck, ^^
<1>4. ms \in Seq(Parts(ms))
    BY <1>3, IsSequence
<1>5. \A i \in 1..5 : ms[i] = ms[i].name ^^ ms[i].value
    BY DEF ServedAck, ^^
<1>6. \A i, j \in 1..5 : ms[i].name = ms[j].name => i = j
    BY <1>1
<1>7. \A i \in 1..5 :
         ms[i].name \in DOMAIN CommandAck /\ ms[i].value \in CommandAck[ms[i].name]
    BY Known, <1>1 DEF ServedAck, CommandAck, ^^, Own, Yes, AnyText, AnyUtf8, Text
<1>8. \A i \in 1..5 :
         ms[i].name \notin Informational \cup {"duplicate"}
           => CommandAck[ms[i].name] = {ms[i].value}
    BY <1>1 DEF ServedAck, CommandAck, ^^, Own, Yes, Informational, FromOne
<1>9. Names(ms) = DOMAIN CommandAck
    BY <1>1, <1>2, <1>7 DEF Names, CommandAck
<1> QED BY <1>2, <1>4, <1>5, <1>6, <1>7, <1>8, <1>9 DEF Shaped

LEMMA ConfigShaped ==
    ASSUME NEW row \in 0..1, NEW at \in {Null, Num(1)},
           NEW by \in {Null, Text("own"), Text("escaped")},
           NEW ms, ms = ServedConfig(row, at, by)
    PROVE  /\ Shaped(ms, ConfigResponse, {})
           /\ Names(ms) = DOMAIN ConfigResponse
<1>1. /\ ms[1].name = "device_id" /\ ms[2].name = "revision"
      /\ ms[3].name = "created_at_ms" /\ ms[4].name = "created_by"
      /\ ms[5].name = "config"
    BY DEF ServedConfig, ^^
<1>2. Len(ms) = 5 /\ DOMAIN ms = 1..5
    BY DEF ServedConfig, ^^
<1>3. ms \in [1..5 -> Parts(ms)]
    BY <1>2 DEF Parts, ServedConfig, ConfigResponse, ^^
<1>4. ms \in Seq(Parts(ms))
    BY <1>3, IsSequence
<1>5. \A i \in 1..5 : ms[i] = ms[i].name ^^ ms[i].value
    BY DEF ServedConfig, ^^
<1>6. \A i, j \in 1..5 : ms[i].name = ms[j].name => i = j
    BY <1>1
<1>7. \A i \in 1..5 :
         ms[i].name \in DOMAIN ConfigResponse /\ ms[i].value \in ConfigResponse[ms[i].name]
    BY Known, <1>1 DEF ServedConfig, ConfigResponse, ^^, Own, Yes, AnyText, AnyUtf8, Text
<1>8. \A i \in 1..5 :
         ms[i].name \notin Informational \cup {}
           => ConfigResponse[ms[i].name] = {ms[i].value}
    BY <1>1 DEF ServedConfig, ConfigResponse, ^^, Own, Yes, Informational, FromOne
<1>9. Names(ms) = DOMAIN ConfigResponse
    BY <1>1, <1>2, <1>7 DEF Names, ConfigResponse
<1> QED BY <1>2, <1>4, <1>5, <1>6, <1>7, <1>8, <1>9 DEF Shaped

LEMMA SettingsShaped ==
    ASSUME NEW a \in 0..1, NEW b \in 0..1, NEW c \in 0..1, NEW d \in 0..1,
           NEW ms, ms = ServedSettings(a, b, c, d)
    PROVE  /\ Shaped(ms, PresenceConfig, {"minimum_on_ms", "sound_hold_ms",
                                          "max_sound_bridge_ms", "cooldown_ms"})
           /\ Names(ms) = DOMAIN PresenceConfig
<1>1. /\ ms[1].name = "minimum_on_ms" /\ ms[2].name = "pir_hold_ms"
      /\ ms[3].name = "sound_hold_ms" /\ ms[4].name = "max_sound_bridge_ms"
      /\ ms[5].name = "cooldown_ms" /\ ms[6].name = "sound_factor"
      /\ ms[7].name = "telemetry_interval_ms" /\ ms[8].name = "upload_batch_size"
    BY DEF ServedSettings, ^^
<1>2. Len(ms) = 8 /\ DOMAIN ms = 1..8
    BY DEF ServedSettings, ^^
<1>3. ms \in [1..8 -> Parts(ms)]
    BY <1>2 DEF Parts, ServedSettings, PresenceConfig, ^^
<1>4. ms \in Seq(Parts(ms))
    BY <1>3, IsSequence
<1>5. \A i \in 1..8 : ms[i] = ms[i].name ^^ ms[i].value
    BY DEF ServedSettings, ^^
<1>6. \A i, j \in 1..8 : ms[i].name = ms[j].name => i = j
    BY <1>1
<1>7. \A i \in 1..8 :
         ms[i].name \in DOMAIN PresenceConfig /\ ms[i].value \in PresenceConfig[ms[i].name]
    BY Known, <1>1 DEF ServedSettings, PresenceConfig, ^^, Own, Yes, AnyText, AnyUtf8, Text
<1>8. \A i \in 1..8 :
         ms[i].name \notin Informational \cup {"minimum_on_ms", "sound_hold_ms",
                                              "max_sound_bridge_ms", "cooldown_ms"}
           => PresenceConfig[ms[i].name] = {ms[i].value}
    BY <1>1 DEF ServedSettings, PresenceConfig, ^^, Own, Yes, Informational, FromOne
<1>9. Names(ms) = DOMAIN PresenceConfig
    BY <1>1, <1>2, <1>7 DEF Names, PresenceConfig
<1>10. Len(ms) \in Nat /\ DOMAIN ms = 1..Len(ms)
    BY <1>2
<1>11. /\ \A i \in DOMAIN ms : ms[i] = ms[i].name ^^ ms[i].value
       /\ \A i, j \in DOMAIN ms : ms[i].name = ms[j].name => i = j
    BY <1>2, <1>5, <1>6
<1>12. \A i \in DOMAIN ms :
          /\ ms[i].name \in DOMAIN PresenceConfig /\ ms[i].value \in PresenceConfig[ms[i].name]
          /\ ms[i].name \notin Informational \cup {"minimum_on_ms", "sound_hold_ms",
                                              "max_sound_bridge_ms", "cooldown_ms"}
               => PresenceConfig[ms[i].name] = {ms[i].value}
    BY <1>2, <1>7, <1>8
<1> QED BY <1>4, <1>9, <1>10, <1>11, <1>12 DEF Shaped

LEMMA PollShaped ==
    ASSUME NEW release \in {Null, Object}, NEW command \in {Null, Object},
           NEW ms, ms = ServedPoll(release, command)
    PROVE  /\ Shaped(ms, ControlPoll, {"desired_release", "command"})
           /\ Names(ms) = DOMAIN ControlPoll
<1>1. /\ ms[1].name = "server_utc_ms" /\ ms[2].name = "poll_after_ms"
      /\ ms[3].name = "desired_release" /\ ms[4].name = "command"
    BY DEF ServedPoll, ^^
<1>2. Len(ms) = 4 /\ DOMAIN ms = 1..4
    BY DEF ServedPoll, ^^
<1>3. ms \in [1..4 -> Parts(ms)]
    BY <1>2 DEF Parts, ServedPoll, ControlPoll, ^^
<1>4. ms \in Seq(Parts(ms))
    BY <1>3, IsSequence
<1>5. \A i \in 1..4 : ms[i] = ms[i].name ^^ ms[i].value
    BY DEF ServedPoll, ^^
<1>6. \A i, j \in 1..4 : ms[i].name = ms[j].name => i = j
    BY <1>1
<1>7. \A i \in 1..4 :
         ms[i].name \in DOMAIN ControlPoll /\ ms[i].value \in ControlPoll[ms[i].name]
    BY Known, <1>1 DEF ServedPoll, ControlPoll, ^^, Own, Yes, AnyText, AnyUtf8, Text
<1>8. \A i \in 1..4 :
         ms[i].name \notin Informational \cup {"desired_release", "command"}
           => ControlPoll[ms[i].name] = {ms[i].value}
    BY <1>1 DEF ServedPoll, ControlPoll, ^^, Own, Yes, Informational, FromOne
<1>9. Names(ms) = DOMAIN ControlPoll
    BY <1>1, <1>2, <1>7 DEF Names, ControlPoll
<1> QED BY <1>2, <1>4, <1>5, <1>6, <1>7, <1>8, <1>9 DEF Shaped

LEMMA ReleaseShaped ==
    ASSUME NEW n \in 1..Count,
           NEW ms, ms = ServedRelease(n)
    PROVE  /\ Shaped(ms, DesiredRelease, {})
           /\ Names(ms) = DOMAIN DesiredRelease
<1>1. /\ ms[1].name = "release_id" /\ ms[2].name = "hardware_model"
      /\ ms[3].name = "firmware_version" /\ ms[4].name = "release_counter"
      /\ ms[5].name = "build_id" /\ ms[6].name = "image_size"
      /\ ms[7].name = "image_sha256" /\ ms[8].name = "elf_sha256"
      /\ ms[9].name = "key_id" /\ ms[10].name = "signature_format"
      /\ ms[11].name = "imported_at_ms" /\ ms[12].name = "imported_by"
      /\ ms[13].name = "verified" /\ ms[14].name = "manifest_url"
      /\ ms[15].name = "image_url"
    BY DEF ServedRelease, ^^
<1>2. Len(ms) = 15 /\ DOMAIN ms = 1..15
    BY DEF ServedRelease, ^^
<1>3. ms \in [1..15 -> Parts(ms)]
    BY <1>2 DEF Parts, ServedRelease, DesiredRelease, ^^
<1>4. ms \in Seq(Parts(ms))
    BY <1>3, IsSequence
<1>5. \A i \in 1..15 : ms[i] = ms[i].name ^^ ms[i].value
    BY DEF ServedRelease, ^^
<1>6. \A i, j \in 1..15 : ms[i].name = ms[j].name => i = j
    BY <1>1
<1>7. \A i \in 1..15 :
         ms[i].name \in DOMAIN DesiredRelease /\ ms[i].value \in DesiredRelease[ms[i].name]
    BY Known, <1>1 DEF ServedRelease, DesiredRelease, ^^, Own, Yes, AnyText, AnyUtf8, Text
<1>8. \A i \in 1..15 :
         ms[i].name \notin Informational \cup {}
           => DesiredRelease[ms[i].name] = {ms[i].value}
    BY <1>1 DEF ServedRelease, DesiredRelease, ^^, Own, Yes, Informational, FromOne
<1>9. Names(ms) = DOMAIN DesiredRelease
    BY <1>1, <1>2, <1>7 DEF Names, DesiredRelease
<1>10. Len(ms) \in Nat /\ DOMAIN ms = 1..Len(ms)
    BY <1>2
<1>11. /\ \A i \in DOMAIN ms : ms[i] = ms[i].name ^^ ms[i].value
       /\ \A i, j \in DOMAIN ms : ms[i].name = ms[j].name => i = j
    BY <1>2, <1>5, <1>6
<1>12. \A i \in DOMAIN ms :
          /\ ms[i].name \in DOMAIN DesiredRelease /\ ms[i].value \in DesiredRelease[ms[i].name]
          /\ ms[i].name \notin Informational \cup {}
               => DesiredRelease[ms[i].name] = {ms[i].value}
    BY <1>2, <1>7, <1>8
<1> QED BY <1>4, <1>9, <1>10, <1>11, <1>12 DEF Shaped

LEMMA LeaseShaped ==
    ASSUME NEW lease \in 1..Count, NEW n \in 1..Count,
           NEW ms, ms = ServedLease(lease, n)
    PROVE  /\ Shaped(ms, LeasedCommand, {})
           /\ Names(ms) = DOMAIN LeasedCommand
<1>1. /\ ms[1].name = "command_id" /\ ms[2].name = "created_at_ms"
      /\ ms[3].name = "expires_at_ms" /\ ms[4].name = "lease_id"
      /\ ms[5].name = "lease_expires_at_ms" /\ ms[6].name = "delivery_attempt"
      /\ ms[7].name = "command"
    BY DEF ServedLease, ^^
<1>2. Len(ms) = 7 /\ DOMAIN ms = 1..7
    BY DEF ServedLease, ^^
<1>3. ms \in [1..7 -> Parts(ms)]
    BY <1>2 DEF Parts, ServedLease, LeasedCommand, ^^
<1>4. ms \in Seq(Parts(ms))
    BY <1>3, IsSequence
<1>5. \A i \in 1..7 : ms[i] = ms[i].name ^^ ms[i].value
    BY DEF ServedLease, ^^
<1>6. \A i, j \in 1..7 : ms[i].name = ms[j].name => i = j
    BY <1>1
<1>7. \A i \in 1..7 :
         ms[i].name \in DOMAIN LeasedCommand /\ ms[i].value \in LeasedCommand[ms[i].name]
    BY Known, <1>1 DEF ServedLease, LeasedCommand, ^^, Own, Yes, AnyText, AnyUtf8, Text
<1>8. \A i \in 1..7 :
         ms[i].name \notin Informational \cup {}
           => LeasedCommand[ms[i].name] = {ms[i].value}
    BY <1>1 DEF ServedLease, LeasedCommand, ^^, Own, Yes, Informational, FromOne
<1>9. Names(ms) = DOMAIN LeasedCommand
    BY <1>1, <1>2, <1>7 DEF Names, LeasedCommand
<1> QED BY <1>2, <1>4, <1>5, <1>6, <1>7, <1>8, <1>9 DEF Shaped

\* Members that may vary with what happened, and decide something.
Free == [ingest |-> {"stored", "duplicates"}, feedback |-> {"duplicate"},
         release_status |-> {"duplicate", "desired_release_completed"},
         core_dump |-> {"duplicate"}, log |-> {"stored", "duplicates"},
         ack |-> {"duplicate"}, config |-> {},
         settings |-> {"minimum_on_ms", "sound_hold_ms", "max_sound_bridge_ms", "cooldown_ms"},
         poll |-> {"desired_release", "command"}, release |-> {}, lease |-> {},
         payload |-> {"action", "level"}]
Plain == Objects \ {"payload"}

\* A command comes with the fields of its action.
LEMMA PayloadShaped ==
    ASSUME NEW ms \in ServedPayload
    PROVE  /\ Shaped(ms, CommandPayload, {"action", "level"})
           /\ 1 \in DOMAIN ms /\ ms[1].name = "action"
           /\ Names(ms) = PayloadFields(ms[1].value)
<1>1. CASE \E a \in Simple : ms = <<"action" ^^ a>>
    <2>1. PICK a \in Simple : ms = <<"action" ^^ a>>
        BY <1>1
    <2>2. /\ Len(ms) = 1 /\ DOMAIN ms = 1..1 /\ ms[1] = "action" ^^ a
          /\ ms[1].name = "action" /\ ms[1].value = a
        BY <2>1 DEF ^^
    <2>3. ms \in [1..1 -> Parts(ms)]
        BY <2>1, <2>2 DEF Parts
    <2>4. ms \in Seq(Parts(ms))
        BY <2>3, IsSequence
    <2>5. a \in CommandPayload.action /\ "action" \in DOMAIN CommandPayload
        BY DEF CommandPayload
    <2>6. Shaped(ms, CommandPayload, {"action", "level"})
        BY <2>2, <2>4, <2>5 DEF Shaped
    <2>7. a # LogLevel /\ a # DevOta
        BY DEF Simple, LogLevel, DevOta, Text
    <2>8. Names(ms) = {"action"}
        BY <2>2 DEF Names
    <2> QED BY <2>2, <2>6, <2>7, <2>8 DEF PayloadFields
<1>2. CASE \E l \in {Text("event"), Text("debug_sensor")} :
             ms = <<"action" ^^ LogLevel, "duration_seconds" ^^ Num(1), "level" ^^ l>>
    <2>1. PICK l \in {Text("event"), Text("debug_sensor")} :
             ms = <<"action" ^^ LogLevel, "duration_seconds" ^^ Num(1), "level" ^^ l>>
        BY <1>2
    <2>2. /\ Len(ms) = 3 /\ DOMAIN ms = 1..3
          /\ ms[1].name = "action" /\ ms[2].name = "duration_seconds" /\ ms[3].name = "level"
        BY <2>1 DEF ^^
    <2>3. ms[1].value = LogLevel /\ ms[2].value = Num(1) /\ ms[3].value = l
        BY <2>1 DEF ^^
    <2>4. \A i \in 1..3 : ms[i] = ms[i].name ^^ ms[i].value
        BY <2>1 DEF ^^
    <2>5. ms \in [1..3 -> Parts(ms)]
        BY <2>1, <2>2 DEF Parts
    <2>6. ms \in Seq(Parts(ms))
        BY <2>5, IsSequence
    <2>7. \A i \in 1..3 : /\ ms[i].name \in DOMAIN CommandPayload
                          /\ ms[i].value \in CommandPayload[ms[i].name]
        BY <2>2, <2>3 DEF CommandPayload, FromOne
    <2>8. \A i \in 1..3 : ms[i].name \in Informational \cup {"action", "level"}
        BY <2>2 DEF Informational
    <2>9. Shaped(ms, CommandPayload, {"action", "level"})
        BY <2>2, <2>4, <2>6, <2>7, <2>8 DEF Shaped
    <2>10. Names(ms) = {"action", "level", "duration_seconds"}
        BY <2>2 DEF Names
    <2>11. DevOta # LogLevel
        BY DEF DevOta, LogLevel, Text
    <2>12. PayloadFields(LogLevel) = {"action", "level", "duration_seconds"}
        BY <2>11 DEF PayloadFields
    <2> QED BY <2>2, <2>3, <2>9, <2>10, <2>12
<1>3. CASE ms = <<"action" ^^ DevOta, "requires_local_confirmation" ^^ True>>
    <2>2. /\ Len(ms) = 2 /\ DOMAIN ms = 1..2
          /\ ms[1].name = "action" /\ ms[2].name = "requires_local_confirmation"
        BY <1>3 DEF ^^
    <2>3. ms[1].value = DevOta /\ ms[2].value = True
        BY <1>3 DEF ^^
    <2>4. \A i \in 1..2 : ms[i] = ms[i].name ^^ ms[i].value
        BY <1>3 DEF ^^
    <2>5. ms \in [1..2 -> Parts(ms)]
        BY <1>3, <2>2 DEF Parts
    <2>6. ms \in Seq(Parts(ms))
        BY <2>5, IsSequence
    <2>7. \A i \in 1..2 : /\ ms[i].name \in DOMAIN CommandPayload
                          /\ ms[i].value \in CommandPayload[ms[i].name]
        BY <2>2, <2>3 DEF CommandPayload, Yes
    <2>8. CommandPayload["requires_local_confirmation"] = {True}
        BY DEF CommandPayload, Yes
    <2>9. Shaped(ms, CommandPayload, {"action", "level"})
        BY <2>2, <2>3, <2>4, <2>6, <2>7, <2>8 DEF Shaped
    <2>10. Names(ms) = {"action", "requires_local_confirmation"}
        BY <2>2 DEF Names
    <2>11. DevOta # LogLevel
        BY DEF DevOta, LogLevel, Text
    <2> QED BY <2>2, <2>3, <2>9, <2>10, <2>11 DEF PayloadFields
<1> QED BY <1>1, <1>2, <1>3 DEF ServedPayload

\* The same for whichever kind is served.
LEMMA ServedShaped ==
    ASSUME NEW o \in Objects, NEW ms \in Served[o]
    PROVE  /\ Shaped(ms, Contract[o], Free[o])
           /\ o \in Plain => Names(ms) = DOMAIN Contract[o]
<1>1. o \in {"ingest", "feedback", "release_status", "core_dump", "log", "ack", "config",
             "settings", "poll", "release", "lease", "payload"}
    BY DEF Objects, Contract
<1>2. CASE o = "ingest"
    <2>1. PICK n \in 0..Count, r \in 0..1 : ms = ServedIngest(n, r)
        BY <1>2 DEF Served
    <2>2. Contract[o] = IngestAck /\ Free[o] = {"stored", "duplicates"}
        BY <1>2 DEF Contract, Free
    <2> QED BY <2>1, <2>2, IngestShaped
<1>3. CASE o = "feedback"
    <2>1. PICK at \in {Null, Num(1)}, d \in Either : ms = ServedFeedback(at, d)
        BY <1>3 DEF Served
    <2>2. Contract[o] = FeedbackAck /\ Free[o] = {"duplicate"}
        BY <1>3 DEF Contract, Free
    <2> QED BY <2>1, <2>2, FeedbackShaped
<1>4. CASE o = "release_status"
    <2>1. PICK d \in Either, c \in Either : ms = ServedReleaseStatus(d, c)
        BY <1>4 DEF Served
    <2>2. Contract[o] = ReleaseStatusAck /\ Free[o] = {"duplicate", "desired_release_completed"}
        BY <1>4 DEF Contract, Free
    <2> QED BY <2>1, <2>2, ReleaseStatusShaped
<1>5. CASE o = "core_dump"
    <2>1. PICK d \in Either : ms = ServedCoreDump(d)
        BY <1>5 DEF Served
    <2>2. Contract[o] = CoreDumpAck /\ Free[o] = {"duplicate"}
        BY <1>5 DEF Contract, Free
    <2> QED BY <2>1, <2>2, CoreDumpShaped
<1>6. CASE o = "log"
    <2>1. PICK n \in 0..Count : ms = ServedLog(n)
        BY <1>6 DEF Served
    <2>2. Contract[o] = OperationalLogAck /\ Free[o] = {"stored", "duplicates"}
        BY <1>6 DEF Contract, Free
    <2> QED BY <2>1, <2>2, LogShaped
<1>7. CASE o = "ack"
    <2>1. PICK d \in Either : ms = ServedAck(d)
        BY <1>7 DEF Served
    <2>2. Contract[o] = CommandAck /\ Free[o] = {"duplicate"}
        BY <1>7 DEF Contract, Free
    <2> QED BY <2>1, <2>2, AckShaped
<1>8. CASE o = "config"
    <2>1. PICK row \in 0..1, at \in {Null, Num(1)}, by \in {Null, Text("own"), Text("escaped")} :
             ms = ServedConfig(row, at, by)
        BY <1>8 DEF Served
    <2>2. Contract[o] = ConfigResponse /\ Free[o] = {}
        BY <1>8 DEF Contract, Free
    <2> QED BY <2>1, <2>2, ConfigShaped
<1>9. CASE o = "settings"
    <2>1. PICK a \in 0..1, b \in 0..1, c \in 0..1, d \in 0..1 : ms = ServedSettings(a, b, c, d)
        BY <1>9 DEF Served
    <2>2. /\ Contract[o] = PresenceConfig
          /\ Free[o] = {"minimum_on_ms", "sound_hold_ms", "max_sound_bridge_ms", "cooldown_ms"}
        BY <1>9 DEF Contract, Free
    <2> QED BY <2>1, <2>2, SettingsShaped
<1>10. CASE o = "poll"
    <2>1. PICK release \in {Null, Object}, command \in {Null, Object} :
             ms = ServedPoll(release, command)
        BY <1>10 DEF Served
    <2>2. Contract[o] = ControlPoll /\ Free[o] = {"desired_release", "command"}
        BY <1>10 DEF Contract, Free
    <2> QED BY <2>1, <2>2, PollShaped
<1>11. CASE o = "release"
    <2>1. PICK n \in 1..Count : ms = ServedRelease(n)
        BY <1>11 DEF Served
    <2>2. Contract[o] = DesiredRelease /\ Free[o] = {}
        BY <1>11 DEF Contract, Free
    <2> QED BY <2>1, <2>2, ReleaseShaped
<1>12. CASE o = "lease"
    <2>1. PICK lease \in 1..Count, n \in 1..Count : ms = ServedLease(lease, n)
        BY <1>12 DEF Served
    <2>2. Contract[o] = LeasedCommand /\ Free[o] = {}
        BY <1>12 DEF Contract, Free
    <2> QED BY <2>1, <2>2, LeaseShaped
<1>13. CASE o = "payload"
    <2>1. ms \in ServedPayload
        BY <1>13 DEF Served
    <2>2. Contract[o] = CommandPayload /\ Free[o] = {"action", "level"} /\ o \notin Plain
        BY <1>13 DEF Contract, Free, Plain
    <2> QED BY <2>1, <2>2, PayloadShaped
<1> QED BY <1>1, <1>2, <1>3, <1>4, <1>5, <1>6, <1>7, <1>8, <1>9, <1>10, <1>11, <1>12, <1>13

\* A name leads to its member.
LEMMA MemberFound ==
    ASSUME NEW i \in DOMAIN body.members,
           \A j \in DOMAIN body.members : body.members[j].name = body.members[i].name => j = i
    PROVE  Member(body.members[i].name) = body.members[i].value
BY DEF Member

\* The check of the counts and of the times looks at the members it means.
LEMMA Counted ==
    ASSUME object \in {"ingest", "log"}, 2 \in DOMAIN body.members, 3 \in DOMAIN body.members,
           \A i, j \in DOMAIN body.members : body.members[i].name = body.members[j].name => i = j,
           body.members[2].name = "stored", body.members[3].name = "duplicates"
    PROVE  Consistent <=> body.members[2].value[2] + body.members[3].value[2] = Count
<1>1. Member("stored") = body.members[2].value
    BY MemberFound
<1>2. Member("duplicates") = body.members[3].value
    BY MemberFound
<1> QED BY <1>1, <1>2 DEF Consistent, Number

LEMMA Timed ==
    ASSUME object = "lease", {2, 3, 5} \subseteq DOMAIN body.members,
           \A i, j \in DOMAIN body.members : body.members[i].name = body.members[j].name => i = j,
           body.members[2].name = "created_at_ms", body.members[3].name = "expires_at_ms",
           body.members[5].name = "lease_expires_at_ms"
    PROVE  Consistent <=> /\ body.members[2].value[2] <= body.members[3].value[2]
                          /\ body.members[5].value[2] <= body.members[3].value[2]
<1>1. Member("created_at_ms") = body.members[2].value
    BY MemberFound
<1>2. Member("expires_at_ms") = body.members[3].value
    BY MemberFound
<1>3. Member("lease_expires_at_ms") = body.members[5].value
    BY MemberFound
<1> QED BY <1>1, <1>2, <1>3 DEF Consistent, Number

\* What the server wrote is consistent.
LEMMA ServedConsistent ==
    ASSUME object \in Plain, body.members \in Served[object]
    PROVE  Consistent
<1> DEFINE ms == body.members
<1>1. \A i, j \in DOMAIN ms : ms[i].name = ms[j].name => i = j
    BY ServedShaped DEF Shaped, Plain
<1>2. CASE object = "ingest"
    <2>1. PICK n \in 0..Count, r \in 0..1 : ms = ServedIngest(n, r)
        BY <1>2 DEF Served
    <2>2. /\ DOMAIN ms = 1..6 /\ ms[2].name = "stored" /\ ms[3].name = "duplicates"
          /\ ms[2].value[2] = n /\ ms[3].value[2] = Count - n
        BY <2>1 DEF ServedIngest, ^^, Num
    <2> QED BY <1>1, <1>2, <2>2, Counted, AnswersAssumption
<1>3. CASE object = "log"
    <2>1. PICK n \in 0..Count : ms = ServedLog(n)
        BY <1>3 DEF Served
    <2>2. /\ DOMAIN ms = 1..5 /\ ms[2].name = "stored" /\ ms[3].name = "duplicates"
          /\ ms[2].value[2] = n /\ ms[3].value[2] = Count - n
        BY <2>1 DEF ServedLog, ^^, Num
    <2> QED BY <1>1, <1>3, <2>2, Counted, AnswersAssumption
<1>4. CASE object = "lease"
    <2>1. PICK lease \in 1..Count, n \in 1..Count : ms = ServedLease(lease, n)
        BY <1>4 DEF Served
    <2>2. /\ DOMAIN ms = 1..7 /\ ms[2].name = "created_at_ms" /\ ms[3].name = "expires_at_ms"
          /\ ms[5].name = "lease_expires_at_ms"
          /\ ms[2].value[2] = 0 /\ ms[3].value[2] = Count /\ ms[5].value[2] = lease
        BY <2>1 DEF ServedLease, ^^, Num
    <2> QED BY <1>1, <1>4, <2>2, Timed, AnswersAssumption
<1>5. CASE object \notin {"ingest", "log", "lease"}
    BY <1>5 DEF Consistent
<1> QED BY <1>2, <1>3, <1>4, <1>5

\* Where a name comes twice with one value, it leads to that value.
LEMMA MemberChosen ==
    ASSUME NEW name, \E i \in DOMAIN body.members : body.members[i].name = name,
           NEW v, \A i \in DOMAIN body.members :
                     body.members[i].name = name => body.members[i].value = v
    PROVE  Member(name) = v
BY DEF Member

\* What the server writes the device takes.
LEMMA ServedAccepted ==
    ASSUME object \in Objects, NEW ms \in Served[object], body = [members |-> ms, end |-> "brace"]
    PROVE  Accepted
<1>1. Shaped(body.members, Contract[object], Free[object])
    BY ServedShaped
<1>2. ReadMembers
    BY <1>1 DEF Shaped, ReadMembers, ReadMember, Taken
<1>3. EndTaken
    BY DEF EndTaken
<1>4. CASE object \in Plain
    <2>1. Complete(Names(body.members))
        BY <1>4, ServedShaped DEF Complete, Plain
    <2>2. Consistent
        BY <1>4, ServedConsistent
    <2> QED BY <1>2, <1>3, <2>1, <2>2 DEF Accepted
<1>5. CASE object = "payload"
    <2>1. body.members \in ServedPayload
        BY <1>5 DEF Served
    <2>2. /\ 1 \in DOMAIN body.members /\ body.members[1].name = "action"
          /\ Names(body.members) = PayloadFields(body.members[1].value)
        BY <2>1, PayloadShaped
    <2>3. Member("action") = body.members[1].value
        BY <1>1, <2>2, MemberFound DEF Shaped
    <2>4. "action" \in Names(body.members)
        BY <2>2 DEF Names
    <2>5. Complete(Names(body.members)) /\ Consistent
        BY <1>5, <2>2, <2>3, <2>4 DEF Complete, Consistent
    <2> QED BY <1>2, <1>3, <2>5 DEF Accepted
<1> QED BY <1>4, <1>5 DEF Plain

\* The members of two sequences joined.
LEMMA Joined ==
    ASSUME NEW S, NEW s \in Seq(S), NEW t \in Seq(S)
    PROVE  /\ s \o t \in Seq(S) /\ Len(s \o t) = Len(s) + Len(t)
           /\ \A k \in 1..Len(s) : (s \o t)[k] = s[k]
           /\ \A k \in 1..Len(t) : (s \o t)[Len(s) + k] = t[k]
    OBVIOUS

\* A member removed is missing, a member inserted comes twice.
LEMMA RemovedMissing ==
    ASSUME NEW S, NEW ms \in Seq(S), NEW i \in 1..Len(ms),
           \A j, k \in 1..Len(ms) : ms[j].name = ms[k].name => j = k
    PROVE  /\ ms[i].name \notin Names(RemoveAt(ms, i))
           /\ \A k \in DOMAIN RemoveAt(ms, i) : \E j \in 1..Len(ms) : RemoveAt(ms, i)[k] = ms[j]
<1> DEFINE before == SubSeq(ms, 1, i - 1)
           after  == SubSeq(ms, i + 1, Len(ms))
           rest   == before \o after
<1>1. before \in Seq(S) /\ after \in Seq(S)
    OBVIOUS
<1>2. Len(before) = i - 1 /\ Len(after) = Len(ms) - i
    OBVIOUS
<1>3. \A k \in 1..(i - 1) : before[k] = ms[k]
    OBVIOUS
<1>4. \A k \in 1..(Len(ms) - i) : after[k] = ms[i + k]
    OBVIOUS
<1> HIDE DEF before, after
<1>5. /\ rest \in Seq(S) /\ Len(rest) = Len(before) + Len(after)
      /\ \A k \in 1..Len(before) : rest[k] = before[k]
      /\ \A k \in 1..Len(after) : rest[Len(before) + k] = after[k]
    BY <1>1, Joined
<1>6. RemoveAt(ms, i) = rest
    BY DEF RemoveAt, before, after
<1> HIDE DEF rest
<1>7. ASSUME NEW k \in 1..Len(rest)
      PROVE  rest[k].name # ms[i].name /\ \E j \in 1..Len(ms) : rest[k] = ms[j]
    <2>1. CASE k <= i - 1
        <3>1. rest[k] = ms[k]
            BY <1>2, <1>3, <1>5, <2>1
        <3>2. k \in 1..Len(ms) /\ k # i
            BY <2>1
        <3> QED BY <3>1, <3>2
    <2>2. CASE k > i - 1
        <3>1. k - (i - 1) \in 1..Len(after) /\ Len(before) + (k - (i - 1)) = k
            BY <1>2, <1>5, <2>2
        <3>2. rest[k] = after[k - (i - 1)]
            BY <1>5, <3>1
        <3>3. rest[k] = ms[k + 1]
            BY <1>2, <1>4, <3>1, <3>2
        <3>4. k + 1 \in 1..Len(ms) /\ k + 1 # i
            BY <1>2, <1>5, <2>2
        <3> QED BY <3>3, <3>4
    <2> QED BY <2>1, <2>2
<1> QED BY <1>5, <1>6, <1>7 DEF Names

LEMMA InsertedTwice ==
    ASSUME NEW S, NEW ms \in Seq(S), NEW i \in 1..Len(ms), NEW j \in 1..Len(ms)
    PROVE  /\ InsertAt(ms, j, ms[i]) \in Seq(S)
           /\ \E a, b \in DOMAIN InsertAt(ms, j, ms[i]) :
                 a < b /\ InsertAt(ms, j, ms[i])[a] = ms[i] /\ InsertAt(ms, j, ms[i])[b] = ms[i]
<1> DEFINE before == SubSeq(ms, 1, j - 1)
           after  == SubSeq(ms, j, Len(ms))
           item   == <<ms[i]>>
           front  == before \o item
           more   == front \o after
<1>1. before \in Seq(S) /\ after \in Seq(S)
    OBVIOUS
<1>2. Len(before) = j - 1 /\ Len(after) = Len(ms) - j + 1
    OBVIOUS
<1>3. \A k \in 1..(j - 1) : before[k] = ms[k]
    OBVIOUS
<1>4. \A k \in 1..(Len(ms) - j + 1) : after[k] = ms[j - 1 + k]
    OBVIOUS
<1>5. item \in Seq(S)
    OBVIOUS
<1>6. Len(item) = 1 /\ item[1] = ms[i]
    OBVIOUS
<1>7. InsertAt(ms, j, ms[i]) = more
    BY DEF InsertAt
<1> HIDE DEF before, after, item
<1>8. front \in Seq(S)
    BY <1>1, <1>5
<1>9. /\ Len(front) = Len(before) + Len(item)
      /\ \A k \in 1..Len(before) : front[k] = before[k]
      /\ \A k \in 1..Len(item) : front[Len(before) + k] = item[k]
    BY <1>1, <1>5, Joined
<1> HIDE DEF front
<1>10. /\ more \in Seq(S) /\ Len(more) = Len(front) + Len(after)
       /\ \A k \in 1..Len(front) : more[k] = front[k]
       /\ \A k \in 1..Len(after) : more[Len(front) + k] = after[k]
    BY <1>1, <1>8, Joined
<1> HIDE DEF more
<1>11. Len(front) = j /\ front[j] = ms[i]
    BY <1>2, <1>6, <1>9
<1>12. Len(more) = Len(ms) + 1 /\ more[j] = ms[i]
    BY <1>2, <1>10, <1>11
<1>13. CASE i < j
    <2>1. more[i] = ms[i]
        <3>1. i \in 1..(j - 1) /\ i \in 1..Len(before) /\ i \in 1..Len(front)
            BY <1>2, <1>11, <1>13
        <3>2. before[i] = ms[i]
            BY <1>3, <3>1
        <3>3. front[i] = before[i]
            BY <1>9, <3>1
        <3>4. more[i] = front[i]
            BY <1>10, <3>1
        <3> QED BY <3>2, <3>3, <3>4
    <2>2. i \in DOMAIN more /\ j \in DOMAIN more /\ i < j
        BY <1>10, <1>12, <1>13
    <2>3. \E a, b \in DOMAIN more : a < b /\ more[a] = ms[i] /\ more[b] = ms[i]
        BY <1>12, <2>1, <2>2
    <2> QED BY <1>7, <1>10, <2>3
<1>14. CASE i >= j
    <2>1. PICK k \in 1..(Len(ms) - j + 1) : k = i - j + 1
        BY <1>14
    <2>2. after[k] = ms[i]
        BY <1>4, <2>1
    <2>3. more[i + 1] = ms[i]
        <3>1. k \in 1..Len(after) /\ Len(front) + k = i + 1
            BY <1>2, <1>11, <2>1
        <3> QED BY <1>10, <2>2, <3>1
    <2>4. i + 1 \in DOMAIN more /\ j \in DOMAIN more /\ j < i + 1
        BY <1>10, <1>12, <1>14
    <2>5. \E a, b \in DOMAIN more : a < b /\ more[a] = ms[i] /\ more[b] = ms[i]
        BY <1>12, <2>3, <2>4
    <2> QED BY <1>7, <1>10, <2>5
<1> QED BY <1>13, <1>14

\* What of two answers decides is the same.
Alike(members, ms) ==
    Len(members) = Len(ms) /\ Names(members) = Names(ms) /\ Binding(members) = Binding(ms)

\* The drifts of the contract, of the answer the server wrote.
Drifted(ms) ==
    \/ \E i \in DOMAIN ms : body = [members |-> RemoveAt(ms, i), end |-> "brace"]
    \/ \E i, j \in DOMAIN ms : body = [members |-> InsertAt(ms, j, ms[i]), end |-> "brace"]
    \/ \E i \in DOMAIN ms : body = [members |-> [ms EXCEPT ![i].name = "unheard_of"],
                                    end |-> "brace"]
    \/ \E i \in DOMAIN ms, v \in JsonValues :
          body = [members |-> [ms EXCEPT ![i].value = v], end |-> "brace"]
    \/ body.members = ms

\* A value that only informs may be another.
LEMMA InformationalAlike ==
    ASSUME NEW ms, Len(ms) \in Nat, DOMAIN ms = 1..Len(ms),
           \A k \in DOMAIN ms : ms[k] = ms[k].name ^^ ms[k].value,
           NEW i \in DOMAIN ms, NEW v,
           ms[i].name \in Informational \/ v = ms[i].value
    PROVE  Alike(ms, [ms EXCEPT ![i].value = v])
<1> DEFINE new == [ms EXCEPT ![i].value = v]
<1>1. /\ DOMAIN new = DOMAIN ms /\ Len(new) = Len(ms)
      /\ \A k \in DOMAIN ms : k # i => new[k] = ms[k]
      /\ new[i] = [ms[i] EXCEPT !.value = v]
    OBVIOUS
<1>2. new[i].name = ms[i].name
    BY <1>1 DEF ^^
<1>3. v = ms[i].value => new[i] = ms[i]
    BY <1>1 DEF ^^
<1> HIDE DEF new
<1>4. Names(new) = Names(ms)
    BY <1>1, <1>2 DEF Names
<1>5. Binding(new) = Binding(ms)
    BY ZenonT(60), <1>1, <1>2, <1>3 DEF Binding
<1> QED BY <1>1, <1>4, <1>5 DEF Alike, new
\* The counts of an answer add up to the request only as the server wrote them.
LEMMA CountsForced ==
    ASSUME object \in {"ingest", "log"}, NEW n \in 0..Count, NEW ms, {2, 3} \subseteq DOMAIN ms,
           \A j, k \in DOMAIN ms : ms[j].name = ms[k].name => j = k,
           ms[2] = "stored" ^^ Num(n), ms[3] = "duplicates" ^^ Num(Count - n),
           NEW i \in {2, 3}, NEW v \in Numbers,
           DOMAIN body.members = DOMAIN ms, body.members[i] = ms[i].name ^^ v,
           \A k \in DOMAIN ms : k # i => body.members[k] = ms[k],
           Consistent
    PROVE  v = ms[i].value
<1>1. body.members[i].name = ms[i].name /\ body.members[i].value = v
    BY DEF ^^
<1>2. \A k \in DOMAIN ms : body.members[k].name = ms[k].name
    BY <1>1
<1>3. body.members[2].value[2] + body.members[3].value[2] = Count
    BY <1>1, <1>2, Counted DEF ^^
<1>4. PICK q \in Int : v = Num(q) /\ v[2] = q
    BY AnswersAssumption DEF Numbers, Num, Over, Poll
<1>5. /\ ms[2].value = Num(n) /\ ms[3].value = Num(Count - n)
      /\ ms[2].value[2] = n /\ ms[3].value[2] = Count - n
    BY DEF ^^, Num
<1>6. CASE i = 2
    <2>1. q + (Count - n) = Count
        BY <1>1, <1>3, <1>4, <1>5, <1>6
    <2>2. q = n
        BY <2>1, AnswersAssumption
    <2> QED BY <1>4, <1>5, <1>6, <2>2
<1>7. CASE i = 3
    <2>1. n + q = Count
        BY <1>1, <1>3, <1>4, <1>5, <1>7
    <2>2. q = Count - n
        BY <2>1, AnswersAssumption
    <2> QED BY <1>4, <1>5, <1>7, <2>2
<1> QED BY <1>6, <1>7

\* The members that decide and vary: another value of theirs that the device
\* takes is one the server could have written, for counts it is the same.
LEMMA FreeServed ==
    ASSUME object \in Plain, NEW ms \in Served[object], NEW i \in DOMAIN ms,
           ms[i].name \in Free[object], NEW v \in Contract[object][ms[i].name],
           body.members = [ms EXCEPT ![i].value = v], Consistent
    PROVE  body.members \in Served[object]
<1>1. /\ ms \in Seq(Parts(ms))
      /\ \A k \in DOMAIN ms : ms[k] = ms[k].name ^^ ms[k].value
      /\ \A j, k \in DOMAIN ms : ms[j].name = ms[k].name => j = k
    BY ServedShaped DEF Shaped, Plain
<1>2. \A j, k \in DOMAIN ms : ms[j].name = ms[k].name => j = k
    BY <1>1
<1>3. /\ DOMAIN body.members = DOMAIN ms /\ body.members[i] = ms[i].name ^^ v
      /\ \A k \in DOMAIN ms : k # i => body.members[k] = ms[k]
    BY <1>1 DEF ^^
<1>4. v = ms[i].value => body.members = ms
    BY <1>1 DEF ^^
<1>5. object \in {"ingest", "feedback", "release_status", "core_dump", "log", "ack",
                  "settings", "poll"}
    BY DEF Free, Plain, Objects, Contract
<1>6. CASE object = "ingest"
    <2>1. PICK n \in 0..Count, r \in 0..1 : ms = ServedIngest(n, r)
        BY <1>6 DEF Served
    <2>2. /\ DOMAIN ms = 1..6
          /\ ms[1].name = "batch_id" /\ ms[2].name = "stored" /\ ms[3].name = "duplicates"
          /\ ms[4].name = "max_seq" /\ ms[5].name = "server_utc_ms"
          /\ ms[6].name = "desired_config_revision"
        BY <2>1 DEF ServedIngest, ^^
    <2>3. ms[2] = "stored" ^^ Num(n) /\ ms[3] = "duplicates" ^^ Num(Count - n)
        BY <2>1 DEF ServedIngest
    <2>4. i \in {2, 3} /\ v \in Numbers
        BY <1>6, <2>2 DEF Free, Contract, IngestAck
    <2>5. object \in {"ingest", "log"} /\ {2, 3} \subseteq DOMAIN ms
        BY <1>6, <2>2
    <2>6. v = ms[i].value
        BY <1>2, <1>3, <2>3, <2>4, <2>5, CountsForced
    <2> QED BY <1>4, <2>6
<1>7. CASE object = "log"
    <2>1. PICK n \in 0..Count : ms = ServedLog(n)
        BY <1>7 DEF Served
    <2>2. /\ DOMAIN ms = 1..5
          /\ ms[1].name = "batch_id" /\ ms[2].name = "stored" /\ ms[3].name = "duplicates"
          /\ ms[4].name = "server_utc_ms" /\ ms[5].name = "retained_records"
        BY <2>1 DEF ServedLog, ^^
    <2>3. ms[2] = "stored" ^^ Num(n) /\ ms[3] = "duplicates" ^^ Num(Count - n)
        BY <2>1 DEF ServedLog
    <2>4. i \in {2, 3} /\ v \in Numbers
        BY <1>7, <2>2 DEF Free, Contract, OperationalLogAck
    <2>5. object \in {"ingest", "log"} /\ {2, 3} \subseteq DOMAIN ms
        BY <1>7, <2>2
    <2>6. v = ms[i].value
        BY <1>2, <1>3, <2>3, <2>4, <2>5, CountsForced
    <2> QED BY <1>4, <2>6
<1>8. CASE object = "feedback"
    <2>1. PICK at \in {Null, Num(1)}, d \in Either : ms = ServedFeedback(at, d)
        BY <1>8 DEF Served
    <2>2. i = 13
        <3>1. 13 \in DOMAIN ms /\ ms[13].name = "duplicate"
            BY <2>1 DEF ServedFeedback, ^^
        <3> QED BY <1>1, <1>8, <3>1 DEF Free
    <2>3. v \in Either
        BY <1>8, <2>1, <2>2 DEF Contract, FeedbackAck, ServedFeedback, ^^
    <2>4. body.members = ServedFeedback(at, v)
        BY <2>1, <2>2 DEF ServedFeedback, ^^
    <2> QED BY <1>8, <2>3, <2>4 DEF Served
<1>9. CASE object = "release_status"
    <2>1. PICK d \in Either, c \in Either : ms = ServedReleaseStatus(d, c)
        BY <1>9 DEF Served
    <2>2. i \in {2, 4}
        BY <1>9, <2>1 DEF Free, ServedReleaseStatus, ^^
    <2>3. v \in Either
        BY <1>9, <2>1, <2>2 DEF Contract, ReleaseStatusAck, ServedReleaseStatus, ^^
    <2>4. body.members \in {ServedReleaseStatus(v, c), ServedReleaseStatus(d, v)}
        BY <2>1, <2>2 DEF ServedReleaseStatus, ^^
    <2> QED BY <1>9, <2>3, <2>4 DEF Served
<1>10. CASE object = "core_dump"
    <2>1. PICK d \in Either : ms = ServedCoreDump(d)
        BY <1>10 DEF Served
    <2>2. i = 2
        BY <1>10, <2>1 DEF Free, ServedCoreDump, ^^
    <2>3. v \in Either
        BY <1>10, <2>1, <2>2 DEF Contract, CoreDumpAck, ServedCoreDump, ^^
    <2>4. body.members = ServedCoreDump(v)
        BY <2>1, <2>2 DEF ServedCoreDump, ^^
    <2> QED BY <1>10, <2>3, <2>4 DEF Served
<1>11. CASE object = "ack"
    <2>1. PICK d \in Either : ms = ServedAck(d)
        BY <1>11 DEF Served
    <2>2. i = 4
        BY <1>11, <2>1 DEF Free, ServedAck, ^^
    <2>3. v \in Either
        BY <1>11, <2>1, <2>2 DEF Contract, CommandAck, ServedAck, ^^
    <2>4. body.members = ServedAck(v)
        BY <2>1, <2>2 DEF ServedAck, ^^
    <2> QED BY <1>11, <2>3, <2>4 DEF Served
<1>12. CASE object = "settings"
    <2>1. PICK a \in 0..1, b \in 0..1, c \in 0..1, d \in 0..1 : ms = ServedSettings(a, b, c, d)
        BY <1>12 DEF Served
    <2>2. i \in {1, 3, 4, 5}
        BY SMTT(60), <1>12, <2>1 DEF Free, ServedSettings, ^^
    <2>3. v \in InRange
        BY <1>12, <2>1, <2>2 DEF Contract, PresenceConfig, ServedSettings, ^^
    <2>4. PICK k \in 0..1 : v = Num(k)
        BY <2>3 DEF InRange
    <2>5. body.members \in {ServedSettings(k, b, c, d), ServedSettings(a, k, c, d),
                            ServedSettings(a, b, k, d), ServedSettings(a, b, c, k)}
        BY <2>1, <2>2, <2>4 DEF ServedSettings, ^^
    <2> QED BY <1>12, <2>5 DEF Served
<1>13. CASE object = "poll"
    <2>1. PICK release \in {Null, Object}, command \in {Null, Object} :
             ms = ServedPoll(release, command)
        BY <1>13 DEF Served
    <2>2. i \in {3, 4}
        BY <1>13, <2>1 DEF Free, ServedPoll, ^^
    <2>3. v \in {Null, Object}
        BY <1>13, <2>1, <2>2 DEF Contract, ControlPoll, ServedPoll, ^^
    <2>4. body.members \in {ServedPoll(v, command), ServedPoll(release, v)}
        BY <2>1, <2>2 DEF ServedPoll, ^^
    <2> QED BY <1>13, <2>3, <2>4 DEF Served
<1> QED BY <1>5, <1>6, <1>7, <1>8, <1>9, <1>10, <1>11, <1>12, <1>13

\* The name of the drift is no parser's.
LEMMA UnheardOf ==
    ASSUME object \in Objects
    PROVE  "unheard_of" \notin DOMAIN Contract[object]
<1>1. object \in {"ingest", "feedback", "release_status", "core_dump", "log", "ack", "config",
                  "settings", "poll", "release", "lease", "payload"}
    BY DEF Objects, Contract
<1> QED BY SMTT(60), <1>1 DEF Contract, IngestAck, FeedbackAck, ReleaseStatusAck, CoreDumpAck,
          OperationalLogAck, CommandAck, ConfigResponse, PresenceConfig, ControlPoll,
          DesiredRelease, LeasedCommand, CommandPayload

\* The same for a command: its action decides which fields come with it.
LEMMA PayloadFreeServed ==
    ASSUME object = "payload", NEW ms \in ServedPayload, NEW i \in DOMAIN ms,
           ms[i].name \in {"action", "level"}, NEW v \in CommandPayload[ms[i].name],
           body.members = [ms EXCEPT ![i].value = v], Complete(Names(body.members))
    PROVE  body.members \in ServedPayload
<1>1. /\ Shaped(ms, CommandPayload, {"action", "level"})
      /\ 1 \in DOMAIN ms /\ ms[1].name = "action" /\ Names(ms) = PayloadFields(ms[1].value)
    BY PayloadShaped
<1>2. /\ DOMAIN body.members = DOMAIN ms
      /\ \A k \in DOMAIN ms : body.members[k].name = ms[k].name
      /\ body.members[i].value = v
    BY <1>1 DEF Shaped, ^^
<1>3. Names(body.members) = Names(ms)
    BY <1>2 DEF Names
<1>4. \A j, k \in DOMAIN ms : ms[j].name = ms[k].name => j = k
    BY <1>1 DEF Shaped
<1>5. LogLevel # DevOta /\ \A a \in Simple : a # LogLevel /\ a # DevOta
    BY DEF LogLevel, DevOta, Simple, Text
<1>6. CASE ms[i].name = "action"
    <2>1. i = 1
        BY <1>1, <1>4, <1>6
    <2>2. Member("action") = v
        BY <1>1, <1>2, <1>4, <2>1, MemberFound
    <2>3. PayloadFields(v) = Names(ms)
        BY <1>3, <2>2 DEF Complete
    <2>4. v \in Simple \cup {LogLevel, DevOta}
        BY <1>6 DEF CommandPayload
    <2>5. CASE \E a \in Simple : ms = <<"action" ^^ a>>
        <3>1. PICK a \in Simple : ms = <<"action" ^^ a>>
            BY <2>5
        <3>2. ms[1].value = a
            BY <3>1 DEF ^^
        <3>3. Names(ms) = {"action"}
            BY <1>1, <1>5, <3>2 DEF PayloadFields
        <3>4. v \in Simple
            BY <1>5, <2>3, <2>4, <3>3 DEF PayloadFields
        <3>5. body.members = <<"action" ^^ v>>
            BY <2>1, <3>1 DEF ^^
        <3> QED BY <3>4, <3>5 DEF ServedPayload
    <2>6. CASE ms[1].value \in {LogLevel, DevOta}
        <3>1. v = ms[1].value
            BY <1>1, <1>5, <2>3, <2>4, <2>6 DEF PayloadFields
        <3>2. body.members = ms
            BY <1>1, <2>1, <3>1 DEF Shaped, ^^
        <3> QED BY <3>2
    <2>7. ms[1].value \in {LogLevel, DevOta} \/ \E a \in Simple : ms = <<"action" ^^ a>>
        BY DEF ServedPayload, ^^
    <2> QED BY <2>5, <2>6, <2>7
<1>7. CASE ms[i].name = "level"
    <2>1. PICK l \in {Text("event"), Text("debug_sensor")} :
             ms = <<"action" ^^ LogLevel, "duration_seconds" ^^ Num(1), "level" ^^ l>>
        BY <1>7 DEF ServedPayload, ^^
    <2>2. i = 3
        BY <1>7, <2>1 DEF ^^
    <2>3. v \in {Text("event"), Text("debug_sensor")}
        BY <1>7 DEF CommandPayload
    <2>4. body.members = <<"action" ^^ LogLevel, "duration_seconds" ^^ Num(1), "level" ^^ v>>
        BY <2>1, <2>2 DEF ^^
    <2> QED BY <2>3, <2>4 DEF ServedPayload
<1> QED BY <1>6, <1>7

\* An answer without one of its members is refused.
LEMMA RemovalRefused ==
    ASSUME object \in Objects, NEW ms \in Served[object], NEW i \in DOMAIN ms,
           body.members = RemoveAt(ms, i)
    PROVE  ~ Complete(Names(body.members))
<1>1. Shaped(ms, Contract[object], Free[object])
    BY ServedShaped
<1>2. /\ ms[i].name \notin Names(body.members)
      /\ \A k \in DOMAIN body.members : \E j \in 1..Len(ms) : body.members[k] = ms[j]
    BY <1>1, RemovedMissing DEF Shaped
<1>3. ms[i].name \in Names(ms)
    BY DEF Names
<1>4. CASE object \in Plain
    BY <1>2, <1>3, <1>4, ServedShaped DEF Complete, Plain
<1>5. CASE object = "payload"
    <2>1. SUFFICES ASSUME Complete(Names(body.members)) PROVE FALSE
        OBVIOUS
    <2>2. /\ 1 \in DOMAIN ms /\ ms[1].name = "action" /\ Names(ms) = PayloadFields(ms[1].value)
        BY <1>5, PayloadShaped DEF Served
    <2>3. \E k \in DOMAIN body.members : body.members[k].name = "action"
        BY <1>5, <2>1 DEF Complete, Names
    <2>4. \A k \in DOMAIN body.members :
             body.members[k].name = "action" => body.members[k].value = ms[1].value
        BY <1>1, <1>2, <2>2 DEF Shaped
    <2>5. Member("action") = ms[1].value
        BY <2>3, <2>4, MemberChosen
    <2> QED BY <1>2, <1>3, <1>5, <2>1, <2>2, <2>5 DEF Complete
<1> QED BY <1>4, <1>5 DEF Plain

\* What is taken after one drift decides like an answer of the server.
LEMMA DriftTaken ==
    ASSUME object \in Objects, NEW ms \in Served[object], Drifted(ms), Accepted
    PROVE  \E members \in Served[object] : Alike(members, body.members)
<1>1. Shaped(ms, Contract[object], Free[object])
    BY ServedShaped
<1>2. /\ ReadMembers /\ Complete(Names(body.members)) /\ Consistent
    BY DEF Accepted
<1>3. \A members \in Served[object] : Alike(members, members)
    BY DEF Alike
<1>4. ASSUME NEW i \in DOMAIN ms, body = [members |-> RemoveAt(ms, i), end |-> "brace"]
      PROVE  FALSE
    BY <1>2, <1>4, RemovalRefused
<1>5. ASSUME NEW i \in DOMAIN ms, NEW j \in DOMAIN ms,
             body = [members |-> InsertAt(ms, j, ms[i]), end |-> "brace"]
      PROVE  FALSE
    <2>1. ms \in Seq(Parts(ms)) /\ i \in 1..Len(ms) /\ j \in 1..Len(ms)
        BY <1>1, <1>5 DEF Shaped
    <2>2. body.members = InsertAt(ms, j, ms[i])
        BY <1>5
    <2>3. body.members \in Seq(Parts(ms))
        BY <2>1, <2>2, InsertedTwice
    <2>4. PICK a, b \in DOMAIN body.members :
             a < b /\ body.members[a] = ms[i] /\ body.members[b] = ms[i]
        BY <2>1, <2>2, InsertedTwice
    <2>5. a \in 1..(b - 1)
        BY <2>3, <2>4
    <2> QED BY <1>2, <2>4, <2>5 DEF ReadMembers, ReadMember
<1>6. ASSUME NEW i \in DOMAIN ms,
             body = [members |-> [ms EXCEPT ![i].name = "unheard_of"], end |-> "brace"]
      PROVE  FALSE
    <2>1. i \in DOMAIN body.members /\ body.members[i].name = "unheard_of"
        BY <1>1, <1>6 DEF Shaped, ^^
    <2>2. "unheard_of" \notin DOMAIN Contract[object]
        BY UnheardOf
    <2> QED BY <1>2, <2>1, <2>2 DEF ReadMembers, ReadMember, Taken
<1>7. ASSUME NEW i \in DOMAIN ms, NEW v,
             body = [members |-> [ms EXCEPT ![i].value = v], end |-> "brace"]
      PROVE  \E members \in Served[object] : Alike(members, body.members)
    <2>1. /\ i \in DOMAIN body.members /\ body.members[i].name = ms[i].name
          /\ body.members[i].value = v
        BY <1>1, <1>7 DEF Shaped, ^^
    <2>2. v \in Contract[object][ms[i].name]
        BY <1>2, <2>1 DEF ReadMembers, ReadMember, Taken
    <2>3. CASE ms[i].name \in Free[object]
        <3>1. body.members \in Served[object]
            <4>1. CASE object \in Plain
                BY <1>2, <1>7, <2>2, <2>3, <4>1, FreeServed
            <4>2. CASE object = "payload"
                <5>1. /\ ms \in ServedPayload /\ ms[i].name \in {"action", "level"}
                      /\ v \in CommandPayload[ms[i].name] /\ Served[object] = ServedPayload
                    BY <2>2, <2>3, <4>2 DEF Served, Free, Contract
                <5> QED BY <1>2, <1>7, <4>2, <5>1, PayloadFreeServed
            <4> QED BY <4>1, <4>2 DEF Plain
        <3> QED BY <1>3, <3>1
    <2>4. CASE ms[i].name \notin Free[object]
        <3>1. ms[i].name \in Informational \/ v = ms[i].value
            BY <1>1, <2>2, <2>4 DEF Shaped
        <3>2. Alike(ms, body.members)
            BY <1>1, <1>7, <3>1, InformationalAlike DEF Shaped
        <3> QED BY <3>2
    <2> QED BY <2>3, <2>4
<1>8. CASE body.members = ms
    BY <1>3, <1>8
<1> QED BY <1>4, <1>5, <1>6, <1>7, <1>8 DEF Drifted

\* The inductive invariant: an answer parsed is the server's or one drift away.
AnswersInv ==
    /\ object \in Objects
    /\ state \in {"asked", "served", "drifted", "taken", "refused"}
    /\ state = "asked" => body = [members |-> <<>>, end |-> "brace"]
    /\ state = "served" => \E ms \in Served[object] : body = [members |-> ms, end |-> "brace"]
    /\ state = "drifted" => \E ms \in Served[object] : Drifted(ms)
    /\ ContractKept

\* Nothing is answered at first.
LEMMA AnswersInit == AnswerInit => AnswersInv
BY DEF AnswerInit, AnswersInv, ContractKept

\* Every step keeps the invariant.
LEMMA AnswersNext == AnswersInv /\ [AnswerNext]_answerVars => AnswersInv'
<1> SUFFICES ASSUME AnswersInv, [AnswerNext]_answerVars PROVE AnswersInv'
    OBVIOUS
<1>1. CASE Serve
    <2>1. PICK ms \in Served[object] : body' = [body EXCEPT !.members = ms]
        BY <1>1 DEF Serve
    <2>2. /\ body = [members |-> <<>>, end |-> "brace"] /\ state' = "served"
          /\ object' = object /\ object \in Objects
        BY <1>1 DEF Serve, AnswersInv
    <2>3. body' = [members |-> ms, end |-> "brace"]
        BY <2>1, <2>2
    <2> QED BY <2>2, <2>3 DEF AnswersInv, ContractKept
<1>2. CASE Drift
    <2>1. /\ state = "served" /\ state' = "drifted" /\ object' = object /\ object \in Objects
        BY <1>2 DEF Drift, AnswersInv
    <2>2. PICK ms \in Served[object] : body = [members |-> ms, end |-> "brace"]
        BY <2>1 DEF AnswersInv
    <2>3. Drifted(ms)'
        <3>1. body.members = ms
            BY <2>2
        <3>2. CASE \E i \in DOMAIN ms : body' = [body EXCEPT !.members = RemoveAt(ms, i)]
            BY <2>2, <3>2 DEF Drifted
        <3>3. CASE \E i, j \in DOMAIN ms :
                      body' = [body EXCEPT !.members = InsertAt(ms, j, ms[i])]
            BY <2>2, <3>3 DEF Drifted
        <3>4. CASE \E i \in DOMAIN ms : body' = [body EXCEPT !.members[i].name = "unheard_of"]
            BY <2>2, <3>4 DEF Drifted
        <3>5. CASE \E i \in DOMAIN ms, v \in JsonValues :
                      body' = [body EXCEPT !.members[i].value = v]
            BY <2>2, <3>5 DEF Drifted
        <3>6. CASE body' \in {[body EXCEPT !.end = e] :
                                 e \in {"comma brace", "trailing data", "cut"}}
            BY <2>2, <3>6 DEF Drifted
        <3> QED BY <1>2, <3>1, <3>2, <3>3, <3>4, <3>5, <3>6 DEF Drift
    <2> QED BY <2>1, <2>3 DEF AnswersInv, ContractKept
<1>3. CASE Parse
    <2>1. /\ object' = object /\ body' = body /\ object \in Objects
          /\ state' = IF Accepted THEN "taken" ELSE "refused"
        BY <1>3 DEF Parse, AnswersInv
    <2>2. PICK ms \in Served[object] : Drifted(ms)
        BY <1>3 DEF Parse, AnswersInv, Drifted
    <2>3. CASE Accepted
        <3>1. \E members \in Served[object] : Alike(members, body.members)
            BY <2>1, <2>2, <2>3, DriftTaken
        <3> QED BY <2>1, <2>3, <3>1 DEF AnswersInv, ContractKept, Alike
    <2>4. CASE ~ Accepted
        <3>1. ~ \E members \in Served[object] : body = [members |-> members, end |-> "brace"]
            BY <2>1, <2>4, ServedAccepted
        <3> QED BY <2>1, <2>4, <3>1 DEF AnswersInv, ContractKept
    <2> QED BY <2>3, <2>4
<1>4. CASE UNCHANGED answerVars
    BY <1>4 DEF AnswersInv, answerVars, ContractKept, Drifted
<1> QED BY <1>1, <1>2, <1>3, <1>4 DEF AnswerNext

\* For every number of records: what the server writes the device takes, and
\* what it takes, one drift of the contract away, decides as the server meant.
THEOREM AnswersKeepContract == AnswerSpec => []ContractKept
<1>1. AnswersInv => ContractKept
    BY DEF AnswersInv
<1> QED BY <1>1, AnswersInit, AnswersNext, PTL DEF AnswerSpec

=============================================================================
