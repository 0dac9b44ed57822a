------------------------- MODULE TelemetryPipeline -------------------------
(***************************************************************************)
(* A telemetry record from the main loop to the server's database: the RAM *)
(* queue, the immutable envelopes in flash, the HTTP exchange, the server's *)
(* ingest transaction, and beside it the configuration revision that every *)
(* record is stamped with.  The device may lose power between any two       *)
(* steps, a request or its answer may be lost, an old request may reach the *)
(* server after its retry, and the operator may restore the server from a   *)
(* backup.  Time is left out: what a deadline only delays may happen at any *)
(* moment.  Records carry no kind here: what the queue does with kinds is   *)
(* the subject of TelemetryFifo, whose CopyStaysPrefix is relied on.        *)
(***************************************************************************)
EXTENDS PipelineProperties

CONSTANTS
    QueueCapacity,  \* TelemetryQueue::kCapacity
    MaxBatch,       \* kTelemetryUploadMaximumRecords
    SpoolLimit,     \* kTelemetrySpoolHardFileLimit
    DeadLimit,      \* kMaxDeadFiles
    Anchors,        \* the clock readings an SNTP fix may yield
    BootIds,        \* bound: the random boot identities, in file-name order
    MaxSamples,     \* bound: sequence numbers handed to samples in one boot
    MaxRevision,    \* bound: configuration revisions on the server
    MaxRestores,    \* bound: restorations of the server from a backup
    Tries           \* bound: copies of one request under way at once

ASSUME PipelineAssumption ==
    /\ {QueueCapacity, MaxBatch, SpoolLimit, DeadLimit} \subseteq Nat \ {0}
    /\ {MaxSamples, MaxRevision, MaxRestores} \subseteq Nat
    /\ BootIds \subseteq Nat
    /\ 0 \notin Anchors

mainVars    == <<boot, usedBoots, queue, recordSeq, mainConfig>>
mailboxVars == <<box, ackedRevision>>
configVars  == <<active, pending>>
workerVars  == <<work, prefix, post, answer, configVars, anchor, probe, halted>>
flashVars   == <<stored, spool, dead>>
serverVars  == <<db, backup, restores>>
historyVars == <<frozen, delivered, evicted>>
vars == <<mainVars, mailboxVars, workerVars, flashVars, wire, serverVars,
          historyVars>>

-----------------------------------------------------------------------------
(* Data.                                                                   *)

NoAnchor == 0    \* an envelope that is not tied to one

\* tag stands for the payload of a revision: the server's life that wrote it.
Config   == [rev : 0..MaxRevision, tag : 0..MaxRestores]
NoConfig == [rev |-> 0, tag |-> 0]    \* also the compiled-in revision 0

Record   == [seq : Nat, rev : 0..MaxRevision]
Envelope == [boot : BootIds, seqs : SUBSET Nat, rev : 0..MaxRevision,
             anchor : Anchors \cup {NoAnchor}]

Least(S)    == CHOOSE n \in S : \A m \in S : n <= m
Greatest(S) == CHOOSE n \in S : \A m \in S : m <= n
Smaller(a, b) == IF a < b THEN a ELSE b

\* buildSpoolFileMetadata: the identity of a batch, which is its file name.
BatchId(e) == <<e.boot, Least(e.seqs), Greatest(e.seqs), Cardinality(e.seqs)>>

NoPost  == [try |-> 0]
Silence == [status |-> "none"]

\* writeTelemetryBatchJson: everything but the records is decided here.
Serialized(recs) ==
    [boot |-> boot, seqs |-> {recs[i].seq : i \in DOMAIN recs},
     rev |-> recs[1].rev, anchor |-> anchor]

RevisionPrefix(recs) ==
    CHOOSE k \in 1..Len(recs) :
        /\ \A i \in 1..k : recs[i].rev = recs[1].rev
        /\ k < Len(recs) => recs[k + 1].rev # recs[1].rev

\* findNextSpool: the first file name in order.
NextSpool ==
    CHOOSE e \in spool :
        \A f \in spool : \/ e.boot < f.boot
                         \/ e.boot = f.boot /\ Least(e.seqs) <= Least(f.seqs)

-----------------------------------------------------------------------------

Init ==
    /\ boot \in BootIds /\ usedBoots = {boot}
    /\ queue = <<>> /\ recordSeq = 0 /\ mainConfig = NoConfig
    /\ box = NoConfig /\ ackedRevision = 0
    /\ work = "idle" /\ prefix = <<>> /\ post = NoPost /\ answer = Silence
    /\ active = NoConfig /\ pending = NoConfig
    /\ anchor = NoAnchor /\ probe = NoProbe /\ halted = FALSE
    /\ stored = NoConfig /\ spool = {} /\ dead = {}
    /\ wire = {}
    /\ db = [configs |-> <<>>, batches |-> {}] /\ backup = db /\ restores = 0
    /\ frozen = {} /\ delivered = {} /\ evicted = {}

-----------------------------------------------------------------------------
(* The main loop.                                                          *)

Push(rev) ==
    /\ recordSeq' = recordSeq + 1
    /\ queue' = IF Len(queue) < QueueCapacity
                THEN Append(queue, [seq |-> recordSeq, rev |-> rev])
                ELSE queue

EnqueueSample ==
    /\ recordSeq < MaxSamples
    /\ Push(mainConfig.rev)
    /\ UNCHANGED <<boot, usedBoots, mainConfig, mailboxVars, workerVars,
                   flashVars, wire, serverVars, historyVars>>

\* A faulty variant that does not acknowledge; no action uses it.
MutApplyUnacknowledged ==
    /\ box # NoConfig
    /\ box.rev > mainConfig.rev
    /\ mainConfig' = box
    /\ Push(box.rev)
    /\ box' = NoConfig
    /\ UNCHANGED <<boot, usedBoots, ackedRevision, workerVars, flashVars, wire,
                   serverVars, historyVars>>

\* take(), then the revision boundary record, then acknowledgeAppliedRevision.
\* A revision that is not newer is ignored; none ever is, since publish() refuses
\* what main has applied and the worker polls again only once it is in force.
ApplyPendingConfig ==
    /\ box # NoConfig
    /\ box.rev > mainConfig.rev
    /\ mainConfig' = box
    /\ Push(box.rev)
    /\ ackedRevision' = box.rev
    /\ box' = NoConfig
    /\ UNCHANGED <<boot, usedBoots, workerVars, flashVars, wire, serverVars,
                   historyVars>>

-----------------------------------------------------------------------------
(* The worker: freezing a prefix of the queue into an envelope.            *)

SpoolHasRoom == Cardinality(spool) < SpoolLimit

BeginFreeze ==
    /\ work = "idle"
    /\ queue # <<>>
    /\ SpoolHasRoom
    /\ queue[1].rev <= active.rev
    /\ \E size \in 1..Smaller(Len(queue), MaxBatch) :    \* uploadBatchSize
           prefix' = SubSeq(queue, 1, RevisionPrefix(SubSeq(queue, 1, size)))
    /\ work' = "freezing"
    /\ UNCHANGED <<mainVars, mailboxVars, post, answer, configVars, anchor,
                   probe, halted, flashVars, wire, serverVars, historyVars>>

\* The pending file was not written or not renamed; it is removed.
FailFreeze ==
    /\ work = "freezing"
    /\ work' = "idle" /\ prefix' = <<>>
    /\ UNCHANGED <<mainVars, mailboxVars, post, answer, configVars, anchor,
                   probe, halted, flashVars, wire, serverVars, historyVars>>

\* A file of that name is never rewritten, with a later anchor say.
RenameEnvelope ==
    /\ work = "freezing"
    /\ work' = "renamed"
    /\ LET new == {e \in {Serialized(prefix)} :
                      \A f \in spool : BatchId(f) # BatchId(e)}
       IN  spool' = spool \cup new /\ frozen' = frozen \cup new
    /\ UNCHANGED <<mainVars, mailboxVars, prefix, post, answer, configVars,
                   anchor, probe, halted, stored, dead, wire, serverVars,
                   delivered, evicted>>

\* A faulty variant, one record short; no action uses it.
MutUncommitted == SubSeq(queue, Len(prefix), Len(queue))

\* commitPrefix: the worker drops from the queue what it has just made durable,
\* provided it is still at the head.
Uncommitted ==
    IF SubSeq(queue, 1, Len(prefix)) = prefix
    THEN SubSeq(queue, Len(prefix) + 1, Len(queue))
    ELSE queue

CommitPrefix ==
    /\ work = "renamed"
    /\ queue' = Uncommitted
    /\ work' = "idle" /\ prefix' = <<>>
    /\ UNCHANGED <<boot, usedBoots, recordSeq, mainConfig, mailboxVars, post,
                   answer, configVars, anchor, probe, halted, flashVars, wire,
                   serverVars, historyVars>>

CaptureClockAnchor ==
    /\ work = "idle" /\ anchor = NoAnchor
    /\ anchor' \in Anchors
    /\ UNCHANGED <<mainVars, mailboxVars, work, prefix, post, answer,
                   configVars, probe, halted, flashVars, wire, serverVars,
                   historyVars>>

-----------------------------------------------------------------------------
(* The worker: the configuration.                                          *)

\* A faulty variant that does not wait for the main loop; no action uses it.
MutAppliedByMain == TRUE

AppliedByMain == ackedRevision >= pending.rev

\* pending # NoConfig stands for configAwaitingApply_.
SynchronizeAppliedConfig ==
    /\ work = "idle"
    /\ pending # NoConfig
    /\ AppliedByMain
    /\ active' = IF ackedRevision > pending.rev THEN active ELSE pending
    /\ pending' = NoConfig
    /\ UNCHANGED <<mainVars, mailboxVars, work, prefix, post, answer, anchor,
                   probe, halted, flashVars, wire, serverVars, historyVars>>

PollRemoteConfig ==
    /\ work = "idle"
    /\ ~halted
    /\ pending = NoConfig
    /\ work' = "polling"
    /\ UNCHANGED <<mainVars, mailboxVars, prefix, post, answer, configVars,
                   anchor, probe, halted, flashVars, wire, serverVars,
                   historyVars>>

MarkConflictConfigValidated ==
    probe' = IF probe = NoProbe THEN probe
             ELSE [probe EXCEPT !.validated = TRUE]

\* A faulty variant that publishes what flash does not hold; no action uses it.
MutAdoptUnsaved(config) ==
    /\ box' = config /\ pending' = config
    /\ UNCHANGED stored

\* saveStoredDeviceConfig, then DeviceConfigMailbox::publish.
AdoptConfig(config) ==
    \/ /\ stored' = config
       /\ box' = config /\ pending' = config
    \/ /\ stored' = config        \* refused by the mailbox: polled again
       /\ UNCHANGED <<box, pending>>
    \/ UNCHANGED <<stored, box, pending>>    \* the flash write failed

HandleConfig ==
    /\ work = "polling" /\ answer.status = "config"
    /\ LET config == answer.config
       IN  \/ /\ config.rev < active.rev \/ (config.rev = active.rev /\ config # active)
              /\ halted' = TRUE
              /\ UNCHANGED <<probe, stored, box, pending>>
           \/ /\ config = active
              /\ MarkConflictConfigValidated
              /\ UNCHANGED <<halted, stored, box, pending>>
           \/ /\ config.rev > active.rev
              /\ MarkConflictConfigValidated
              /\ AdoptConfig(config)
              /\ UNCHANGED halted
    /\ work' = "idle" /\ answer' = Silence
    /\ UNCHANGED <<mainVars, ackedRevision, prefix, post, active, anchor,
                   spool, dead, wire, serverVars, historyVars>>

-----------------------------------------------------------------------------
(* The worker: uploading one envelope.                                     *)

ConflictAwaitingConfigValidation == probe # NoProbe /\ ~probe.validated

PostEnvelope ==
    /\ work = "idle"
    /\ ~halted
    /\ ~ConflictAwaitingConfigValidation
    /\ spool # {}
    /\ \E t \in Tries :
           LET request == [try |-> t, env |-> NextSpool]
           IN  /\ request \notin wire
               /\ wire' = wire \cup {request}
               /\ post' = request
    /\ work' = "posting"
    /\ UNCHANGED <<mainVars, mailboxVars, prefix, answer, configVars, anchor,
                   probe, halted, flashVars, serverVars, historyVars>>

\* Faulty variants, used by no action: a timeout taken for an answer, and none
\* at all for an upload.
MutGiveUpDrops ==
    /\ work \in {"posting", "polling"}
    /\ spool' = IF work = "posting" THEN spool \ {post.env} ELSE spool
    /\ work' = "idle" /\ post' = NoPost /\ answer' = Silence
    /\ UNCHANGED <<mainVars, mailboxVars, prefix, configVars, anchor, probe,
                   halted, stored, dead, wire, serverVars, historyVars>>

MutNoUploadTimeout ==
    /\ work = "polling"
    /\ work' = "idle" /\ post' = NoPost /\ answer' = Silence
    /\ UNCHANGED <<mainVars, mailboxVars, prefix, configVars, anchor, probe,
                   halted, flashVars, wire, serverVars, historyVars>>

\* The socket deadline passes, or the answer is no well-formed one; the same
\* for a poll and for an envelope.
GiveUp ==
    /\ work \in {"posting", "polling"}
    /\ work' = "idle" /\ post' = NoPost /\ answer' = Silence
    /\ UNCHANGED <<mainVars, mailboxVars, prefix, configVars, anchor, probe,
                   halted, flashVars, wire, serverVars, historyVars>>

ClearProbe(e) == probe' = IF probe.batch = BatchId(e) THEN NoProbe ELSE probe

HandleAck ==
    /\ work = "posting" /\ answer.status = "ack"
    /\ \/ /\ spool' = spool \ {post.env}
          /\ ClearProbe(post.env)
       \/ UNCHANGED <<spool, probe>>        \* LittleFS.remove failed
    /\ work' = "idle" /\ post' = NoPost /\ answer' = Silence
    /\ UNCHANGED <<mainVars, mailboxVars, prefix, configVars, anchor, halted,
                   stored, dead, wire, serverVars, historyVars>>

Confirmed(e) == probe.validated /\ probe.batch = BatchId(e)

\* A faulty variant that needs no configuration poll; no action uses it.
MutOpenProbe(e) == [batch |-> BatchId(e), validated |-> TRUE]

OpenProbe(e) == [batch |-> BatchId(e), validated |-> FALSE]

\* The first 409 only starts the probe; the envelope stays where it is.
BeginConflictProbe ==
    /\ work = "posting" /\ answer.status = "conflict"
    /\ ~Confirmed(post.env)
    /\ probe' = OpenProbe(post.env)
    /\ work' = "idle" /\ post' = NoPost /\ answer' = Silence
    /\ UNCHANGED <<mainVars, mailboxVars, prefix, configVars, anchor, halted,
                   flashVars, wire, serverVars, historyVars>>

AfterEviction == Smaller(Cardinality(dead), DeadLimit - 1)

WithDeadLetter(kept, e) == kept \cup {e}

\* moveToDeadLetter: the name that sorts first makes room, boot identities
\* being random that is any of them.  A removal or the rename may fail.
MoveToDeadLetter ==
    /\ work = "posting" /\ answer.status = "conflict"
    /\ Confirmed(post.env)
    /\ \E victims \in SUBSET dead :
           /\ Cardinality(dead) - Cardinality(victims) >= AfterEviction
           /\ evicted' = evicted \cup victims
           /\ \/ /\ Cardinality(dead \ victims) = AfterEviction
                 /\ dead' = WithDeadLetter(dead \ victims, post.env)
                 /\ spool' = spool \ {post.env}
                 /\ ClearProbe(post.env)
              \/ dead' = dead \ victims /\ UNCHANGED <<spool, probe>>
    /\ work' = "idle" /\ post' = NoPost /\ answer' = Silence
    /\ UNCHANGED <<mainVars, mailboxVars, prefix, configVars, anchor, halted,
                   stored, wire, serverVars, frozen, delivered>>

\* A retry_upload command resumes halted traffic.
RetryUpload ==
    /\ work = "idle" /\ halted
    /\ halted' = FALSE
    /\ UNCHANGED <<mainVars, mailboxVars, work, prefix, post, answer,
                   configVars, anchor, probe, flashVars, wire, serverVars,
                   historyVars>>

-----------------------------------------------------------------------------
(* The server.                                                             *)

DesiredRevision == Len(db.configs)

DesiredConfig ==
    IF db.configs = <<>> THEN NoConfig
    ELSE [rev |-> DesiredRevision, tag |-> db.configs[DesiredRevision]]

SameBoot(e) == {f \in db.batches : f.boot = e.boot}

\* The four conflicts of PresenceService.ingest.
Conflicts(e) ==
    \/ \E f \in db.batches : BatchId(f) = BatchId(e) /\ f # e
    \/ e \notin db.batches /\
       \/ e.rev > DesiredRevision
       \/ \E f \in SameBoot(e) : /\ NoAnchor \notin {e.anchor, f.anchor}
                                 /\ e.anchor # f.anchor
       \/ \E f \in SameBoot(e) : e.seqs \cap f.seqs # {} /\ e.rev # f.rev

\* One transaction; the answer reaches the worker only if it still waits.
Ingest ==
    \E request \in wire :
        LET e  == request.env
            ok == ~Conflicts(e)
        IN  /\ wire' = wire \ {request}
            /\ IF ok THEN /\ db' = [db EXCEPT !.batches = @ \cup {e}]
                          /\ delivered' = delivered \cup {e}
                     ELSE UNCHANGED <<db, delivered>>
            /\ answer' = IF work = "posting" /\ post = request
                         THEN [status |-> IF ok THEN "ack" ELSE "conflict"]
                         ELSE answer
            /\ UNCHANGED <<mainVars, mailboxVars, work, prefix, post,
                           configVars, anchor, probe, halted, flashVars,
                           backup, restores, frozen, evicted>>

LoseRequest ==
    /\ \E request \in wire : wire' = wire \ {request}
    /\ UNCHANGED <<mainVars, mailboxVars, workerVars, flashVars, serverVars,
                   historyVars>>

GetConfig ==
    /\ work = "polling" /\ answer = Silence
    /\ answer' = [status |-> "config", config |-> DesiredConfig]
    /\ UNCHANGED <<mainVars, mailboxVars, work, prefix, post, configVars,
                   anchor, probe, halted, flashVars, wire, serverVars,
                   historyVars>>

PutConfig ==
    /\ DesiredRevision < MaxRevision
    /\ db' = [db EXCEPT !.configs = Append(@, restores)]
    /\ UNCHANGED <<mainVars, mailboxVars, workerVars, flashVars, wire, backup,
                   restores, historyVars>>

Backup ==
    /\ restores < MaxRestores
    /\ backup' = db
    /\ UNCHANGED <<mainVars, mailboxVars, workerVars, flashVars, wire, db,
                   restores, historyVars>>

Restore ==
    /\ restores < MaxRestores
    /\ db' = backup
    /\ restores' = restores + 1
    /\ UNCHANGED <<mainVars, mailboxVars, workerVars, flashVars, wire, backup,
                   historyVars>>

-----------------------------------------------------------------------------

\* The new identity of a boot, and a faulty variant that keeps the old one.
MutFreshIdentities == {boot}

FreshIdentities == BootIds \ usedBoots

\* Power is lost and comes back: RAM is gone, flash is read again, the boot
\* draws a new identity and a half-written pending file is removed.
Reboot ==
    /\ boot' \in FreshIdentities
    /\ usedBoots' = usedBoots \cup {boot'}
    /\ queue' = <<>> /\ recordSeq' = 0 /\ mainConfig' = stored
    /\ box' = NoConfig /\ ackedRevision' = stored.rev
    /\ work' = "idle" /\ prefix' = <<>> /\ post' = NoPost /\ answer' = Silence
    /\ active' = stored /\ pending' = NoConfig
    /\ anchor' = NoAnchor /\ probe' = NoProbe /\ halted' = FALSE
    /\ UNCHANGED <<flashVars, wire, serverVars, historyVars>>

Main   == EnqueueSample \/ ApplyPendingConfig
Freeze == BeginFreeze \/ FailFreeze \/ RenameEnvelope \/ CommitPrefix
Upload == PostEnvelope \/ HandleAck \/ BeginConflictProbe \/ MoveToDeadLetter
Worker == \/ Freeze \/ Upload \/ GiveUp \/ CaptureClockAnchor
          \/ SynchronizeAppliedConfig \/ PollRemoteConfig \/ HandleConfig
          \/ RetryUpload
Server == Ingest \/ LoseRequest \/ GetConfig \/ PutConfig \/ Backup \/ Restore

Next == Main \/ Worker \/ Server \/ Reboot

Spec == Init /\ [][Next]_vars

\* The steps that bring the pipeline forward, for fairness: flash and network
\* fail, and these are the cases where they do not.
IngestAnswered == Ingest /\ answer'.status # "none" /\ answer = Silence
AnyIngest      == Ingest \/ LoseRequest
RemoveAcked    == HandleAck /\ spool' # spool
AdoptsConfig   == HandleConfig /\ (answer.config.rev > active.rev => pending' # NoConfig)

-----------------------------------------------------------------------------
(* Properties.                                                             *)

\* The types; the queue, the spool and the dead letters stay within limits.
TypeOK ==
    /\ boot \in usedBoots /\ usedBoots \subseteq BootIds
    /\ queue \in Seq(Record) /\ Len(queue) <= QueueCapacity
    /\ recordSeq \in Nat
    /\ {mainConfig, box, active, pending, stored} \subseteq Config
    /\ ackedRevision \in 0..MaxRevision
    /\ work \in {"idle", "freezing", "renamed", "polling", "posting"}
    /\ prefix \in Seq(Record) /\ Len(prefix) <= MaxBatch
    /\ anchor \in Anchors \cup {NoAnchor}
    /\ halted \in BOOLEAN
    /\ Cardinality(spool) <= SpoolLimit /\ Cardinality(dead) <= DeadLimit

\* Backlog drains: the spool is emptied again and again, unless halted.
SpoolDrains == []<>(spool = {} \/ halted)

\* The device ends up with the configuration the server asks for, or halts.
ConfigConverges == []<>(mainConfig = DesiredConfig \/ halted)

=============================================================================
