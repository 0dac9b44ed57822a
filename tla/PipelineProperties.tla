------------------------ MODULE PipelineProperties ------------------------
(* Where a telemetry record and a configuration may be between the main     *)
(* loop and the server's database, and what must hold of them at every      *)
(* moment.  TelemetryPipeline says how device, network, server and operator *)
(* change it.                                                               *)
EXTENDS Naturals, Sequences, FiniteSets

VARIABLES
    \* the main loop (Core 1), lost with power
    boot, usedBoots, queue, recordSeq, mainConfig,
    \* DeviceConfigMailbox, lost with power
    box, ackedRevision,
    \* the uploader worker (Core 0), lost with power; prefix is the copy it
    \* took of the queue's front
    work, prefix, post, answer, active, pending, anchor, probe, halted,
    \* flash
    stored, spool, dead,
    \* the network and the server
    wire, db, backup, restores,
    \* history
    frozen, delivered, evicted

NoProbe == [batch |-> <<>>, validated |-> FALSE]

-----------------------------------------------------------------------------

\* An envelope that once reached its final name is still in the spool, or was
\* committed by the server at some time, or is kept (or was, until a later one
\* needed the room) as a dead letter: no crash, lost answer or failed removal
\* makes it vanish.
EnvelopeNeverLost ==
    frozen \subseteq spool \cup delivered \cup dead \cup evicted

\* A sequence number of a boot is in one envelope only, wherever envelopes are
\* (spool, dead letters, under way, stored), and back in no queue once its
\* freeze is over.
RecordFrozenOnce ==
    LET everywhere == spool \cup dead \cup db.batches \cup {r.env : r \in wire}
    IN  /\ \A e, f \in everywhere :
               e # f /\ e.boot = f.boot => e.seqs \cap f.seqs = {}
        /\ \A e \in everywhere : \A i \in DOMAIN queue :
               e.boot = boot /\ queue[i].seq \in e.seqs => work = "renamed"

\* Retries, late requests, lost answers and reboots never make the server see
\* a conflict: it answers 409, and the device halts, only after a restore.
ConflictNeedsRestore ==
    restores = 0 => /\ answer.status # "conflict"
                    /\ probe = NoProbe
                    /\ ~halted

\* A server restored once never turns valid data into dead letters: the first
\* 409 holds the envelope and the configuration poll halts the device first.
OneRestoreHoldsData == restores <= 1 => dead = {}

\* No envelope is lost although the server lost its data; the first restoration
\* costs no dead letter either.
RestoreKeepsData == EnvelopeNeverLost /\ OneRestoreHoldsData

\* A spooled revision is never ahead of the worker's, the worker's never ahead
\* of the main loop's, that one never ahead of flash: so judging the worker's
\* revision against the server judges every envelope in the spool.
RevisionOrder ==
    /\ \A e \in spool : e.rev <= active.rev
    /\ active.rev <= mainConfig.rev
    /\ mainConfig.rev <= stored.rev

\* The revision in force never goes back, not even across a power loss.
RevisionNeverRegresses == [][mainConfig'.rev >= mainConfig.rev]_mainConfig

=============================================================================
