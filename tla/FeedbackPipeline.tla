---------------------------- MODULE FeedbackPipeline ----------------------------
(***************************************************************************)
(* A touch correction is a sample of what the sensors said and the label   *)
(* of the person who disagreed.  The main loop queues the pair as one      *)
(* item, the worker writes it as one bundle in /feedback/wait, posts the   *)
(* sample, moves the bundle to /feedback/ready when the server has it,     *)
(* posts the label and removes the bundle.  A bundle that is refused or    *)
(* unreadable goes to /dead.  The contents of a bundle are determined by   *)
(* its identity and abstracted to it; a file is intact or it is in `bad'.  *)
(***************************************************************************)
EXTENDS Naturals, Sequences, FiniteSets

CONSTANTS BootIds,       \* the boot identities, drawn in no order
          MaxSeq,        \* bound on the presses of one boot
          MaxAccepted,   \* bound on the corrections taken in all
          QueueCapacity, \* TouchFeedbackQueue::kCapacity
          MaxFiles,      \* kMaxFeedbackSpoolFiles
          MaxDead,       \* kMaxDeadFiles
          MaxFaults,     \* bound on flash operations that fail or damage
          MaxRestores    \* bound on restorations of the server's database

ASSUME FeedbackAssumption ==
  /\ BootIds \subseteq Nat
  /\ {QueueCapacity, MaxFiles, MaxDead} \subseteq Nat \ {0}
  /\ {MaxSeq, MaxAccepted, MaxFaults, MaxRestores} \subseteq Nat

VARIABLES boot, used, nextSeq,       \* runtimeIdentity, nextTelemetrySeq
          queue,                     \* touchFeedbackQueue
          copied,                    \* the prefix between rename and commit
          wait, ready, bad, dead,    \* the files
          waitCount, readyCount,     \* the worker's counts of them
          call, probe, halted,       \* the worker's request and its RAM
          net, samples, labels,      \* requests under way, the server's rows
          refusing, restored, faults,
          accepted, acked, evicted, lost  \* history

device == <<boot, used, nextSeq, queue, copied>>
files  == <<wait, ready, bad, dead, waitCount, readyCount, faults, evicted>>
worker == <<call, probe, halted>>
server == <<net, samples, labels, refusing, restored>>
past   == <<accepted, acked, lost>>
feedbackVars == <<device, files, worker, server, past>>

Ids == [boot : BootIds, seq : 1..MaxSeq]
Requests == [kind : {"evidence", "label"}, id : Ids]
DeadNames == [stage : {"ready", "wait"}, code : {0, 404, 409, 422}, id : Ids]
NoCall == [at |-> "none"]
Calls == {NoCall} \cup [at : {"sent", "200", "401", "404", "409", "422"}, req : Requests]
Probes == {[of |-> "none"]} \cup [of : {"batch"}, id : Ids, validated : BOOLEAN]

(* File names compare as text: boot, then sequence number; dead letters by *)
(* stage ("fb_r" before "fb_w"), then status code.                         *)
Before(a, b) == a.boot < b.boot \/ (a.boot = b.boot /\ a.seq < b.seq)
DeadBefore(a, b) ==
  \/ a.stage = "ready" /\ b.stage = "wait"
  \/ a.stage = b.stage /\ a.code < b.code
  \/ a.stage = b.stage /\ a.code = b.code /\ Before(a.id, b.id)
(* findNextFeedbackSpool *)
FirstFile(dir) == CHOOSE a \in dir : \A b \in dir : a = b \/ Before(a, b)
OldestDead == CHOOSE a \in dead : \A b \in dead : a = b \/ DeadBefore(a, b)

FeedbackInit ==
  /\ boot \in BootIds /\ used = {boot} /\ nextSeq = 1
  /\ queue = <<>> /\ copied = <<>>
  /\ wait = {} /\ ready = {} /\ bad = {} /\ dead = {}
  /\ waitCount = 0 /\ readyCount = 0
  /\ call = NoCall /\ probe = [of |-> "none"] /\ halted = FALSE
  /\ net = {} /\ samples = {} /\ labels = {} /\ refusing = FALSE
  /\ restored = 0 /\ faults = 0
  /\ accepted = {} /\ acked = {} /\ evicted = {} /\ lost = {}

(* loadFeedbackBundle: the frame of the file is whole. *)
Intact(id) == id \notin bad

Fault == faults < MaxFaults /\ faults' = faults + 1
(* TouchFeedbackQueue: push, copyPrefix of one item, commitPrefix of it. *)
Stored(id) == IF Len(queue) = QueueCapacity THEN queue ELSE Append(queue, id)
Prefix == IF queue = <<>> THEN <<>> ELSE <<Head(queue)>>
Committed(prefix) == IF prefix = Prefix THEN Tail(queue) ELSE queue

Queued == {queue[i] : i \in DOMAIN queue}
Idle == call = NoCall /\ copied = <<>>

(***************************************************************************)
(* The main loop: a press draws a sequence number, whether or not the      *)
(* queue has room.                                                         *)
(***************************************************************************)
Push ==
  /\ nextSeq <= MaxSeq /\ Cardinality(accepted) < MaxAccepted
  /\ nextSeq' = nextSeq + 1
  /\ LET id == [boot |-> boot, seq |-> nextSeq] IN
     /\ queue' = Stored(id)
     /\ accepted' = IF queue' = queue THEN accepted ELSE accepted \cup {id}
  /\ UNCHANGED <<boot, used, copied, files, worker, server, acked, lost>>

(***************************************************************************)
(* freezeFeedbackQueueIfNeeded.  The bundle appears under its name at once *)
(* (a rename), the queue is committed in a later step.  A rename may take  *)
(* place and be reported as failed; then the next freeze finds the file.   *)
(***************************************************************************)
SpoolHasRoom == waitCount + readyCount < MaxFiles

(* Mutant: the queue is committed although the rename failed. *)
MutFreezeNew ==
  /\ Idle /\ queue # <<>> /\ SpoolHasRoom
  /\ LET id == Head(queue) IN
     /\ id \notin wait \cup ready
     /\ copied' = <<id>>
     /\ \/ wait' = wait \cup {id} /\ waitCount' = waitCount + 1 /\ UNCHANGED faults
        \/ Fault /\ UNCHANGED <<wait, waitCount>>
  /\ UNCHANGED <<boot, used, nextSeq, queue, ready, bad, dead, readyCount, evicted,
                 worker, server, past>>

FreezeNew ==
  /\ Idle /\ queue # <<>>
  /\ LET id == Head(queue) IN
     /\ id \notin wait \cup ready
     /\ SpoolHasRoom
     /\ wait' = wait \cup {id}
     /\ \/ waitCount' = waitCount + 1 /\ copied' = Prefix /\ UNCHANGED faults
        \/ Fault /\ UNCHANGED <<waitCount, copied>>
  /\ UNCHANGED <<boot, used, nextSeq, queue, ready, bad, dead, readyCount, evicted,
                 worker, server, past>>

FreezeExisting ==
  /\ Idle /\ queue # <<>>
  /\ Head(queue) \in wait \cup ready /\ Intact(Head(queue))
  /\ copied' = Prefix
  /\ UNCHANGED <<boot, used, nextSeq, queue, files, worker, server, past>>

CommitPrefix ==
  /\ copied # <<>>
  /\ queue' = Committed(copied)
  /\ copied' = <<>>
  /\ UNCHANGED <<boot, used, nextSeq, files, worker, server, past>>

(***************************************************************************)
(* Uploads: a bundle in ready before one in wait, the first by name.  An   *)
(* unreadable bundle is moved to /dead instead of being posted.            *)
(***************************************************************************)
MayUpload == Idle /\ ~halted /\ (probe.of = "batch" => probe.validated)

Post(kind, id) ==
  /\ Intact(id)
  /\ call' = [at |-> "sent", req |-> [kind |-> kind, id |-> id]]
  /\ net' = net \cup {[kind |-> kind, id |-> id]}
  /\ UNCHANGED <<device, files, probe, halted, samples, labels, refusing, restored, past>>

PostLabel == MayUpload /\ ready # {} /\ Post("label", FirstFile(ready))
PostEvidence == MayUpload /\ ready = {} /\ wait # {} /\ Post("evidence", FirstFile(wait))

(* Mutant: no room is made. *)
MutWithoutOldest == dead

WithoutOldest == IF Cardinality(dead) >= MaxDead THEN dead \ {OldestDead} ELSE dead
Evicted == evicted \cup {d.id : d \in dead \ WithoutOldest}

ClearProbe(id) ==
  probe' = IF probe.of = "batch" /\ probe.id = id THEN [of |-> "none"] ELSE probe

(* moveFeedbackToDeadLetter: room is made first; the move itself may fail. *)
MoveToDead(stage, id, code) ==
  /\ evicted' = Evicted
  /\ \/ /\ dead' = WithoutOldest \cup {[stage |-> stage, code |-> code, id |-> id]}
        /\ bad' = bad \ {id}
        /\ IF stage = "ready"
             THEN /\ ready' = ready \ {id}
                  /\ readyCount' = IF readyCount > 0 THEN readyCount - 1 ELSE 0
                  /\ UNCHANGED <<wait, waitCount, probe>>
             ELSE /\ wait' = wait \ {id}
                  /\ waitCount' = IF waitCount > 0 THEN waitCount - 1 ELSE 0
                  /\ IF code = 0 THEN UNCHANGED probe ELSE ClearProbe(id)
                  /\ UNCHANGED <<ready, readyCount>>
        /\ UNCHANGED faults
     \/ /\ dead' = WithoutOldest
        /\ Fault
        /\ UNCHANGED <<wait, ready, bad, waitCount, readyCount, probe>>

DropUnreadable ==
  /\ MayUpload
  /\ \/ ready # {} /\ ~Intact(FirstFile(ready)) /\ MoveToDead("ready", FirstFile(ready), 0)
     \/ /\ ready = {} /\ wait # {} /\ ~Intact(FirstFile(wait))
        /\ MoveToDead("wait", FirstFile(wait), 0)
  /\ UNCHANGED <<device, call, halted, server, past>>

(***************************************************************************)
(* The server, one transaction per request.  A copy of a request may reach *)
(* it after the worker gave the exchange up.                               *)
(***************************************************************************)
Answer(req, code) ==
  call' = IF call.at = "sent" /\ call.req = req THEN [call EXCEPT !.at = code] ELSE call

Ingest ==
  \E req \in net :
    /\ req.kind = "evidence"
    /\ net' = net \ {req}
    /\ IF refusing
         THEN Answer(req, "409") /\ UNCHANGED samples
         ELSE Answer(req, "200") /\ samples' = samples \cup {req.id}
    /\ UNCHANGED <<device, files, probe, halted, labels, refusing, restored, past>>

CreateFeedback ==
  \E req \in net :
    /\ req.kind = "label"
    /\ net' = net \ {req}
    /\ IF req.id \in labels \cup samples
         THEN Answer(req, "200") /\ labels' = labels \cup {req.id}
         ELSE Answer(req, "404") /\ UNCHANGED labels
    /\ UNCHANGED <<device, files, probe, halted, samples, refusing, restored, past>>

(* A gateway refuses the credentials, or a contract changed under a body   *)
(* that cannot: neither request reaches the tables.                        *)
Refuse ==
  /\ call.at = "sent"
  /\ call' \in {[call EXCEPT !.at = code] : code \in {"401", "422"}}
  /\ net' = net \ {call.req}
  /\ UNCHANGED <<device, files, probe, halted, samples, labels, refusing, restored, past>>

(* A backup holds some earlier rows; its configuration may be older too.   *)
Restore ==
  /\ restored < MaxRestores
  /\ restored' = restored + 1
  /\ samples' \in SUBSET samples
  /\ labels' \in SUBSET (labels \cap samples')
  /\ refusing' \in BOOLEAN
  /\ UNCHANGED <<device, files, worker, net, past>>

Repair ==
  /\ refusing
  /\ refusing' = FALSE
  /\ UNCHANGED <<device, files, worker, net, samples, labels, restored, past>>

(***************************************************************************)
(* The worker takes the answer.                                            *)
(***************************************************************************)
(* Mutant: the move to ready does not wait for the answer. *)
MutAnswered(kind, code) == call.at \in {"sent", code} /\ call.req.kind = kind

Answered(kind, code) == call.at = code /\ call.req.kind = kind

(* The answer is lost, late or not what the protocol says: retry later.    *)
GiveUp ==
  /\ call # NoCall
  /\ call' = NoCall
  /\ UNCHANGED <<device, files, probe, halted, server, past>>

EvidenceStored ==
  /\ Answered("evidence", "200")
  /\ call' = NoCall
  /\ LET id == call.req.id IN
     \/ /\ id \notin ready
        /\ wait' = wait \ {id} /\ ready' = ready \cup {id}
        /\ \/ /\ waitCount' = IF waitCount > 0 THEN waitCount - 1 ELSE 0
              /\ readyCount' = readyCount + 1
              /\ ClearProbe(id)
              /\ UNCHANGED faults
           \/ Fault /\ UNCHANGED <<waitCount, readyCount, probe>>
     \/ /\ id \in ready  \* kept from the code: the runs never see it in both
        /\ UNCHANGED <<wait, ready, waitCount, readyCount, probe, faults>>
  /\ UNCHANGED <<device, bad, dead, evicted, halted, server, past>>

LabelStored ==
  /\ Answered("label", "200")
  /\ call' = NoCall
  /\ ready' = ready \ {call.req.id}
  /\ bad' = bad \ {call.req.id}
  /\ acked' = acked \cup {call.req.id}
  /\ \/ readyCount' = (IF readyCount > 0 THEN readyCount - 1 ELSE 0) /\ UNCHANGED faults
     \/ Fault /\ UNCHANGED readyCount
  /\ UNCHANGED <<device, wait, dead, waitCount, evicted, probe, halted, server, accepted, lost>>

Unauthorized ==
  /\ call.at = "401"
  /\ call' = NoCall
  /\ halted' = TRUE
  /\ UNCHANGED <<device, files, probe, server, past>>

(* The first 409 of a batch holds it until the configuration is compared;  *)
(* only the second is taken for a conflict of the payload.                 *)
BeginProbe ==
  /\ Answered("evidence", "409")
  /\ ~(probe.of = "batch" /\ probe.validated /\ probe.id = call.req.id)
  /\ call' = NoCall
  /\ probe' = [of |-> "batch", id |-> call.req.id, validated |-> FALSE]
  /\ UNCHANGED <<device, files, halted, server, past>>

EvidenceRefused ==
  /\ \/ Answered("evidence", "422")
     \/ /\ Answered("evidence", "409")
        /\ probe.of = "batch" /\ probe.validated /\ probe.id = call.req.id
  /\ call' = NoCall
  /\ MoveToDead("wait", call.req.id, IF call.at = "409" THEN 409 ELSE 422)
  /\ UNCHANGED <<device, halted, server, past>>

LabelRefused ==
  /\ \/ Answered("label", "404") \/ Answered("label", "422")
  /\ call' = NoCall
  /\ MoveToDead("ready", call.req.id, IF call.at = "404" THEN 404 ELSE 422)
  /\ UNCHANGED <<device, halted, server, past>>

CompareConfig ==
  /\ Idle /\ ~halted /\ probe.of = "batch" /\ ~probe.validated
  /\ IF refusing
       THEN halted' = TRUE /\ UNCHANGED probe
       ELSE probe' = [probe EXCEPT !.validated = TRUE] /\ UNCHANGED halted
  /\ UNCHANGED <<device, files, call, server, past>>

(***************************************************************************)
(* A restart takes the queue and a fresh boot identity; the files stay and *)
(* are counted again.  A bundle may decay in flash.                        *)
(***************************************************************************)
Restart ==
  /\ boot' \in BootIds \ used
  /\ used' = used \cup {boot'}
  /\ nextSeq' = 1
  /\ queue' = <<>> /\ copied' = <<>>
  /\ lost' = lost \cup (Queued \ (wait \cup ready))
  /\ call' = NoCall /\ probe' = [of |-> "none"] /\ halted' = FALSE
  /\ waitCount' = Cardinality(wait) /\ readyCount' = Cardinality(ready)
  /\ UNCHANGED <<wait, ready, bad, dead, faults, evicted, server, accepted, acked>>

Decay ==
  /\ Fault
  /\ \E id \in {f \in wait \cup ready : Intact(f)} : bad' = bad \cup {id}
  /\ UNCHANGED <<device, wait, ready, dead, waitCount, readyCount, evicted, worker, server, past>>

FeedbackNext ==
  \/ Push \/ FreezeNew \/ FreezeExisting \/ CommitPrefix
  \/ PostLabel \/ PostEvidence \/ DropUnreadable
  \/ Ingest \/ CreateFeedback \/ Refuse \/ Restore \/ Repair
  \/ GiveUp \/ EvidenceStored \/ LabelStored \/ Unauthorized
  \/ BeginProbe \/ EvidenceRefused \/ LabelRefused \/ CompareConfig
  \/ Restart \/ Decay

(* Every variable has its type; the files exceed their limit only by those *)
(* whose rename was reported as failed, and dead letters never exceed it.  *)
FeedbackTypeOK ==
  /\ boot \in used /\ used \subseteq BootIds /\ nextSeq \in 1..MaxSeq + 1
  /\ queue \in Seq(Ids) /\ Len(queue) <= QueueCapacity
  /\ copied \in Seq(Ids) /\ Len(copied) <= 1
  /\ wait \subseteq Ids /\ ready \subseteq Ids /\ bad \subseteq wait \cup ready
  /\ dead \subseteq DeadNames /\ Cardinality(dead) <= MaxDead
  /\ waitCount + readyCount <= MaxFiles + faults
  /\ call \in Calls /\ probe \in Probes /\ halted \in BOOLEAN
  /\ net \subseteq Requests /\ labels \subseteq samples /\ samples \subseteq Ids
  /\ refusing \in BOOLEAN /\ restored \in 0..MaxRestores /\ faults \in 0..MaxFaults

(* A label is offered only once the server has the sample it is about, so  *)
(* that nothing but a restored database refuses one as dangling: across    *)
(* lost and late answers, restarts and moves that fail half way.           *)
NoDanglingLabel ==
  restored = 0 =>
    /\ ready \subseteq samples
    /\ \A d \in dead : d.code # 404

(* A correction taken from the user is in the queue, in exactly one of the *)
(* two directories, in a dead letter, on the server, or it was lost with   *)
(* the RAM of a restart before it had a file, or a later dead letter took  *)
(* its place: no order of renames, commits, answers and resets loses it.   *)
CorrectionKept ==
  /\ accepted \subseteq Queued \cup wait \cup ready \cup {d.id : d \in dead}
                      \cup evicted \cup acked \cup lost
  /\ wait \cap ready = {}
  /\ restored = 0 => acked \subseteq labels

FeedbackSpec == FeedbackInit /\ [][FeedbackNext]_feedbackVars
=============================================================================
