---------------------- MODULE TelemetryPipeline_proofs ----------------------
(* What the way of a record promises, for any limits, anchors, boots, tries *)
(* and any number of samples, revisions and restorations.                   *)
(*                                                                          *)
(* Whatever an envelope's copy is in, it is one of those once frozen, and   *)
(* two frozen ones of a boot share no sequence number: so a name tells them *)
(* apart, and a server that has only seen what was frozen finds no batch of *)
(* another content, no second clock and no overlap.  Only a revision it has *)
(* forgotten is left to refuse, which takes a restoration; after a single   *)
(* one the poll that must come before a dead letter is in the server's last *)
(* life already, where revisions only grow, and either halts the device or  *)
(* vouches for the very revision that was refused.                          *)
EXTENDS TelemetryPipeline, FiniteSetTheorems, SequenceTheorems,
        WellFoundedInduction, TLAPS

ServerAnswers == {Silence, [status |-> "ack"], [status |-> "conflict"]}
    \cup [status : {"config"}, config : Config]

\* What a server keeps from its first configuration on, or a backup of it.
Life(d) ==
    /\ d = [configs |-> d.configs, batches |-> d.batches]
    /\ d.configs \in Seq(0..MaxRestores) /\ Len(d.configs) <= MaxRevision

\* TypeOK, and the types of what it leaves out.
TypeInv ==
    /\ TypeOK
    /\ IsFiniteSet(spool) /\ IsFiniteSet(dead)
    /\ frozen \subseteq Envelope
    /\ answer \in ServerAnswers
    /\ restores \in 0..MaxRestores
    /\ Life(db) /\ Life(backup)

\* Nothing but frozen envelopes is anywhere, and of a server answer.
PlaceInv ==
    /\ spool \subseteq frozen /\ dead \subseteq frozen
    /\ db.batches \subseteq frozen /\ backup.batches \subseteq frozen
    /\ \A request \in wire : request.env \in frozen
    /\ work = "posting" => post.env \in frozen /\ post.env.rev <= active.rev
    /\ probe = NoProbe \/ \E e \in frozen, v \in BOOLEAN :
           probe = [batch |-> BatchId(e), validated |-> v]

\* Envelopes of a boot have their own numbers, and its one clock if any.
FrozenInv ==
    /\ \A e \in frozen : /\ e.seqs # {} /\ e.boot \in usedBoots
                         /\ e.boot = boot => /\ \A n \in e.seqs : n < recordSeq
                                             /\ e.anchor \in {NoAnchor, anchor}
    /\ \A e, f \in frozen :
           e.boot = f.boot =>
               /\ e # f => e.seqs \cap f.seqs = {}
               /\ NoAnchor \notin {e.anchor, f.anchor} => e.anchor = f.anchor

\* The queue is in the order of its numbers, of which none is frozen but those
\* of the copy whose commit is due.
QueueInv ==
    /\ \A i \in DOMAIN queue : /\ queue[i].seq < recordSeq
                               /\ queue[i].rev <= mainConfig.rev
    /\ \A i, j \in DOMAIN queue : i < j => queue[i].seq < queue[j].seq
    /\ Len(prefix) <= Len(queue)
    /\ \A i \in DOMAIN prefix : prefix[i] = queue[i]
    /\ work = "freezing" => /\ prefix # <<>> /\ prefix[1].rev <= active.rev
                            /\ SpoolHasRoom
    /\ \A e \in frozen : \A i \in DOMAIN queue :
           e.boot = boot /\ queue[i].seq \in e.seqs
               => work = "renamed" /\ i <= Len(prefix)

\* A configuration is pending until main has it, which is where it came from.
ConfigInv ==
    /\ ackedRevision = mainConfig.rev
    /\ pending = NoConfig => box = NoConfig /\ mainConfig = active
    /\ pending # NoConfig =>
           /\ pending.rev > active.rev /\ pending.rev <= stored.rev
           /\ \/ box = pending /\ mainConfig = active
              \/ box = NoConfig /\ mainConfig = pending
    /\ work = "polling" => pending = NoConfig
    /\ RevisionOrder

\* An answer is that of the exchange under way, and an acknowledgement true.
AnswerInv ==
    /\ answer.status \in {"ack", "conflict"} => work = "posting"
    /\ answer.status = "config" => work = "polling"
    /\ answer.status = "ack" => post.env \in delivered

\* A configuration the server's first life has given out.
Given(config) == config.tag = 0 /\ config.rev <= DesiredRevision

\* A server that was never restored has given out all there is, and is never
\* asked to take anything it must refuse.
FirstLifeInv ==
    restores = 0 =>
        /\ \A config \in {active, pending, stored, mainConfig, box} : Given(config)
        /\ \A i \in DOMAIN db.configs : db.configs[i] = 0
        /\ \A e \in frozen : e.rev <= DesiredRevision
        /\ answer.status = "config" => /\ Given(answer.config)
                                       /\ active.rev <= answer.config.rev
        /\ ConflictNeedsRestore

\* The probe is of an envelope of a revision the worker has, and that the
\* server has given out if the probe is confirmed.
Vouched ==
    \E e \in frozen : /\ probe.batch = BatchId(e) /\ e.rev <= active.rev
                      /\ probe.validated => e.rev <= DesiredRevision

\* A server restored once refuses only revisions it has forgotten, and a probe
\* is confirmed only once it has given out that revision again.
SecondLifeInv ==
    restores <= 1 =>
        /\ dead = {}
        /\ probe # NoProbe =>
               /\ Vouched
               /\ answer.status = "config" => answer.config.rev <= DesiredRevision
        /\ answer.status = "conflict" => ~Confirmed(post.env)

PipelineInv == TypeInv /\ PlaceInv /\ FrozenInv /\ QueueInv /\ ConfigInv
               /\ AnswerInv /\ EnvelopeNeverLost /\ FirstLifeInv /\ SecondLifeInv

-----------------------------------------------------------------------------
(* The helpers.                                                            *)

\* A set of numbers that is not empty has a least one.
LEMMA LeastElement ==
    ASSUME NEW S \in SUBSET Nat, S # {}
    PROVE  Least(S) \in S /\ \A m \in S : Least(S) <= m
<1> DEFINE R == {ss \in Nat \X Nat : ss[1] < ss[2]}
<1>1. IsWellFoundedOn(R, Nat)
  BY NatLessThanWellFounded DEF OpToRel
<1>2. PICK n \in S : \A m \in S : <<m, n>> \notin R
  <2> HIDE DEF R
  <2> QED
    BY <1>1, WFMin
<1>3. ASSUME NEW m \in S PROVE n <= m
  <2>1. <<m, n>> \notin R /\ <<m, n>> \in Nat \X Nat
    BY <1>2
  <2>2. ~(<<m, n>>[1] < <<m, n>>[2])
    BY <2>1, Zenon
  <2> QED
    BY <2>2
<1> QED
  BY <1>3 DEF Least

\* There is a first file name, and it is that of a file.
LEMMA FirstName ==
    ASSUME spool \subseteq Envelope, spool # {}, \A e \in spool : e.seqs # {}
    PROVE  NextSpool \in spool
<1> DEFINE Boots  == {e.boot : e \in spool}
           b      == Least(Boots)
           Firsts == {Least(e.seqs) : e \in {f \in spool : f.boot = b}}
           n      == Least(Firsts)
<1> USE PipelineAssumption DEF PipelineAssumption
<1>1. ASSUME NEW e \in spool
      PROVE  e.boot \in Nat /\ Least(e.seqs) \in Nat
  <2>1. e.seqs \in SUBSET Nat /\ e.seqs # {} /\ e.boot \in BootIds
    BY DEF Envelope
  <2> QED
    BY <2>1, LeastElement
<1>2. b \in Boots /\ \A m \in Boots : b <= m
  <2>1. Boots \in SUBSET Nat /\ Boots # {}
    BY <1>1
  <2> HIDE DEF Boots
  <2> QED
    BY <2>1, LeastElement
<1>3. n \in Firsts /\ \A m \in Firsts : n <= m
  <2>1. Firsts \in SUBSET Nat /\ Firsts # {}
    BY <1>1, <1>2
  <2> HIDE DEF Firsts
  <2> QED
    BY <2>1, LeastElement
<1>4. PICK e \in spool : e.boot = b /\ Least(e.seqs) = n
  BY <1>3
<1> HIDE DEF b, n
<1>5. ASSUME NEW f \in spool
      PROVE  \/ e.boot < f.boot
             \/ e.boot = f.boot /\ Least(e.seqs) <= Least(f.seqs)
  <2>1. b <= f.boot /\ f.boot \in Nat /\ b \in Nat
    BY <1>1, <1>2, <1>4
  <2>2. f.boot = b => n <= Least(f.seqs)
    BY <1>3
  <2> QED
    BY <1>4, <2>1, <2>2
<1> QED
  BY <1>5 DEF NextSpool

\* A copy that is not empty has a prefix of one revision.
LEMMA PrefixOfOneRevision ==
    ASSUME NEW recs \in Seq(Record), recs # <<>>
    PROVE  RevisionPrefix(recs) \in 1..Len(recs)
<1> DEFINE Ends == {k \in 1..Len(recs) :
                        k = Len(recs) \/ recs[k + 1].rev # recs[1].rev}
           k    == Least(Ends)
<1>1. Len(recs) \in Nat \ {0}
  BY EmptySeq
<1>2. k \in Ends /\ \A m \in Ends : k <= m
  <2>1. Ends \in SUBSET Nat /\ Len(recs) \in Ends
    BY <1>1
  <2> HIDE DEF Ends
  <2> QED
    BY <2>1, LeastElement
<1> HIDE DEF k
<1>3. ASSUME NEW i \in 1..k PROVE recs[i].rev = recs[1].rev
  <2>1. CASE i = 1
    BY <2>1
  <2>2. CASE i # 1
    <3>1. i - 1 \in 1..Len(recs) /\ i - 1 # Len(recs) /\ ~(k <= i - 1)
      BY <1>1, <1>2, <2>2
    <3>2. i - 1 \notin Ends
      BY <1>2, <3>1
    <3>3. recs[(i - 1) + 1].rev = recs[1].rev
      BY <3>1, <3>2
    <3>4. (i - 1) + 1 = i
      BY <1>1, <1>2
    <3> QED
      BY <3>3, <3>4
  <2> QED
    BY <2>1, <2>2
<1>4. k \in 1..Len(recs) /\ (k < Len(recs) => recs[k + 1].rev # recs[1].rev)
  BY <1>1, <1>2
<1> QED
  BY <1>3, <1>4 DEF RevisionPrefix

\* A name is never that of no probe, and tells the frozen envelopes apart.
LEMMA NamesApart ==
    ASSUME frozen \subseteq Envelope, FrozenInv,
           NEW e \in frozen, NEW f \in frozen, BatchId(e) = BatchId(f)
    PROVE  e = f
<1>1. e.boot = f.boot /\ Least(e.seqs) = Least(f.seqs)
  BY DEF BatchId
<1>2. /\ e.seqs \in SUBSET Nat /\ e.seqs # {}
      /\ f.seqs \in SUBSET Nat /\ f.seqs # {}
  BY DEF FrozenInv, Envelope
<1>3. Least(e.seqs) \in e.seqs \cap f.seqs
  BY <1>1, <1>2, LeastElement
<1> QED
  BY <1>1, <1>3 DEF FrozenInv

\* The probe of an envelope is one, of that envelope.
LEMMA ProbeFields ==
    ASSUME NEW e, NEW v \in BOOLEAN, probe = [batch |-> BatchId(e), validated |-> v]
    PROVE  probe # NoProbe /\ probe.batch = BatchId(e) /\ probe.validated = v
<1>1. probe.batch = BatchId(e) /\ probe.validated = v
  OBVIOUS
<1>2. BatchId(e) # <<>>
  BY DEF BatchId
<1>3. NoProbe.batch = <<>>
  BY DEF NoProbe
<1> QED
  BY <1>1, <1>2, <1>3


\* The parameters' types in the form the steps below use.
LEMMA Parameters ==
    /\ QueueCapacity \in Nat /\ MaxBatch \in Nat \ {0} /\ SpoolLimit \in Nat
    /\ DeadLimit \in Nat \ {0}
    /\ MaxSamples \in Nat /\ MaxRevision \in Nat /\ MaxRestores \in Nat
    /\ BootIds \subseteq Nat
    /\ NoConfig \in Config /\ NoConfig.rev = 0 /\ NoConfig.tag = 0
BY PipelineAssumption DEF PipelineAssumption, Config, NoConfig

\* Which steps change what the main loop and its mailbox keep.
LEMMA MainSteps ==
    ASSUME [Next]_vars
    PROVE  /\ UNCHANGED <<boot, usedBoots>> \/ Reboot
           /\ \/ UNCHANGED <<queue, recordSeq>>
              \/ EnqueueSample \/ ApplyPendingConfig \/ CommitPrefix \/ Reboot
           /\ UNCHANGED <<mainConfig, ackedRevision>> \/ ApplyPendingConfig \/ Reboot
           /\ UNCHANGED box \/ ApplyPendingConfig \/ HandleConfig \/ Reboot
<1> USE DEF mainVars, mailboxVars, configVars, workerVars, flashVars, serverVars,
            historyVars
<1>1. CASE UNCHANGED vars
  BY <1>1 DEF vars
<1>2. CASE Main
  BY <1>2 DEF Main, EnqueueSample, ApplyPendingConfig
<1>3. CASE Freeze
  BY <1>3 DEF Freeze, BeginFreeze, FailFreeze, RenameEnvelope, CommitPrefix
<1>4. CASE Upload
  BY <1>4 DEF Upload, PostEnvelope, HandleAck, BeginConflictProbe, MoveToDeadLetter
<1>5. CASE \/ GiveUp \/ CaptureClockAnchor \/ SynchronizeAppliedConfig
           \/ PollRemoteConfig \/ HandleConfig \/ RetryUpload
  BY <1>5 DEF GiveUp, CaptureClockAnchor, SynchronizeAppliedConfig,
              PollRemoteConfig, HandleConfig, RetryUpload
<1>6. CASE Server
  BY <1>6 DEF Server, Ingest, LoseRequest, GetConfig, PutConfig, Backup, Restore
<1> QED
  BY <1>1, <1>2, <1>3, <1>4, <1>5, <1>6 DEF Next, Worker

\* Which steps change what the worker keeps.
LEMMA WorkerSteps ==
    ASSUME [Next]_vars
    PROVE  /\ UNCHANGED prefix \/ BeginFreeze \/ FailFreeze \/ CommitPrefix \/ Reboot
           /\ UNCHANGED active \/ SynchronizeAppliedConfig \/ Reboot
           /\ UNCHANGED pending \/ SynchronizeAppliedConfig \/ HandleConfig \/ Reboot
           /\ UNCHANGED anchor \/ CaptureClockAnchor \/ Reboot
           /\ \/ UNCHANGED probe
              \/ HandleConfig \/ HandleAck \/ BeginConflictProbe \/ MoveToDeadLetter
              \/ Reboot
           /\ UNCHANGED halted \/ HandleConfig \/ RetryUpload \/ Reboot
<1> USE DEF mainVars, mailboxVars, configVars, workerVars, flashVars, serverVars,
            historyVars
<1>1. CASE UNCHANGED vars
  BY <1>1 DEF vars
<1>2. CASE Main
  BY <1>2 DEF Main, EnqueueSample, ApplyPendingConfig
<1>3. CASE Freeze
  BY <1>3 DEF Freeze, BeginFreeze, FailFreeze, RenameEnvelope, CommitPrefix
<1>4. CASE Upload
  BY <1>4 DEF Upload, PostEnvelope, HandleAck, BeginConflictProbe, MoveToDeadLetter
<1>5. CASE \/ GiveUp \/ CaptureClockAnchor \/ SynchronizeAppliedConfig
           \/ PollRemoteConfig \/ HandleConfig \/ RetryUpload
  BY <1>5 DEF GiveUp, CaptureClockAnchor, SynchronizeAppliedConfig,
              PollRemoteConfig, HandleConfig, RetryUpload
<1>6. CASE Server
  BY <1>6 DEF Server, Ingest, LoseRequest, GetConfig, PutConfig, Backup, Restore
<1> QED
  BY <1>1, <1>2, <1>3, <1>4, <1>5, <1>6 DEF Next, Worker

\* Which steps change the exchange under way: its request and its answer.
LEMMA ExchangeSteps ==
    ASSUME [Next]_vars
    PROVE  \/ UNCHANGED <<work, post, answer>>
           \/ work' \notin {"posting", "polling"} /\ answer' = Silence
           \/ /\ work' \notin {"posting", "polling"}
              /\ work \notin {"posting", "polling"} /\ UNCHANGED <<post, answer>>
           \/ PostEnvelope \/ PollRemoteConfig \/ Ingest \/ GetConfig
<1> USE DEF mainVars, mailboxVars, configVars, workerVars, flashVars, serverVars,
            historyVars
<1>1. CASE UNCHANGED vars
  BY <1>1 DEF vars
<1>2. CASE Main
  BY <1>2 DEF Main, EnqueueSample, ApplyPendingConfig
<1>3. CASE Freeze
  BY <1>3 DEF Freeze, BeginFreeze, FailFreeze, RenameEnvelope, CommitPrefix
<1>4. CASE Upload
  BY <1>4 DEF Upload, PostEnvelope, HandleAck, BeginConflictProbe, MoveToDeadLetter
<1>5. CASE \/ GiveUp \/ CaptureClockAnchor \/ SynchronizeAppliedConfig
           \/ PollRemoteConfig \/ HandleConfig \/ RetryUpload
  BY <1>5 DEF GiveUp, CaptureClockAnchor, SynchronizeAppliedConfig,
              PollRemoteConfig, HandleConfig, RetryUpload
<1>6. CASE Server
  BY <1>6 DEF Server, Ingest, LoseRequest, GetConfig, PutConfig, Backup, Restore
<1>7. CASE Reboot
  BY <1>7 DEF Reboot
<1> QED
  BY <1>1, <1>2, <1>3, <1>4, <1>5, <1>6, <1>7 DEF Next, Worker

\* Which steps change what is in flash, under way, on the server and in history.
LEMMA StoreSteps ==
    ASSUME [Next]_vars
    PROVE  /\ UNCHANGED stored \/ HandleConfig
           /\ UNCHANGED spool \/ RenameEnvelope \/ HandleAck \/ MoveToDeadLetter
           /\ UNCHANGED dead \/ MoveToDeadLetter
           /\ UNCHANGED wire \/ PostEnvelope \/ Ingest \/ LoseRequest
           /\ UNCHANGED db \/ Ingest \/ PutConfig \/ Restore
           /\ UNCHANGED backup \/ Backup
           /\ UNCHANGED restores \/ Restore
           /\ UNCHANGED frozen \/ RenameEnvelope
           /\ UNCHANGED delivered \/ Ingest
           /\ UNCHANGED evicted \/ MoveToDeadLetter
<1> USE DEF mainVars, mailboxVars, configVars, workerVars, flashVars, serverVars,
            historyVars
<1>1. CASE UNCHANGED vars
  BY <1>1 DEF vars
<1>2. CASE Main
  BY <1>2 DEF Main, EnqueueSample, ApplyPendingConfig
<1>3. CASE Freeze
  BY <1>3 DEF Freeze, BeginFreeze, FailFreeze, RenameEnvelope, CommitPrefix
<1>4. CASE Upload
  BY <1>4 DEF Upload, PostEnvelope, HandleAck, BeginConflictProbe, MoveToDeadLetter
<1>5. CASE \/ GiveUp \/ CaptureClockAnchor \/ SynchronizeAppliedConfig
           \/ PollRemoteConfig \/ HandleConfig \/ RetryUpload
  BY <1>5 DEF GiveUp, CaptureClockAnchor, SynchronizeAppliedConfig,
              PollRemoteConfig, HandleConfig, RetryUpload
<1>6. CASE Server
  BY <1>6 DEF Server, Ingest, LoseRequest, GetConfig, PutConfig, Backup, Restore
<1>7. CASE Reboot
  BY <1>7 DEF Reboot
<1> QED
  BY <1>1, <1>2, <1>3, <1>4, <1>5, <1>6, <1>7 DEF Next, Worker

-----------------------------------------------------------------------------
(* What the steps make of the sequences.                                   *)

\* push(): a full queue stays, any other gets one record at its end.
LEMMA PushOutcome ==
    ASSUME TypeInv, NEW rev \in 0..MaxRevision, Push(rev)
    PROVE  /\ queue' \in Seq(Record) /\ recordSeq' = recordSeq + 1
           /\ Len(queue') <= QueueCapacity /\ Len(queue') >= Len(queue)
           /\ \A i \in 1..Len(queue') :
                  \/ i \in 1..Len(queue) /\ queue'[i] = queue[i]
                  \/ i = Len(queue) + 1 /\ queue'[i] = [seq |-> recordSeq, rev |-> rev]
<1>1. queue \in Seq(Record) /\ Len(queue) \in Nat /\ recordSeq \in Nat
      /\ Len(queue) <= QueueCapacity
  BY LenProperties DEF TypeInv, TypeOK
<1>2. CASE ~(Len(queue) < QueueCapacity)
  BY <1>1, <1>2, Parameters DEF Push
<1>3. CASE Len(queue) < QueueCapacity
  <2> DEFINE new == [seq |-> recordSeq, rev |-> rev]
  <2>1. queue' = Append(queue, new) /\ recordSeq' = recordSeq + 1
    BY <1>3 DEF Push
  <2>2. new \in Record
    BY <1>1 DEF Record
  <2> HIDE DEF new
  <2>3. /\ queue' \in Seq(Record) /\ Len(queue') = Len(queue) + 1
        /\ \A i \in 1..Len(queue) : queue'[i] = queue[i]
        /\ queue'[Len(queue) + 1] = new
    BY <1>1, <2>1, <2>2, AppendProperties
  <2>4. \A i \in 1..Len(queue') : i \in 1..Len(queue) \/ i = Len(queue) + 1
    BY <1>1, <2>3
  <2> QED
    BY <1>1, <1>3, <2>1, <2>3, <2>4, Parameters DEF new
<1> QED
  BY <1>2, <1>3

\* copyPrefix(): the copy is the head of the queue, and not empty.
LEMMA CopyOutcome ==
    ASSUME TypeInv, BeginFreeze
    PROVE  /\ prefix' \in Seq(Record) /\ Len(prefix') <= MaxBatch
           /\ prefix' # <<>> /\ Len(prefix') <= Len(queue)
           /\ \A i \in 1..Len(prefix') : prefix'[i] = queue[i]
<1>1. queue \in Seq(Record) /\ Len(queue) \in Nat \ {0} /\ MaxBatch \in Nat \ {0}
  BY EmptySeq, Parameters DEF TypeInv, TypeOK, BeginFreeze
<1>2. PICK size \in 1..Smaller(Len(queue), MaxBatch) :
          prefix' = SubSeq(queue, 1, RevisionPrefix(SubSeq(queue, 1, size)))
  BY DEF BeginFreeze
<1>3. size \in 1..Len(queue) /\ size <= MaxBatch
  BY <1>1, <1>2 DEF Smaller
<1> DEFINE upto == SubSeq(queue, 1, size)
           k    == RevisionPrefix(upto)
<1>4. upto \in Seq(Record) /\ Len(upto) = size
  <2>1. \A i \in 1..size : queue[i] \in Record
    BY <1>1, <1>3, ElementOfSeq
  <2> QED
    BY <1>1, <1>3, <2>1, SubSeqProperties
<1>5. k \in 1..size
  <2> HIDE DEF upto
  <2>1. upto # <<>>
    BY <1>1, <1>3, <1>4, EmptySeq
  <2> QED
    BY <1>4, <2>1, PrefixOfOneRevision
<1> HIDE DEF k
<1>6. /\ prefix' \in Seq(Record) /\ Len(prefix') = k
      /\ \A i \in 1..k : prefix'[i] = queue[i]
  <2>1. \A i \in 1..k : queue[i] \in Record
    BY <1>1, <1>3, <1>5, ElementOfSeq
  <2>2. prefix' = SubSeq(queue, 1, k) /\ k \in Nat \ {0}
    BY <1>1, <1>2, <1>3, <1>5 DEF k
  <2> QED
    BY <2>1, <2>2, SubSeqProperties
<1> QED
  BY <1>1, <1>3, <1>5, <1>6, EmptySeq

\* commitPrefix(): the copy, still at the head of the queue, leaves it.
LEMMA CommitOutcome ==
    ASSUME TypeInv, QueueInv, CommitPrefix
    PROVE  /\ queue' \in Seq(Record) /\ Len(queue') = Len(queue) - Len(prefix)
           /\ \A i \in 1..Len(queue') : /\ queue'[i] = queue[i + Len(prefix)]
                                        /\ i + Len(prefix) \in 1..Len(queue)
<1>1. /\ queue \in Seq(Record) /\ prefix \in Seq(Record)
      /\ Len(queue) \in Nat /\ Len(prefix) \in Nat /\ Len(prefix) <= Len(queue)
      /\ \A i \in 1..Len(prefix) : prefix[i] = queue[i]
      /\ \A i \in 1..Len(queue) : queue[i] \in Record
  <2>1. queue \in Seq(Record) /\ prefix \in Seq(Record)
    BY DEF TypeInv, TypeOK
  <2>2. DOMAIN prefix = 1..Len(prefix) /\ Len(prefix) \in Nat /\ Len(queue) \in Nat
    BY <2>1, LenProperties
  <2> QED
    BY <2>1, <2>2, ElementOfSeq DEF QueueInv
<1>2. SubSeq(queue, 1, Len(prefix)) = prefix
  <2> DEFINE head == SubSeq(queue, 1, Len(prefix))
  <2>1. /\ head \in Seq(Record) /\ Len(head) = Len(prefix)
        /\ \A i \in 1..Len(prefix) : head[i] = queue[i]
    <3>1. \A i \in 1..Len(prefix) : queue[i] \in Record
      BY <1>1
    <3> QED
      BY <1>1, <3>1, SubSeqProperties
  <2> HIDE DEF head
  <2> QED
    BY <1>1, <2>1, SeqEqual DEF head
<1>3. queue' = SubSeq(queue, Len(prefix) + 1, Len(queue))
  BY <1>2 DEF CommitPrefix, Uncommitted
<1>4. \A i \in (Len(prefix) + 1)..Len(queue) : queue[i] \in Record
  BY <1>1
<1>5. /\ queue' \in Seq(Record) /\ Len(queue') = Len(queue) - Len(prefix)
      /\ \A i \in 1..(Len(queue) - Len(prefix)) : queue'[i] = queue[i + Len(prefix)]
  BY <1>1, <1>3, <1>4, SubSeqProperties
<1> QED
  BY <1>1, <1>5

\* What a copy is serialized to is an envelope of the head of the queue.
LEMMA SerializedCopy ==
    ASSUME TypeInv, QueueInv, work = "freezing"
    PROVE  LET e == Serialized(prefix)
           IN  /\ e \in Envelope /\ e.seqs # {}
               /\ e.boot = boot /\ e.anchor = anchor /\ e.rev <= active.rev
               /\ \A n \in e.seqs : \E i \in DOMAIN queue :
                      i <= Len(prefix) /\ queue[i].seq = n
<1> DEFINE e == Serialized(prefix)
<1>1. /\ prefix \in Seq(Record) /\ Len(prefix) \in Nat \ {0}
      /\ DOMAIN prefix = 1..Len(prefix) /\ DOMAIN queue = 1..Len(queue)
      /\ Len(prefix) <= Len(queue) /\ Len(queue) \in Nat
  BY LenProperties, EmptySeq DEF TypeInv, TypeOK, QueueInv
<1>2. \A i \in 1..Len(prefix) : prefix[i] \in Record /\ prefix[i] = queue[i]
  BY <1>1, ElementOfSeq DEF QueueInv
<1>3. /\ e.boot = boot /\ e.anchor = anchor /\ e.rev = prefix[1].rev
      /\ e.seqs = {prefix[i].seq : i \in DOMAIN prefix}
  BY DEF Serialized
<1>4. e.seqs # {}
  <2>1. 1 \in DOMAIN prefix
    BY <1>1
  <2> HIDE DEF e
  <2> QED
    BY <1>3, <2>1
<1>5. e \in Envelope
  <2>1. \A i \in 1..Len(prefix) : prefix[i].seq \in Nat /\ prefix[i].rev \in 0..MaxRevision
    BY <1>2 DEF Record
  <2>2. e.seqs \in SUBSET Nat
    BY <1>1, <1>3, <2>1
  <2>3. e.rev \in 0..MaxRevision
    BY <1>1, <1>3, <2>1
  <2>4. boot \in BootIds /\ anchor \in Anchors \cup {NoAnchor}
    BY DEF TypeInv, TypeOK
  <2>5. e = [boot |-> e.boot, seqs |-> e.seqs, rev |-> e.rev, anchor |-> e.anchor]
    BY DEF Serialized
  <2> HIDE DEF e
  <2> QED
    BY <1>3, <2>2, <2>3, <2>4, <2>5 DEF Envelope
<1>6. \A n \in e.seqs : \E i \in DOMAIN queue : i <= Len(prefix) /\ queue[i].seq = n
  BY <1>1, <1>2, <1>3
<1>7. e.rev <= active.rev
  BY <1>3 DEF QueueInv
<1> QED
  BY <1>3, <1>4, <1>5, <1>6, <1>7

\* A rename adds that envelope, or nothing.
LEMMA RenameOutcome ==
    ASSUME RenameEnvelope
    PROVE  \/ /\ spool' = spool \cup {Serialized(prefix)}
              /\ frozen' = frozen \cup {Serialized(prefix)}
           \/ spool' = spool /\ frozen' = frozen
BY DEF RenameEnvelope

-----------------------------------------------------------------------------
(* What the steps make of the server and of its answers.                   *)

\* A server's life with other contents of a field.
LEMMA LifeFields ==
    ASSUME NEW d, NEW cs, NEW bs,
           d = [configs |-> d.configs, batches |-> d.batches]
    PROVE  /\ [d EXCEPT !.batches = bs] = [configs |-> d.configs, batches |-> bs]
           /\ [d EXCEPT !.configs = cs] = [configs |-> cs, batches |-> d.batches]
<1> DEFINE c == d.configs
           b == d.batches
<1>1. d = [configs |-> c, batches |-> b]
  OBVIOUS
<1> HIDE DEF c, b
<1>2. /\ [d EXCEPT !.batches = bs] = [configs |-> c, batches |-> bs]
      /\ [d EXCEPT !.configs = cs] = [configs |-> cs, batches |-> b]
  BY <1>1
<1> QED
  BY <1>2 DEF c, b

\* One request is taken in or refused, and answered if it is waited for.
LEMMA IngestOutcome ==
    ASSUME TypeInv, Ingest
    PROVE  \E request \in wire :
               /\ wire' = wire \ {request}
               /\ \/ /\ ~Conflicts(request.env)
                     /\ db' = [configs |-> db.configs,
                               batches |-> db.batches \cup {request.env}]
                     /\ delivered' = delivered \cup {request.env}
                  \/ Conflicts(request.env) /\ UNCHANGED <<db, delivered>>
               /\ \/ answer' = answer
                  \/ /\ work = "posting" /\ post = request
                     /\ \/ ~Conflicts(request.env) /\ answer' = [status |-> "ack"]
                        \/ Conflicts(request.env) /\ answer' = [status |-> "conflict"]
<1>1. PICK request \in wire :
          LET ok == ~Conflicts(request.env)
          IN  /\ wire' = wire \ {request}
              /\ IF ok THEN /\ db' = [db EXCEPT !.batches = @ \cup {request.env}]
                            /\ delivered' = delivered \cup {request.env}
                       ELSE UNCHANGED <<db, delivered>>
              /\ answer' = IF work = "posting" /\ post = request
                           THEN [status |-> IF ok THEN "ack" ELSE "conflict"]
                           ELSE answer
  BY DEF Ingest
<1>2. [db EXCEPT !.batches = @ \cup {request.env}]
          = [configs |-> db.configs, batches |-> db.batches \cup {request.env}]
  BY LifeFields DEF TypeInv, Life
<1> HIDE DEF Conflicts
<1> QED
  BY <1>1, <1>2

\* What the server answers a poll is a configuration.
LEMMA DesiredOutcome ==
    ASSUME TypeInv
    PROVE  /\ DesiredRevision \in 0..MaxRevision
           /\ DesiredConfig \in Config /\ DesiredConfig.rev = DesiredRevision
           /\ \/ DesiredConfig.tag = 0
              \/ /\ DesiredRevision \in DOMAIN db.configs
                 /\ DesiredConfig.tag = db.configs[DesiredRevision]
<1>1. db.configs \in Seq(0..MaxRestores) /\ Len(db.configs) <= MaxRevision
  BY DEF TypeInv, Life
<1>2. /\ Len(db.configs) \in Nat /\ DOMAIN db.configs = 1..Len(db.configs)
      /\ \A i \in 1..Len(db.configs) : db.configs[i] \in 0..MaxRestores
  BY <1>1, LenProperties, ElementOfSeq
<1>3. CASE db.configs = <<>>
  BY <1>1, <1>2, <1>3, EmptySeq, Parameters DEF DesiredConfig, DesiredRevision
<1>4. CASE db.configs # <<>>
  <2>1. Len(db.configs) \in 1..MaxRevision
    BY <1>1, <1>2, <1>4, EmptySeq, Parameters
  <2>2. DesiredConfig = [rev |-> Len(db.configs), tag |-> db.configs[Len(db.configs)]]
    BY <1>4 DEF DesiredConfig, DesiredRevision
  <2>3. db.configs[Len(db.configs)] \in 0..MaxRestores
    BY <1>2, <2>1
  <2> QED
    BY <1>2, <2>1, <2>2, <2>3, Parameters DEF DesiredRevision, Config
<1> QED
  BY <1>3, <1>4

\* The kinds of answer tell them apart.
LEMMA AnswerKinds ==
    ASSUME answer \in ServerAnswers
    PROVE  /\ answer.status \in {"none", "ack", "conflict", "config"}
           /\ answer.status = "config" => answer.config \in Config
           /\ answer.status = "none" => answer = Silence
BY DEF ServerAnswers, Silence

\* The configuration handled halts the device, is in force, or is newer and
\* then adopted, only stored, or lost.
LEMMA HandleOutcome ==
    ASSUME TypeInv, HandleConfig
    PROVE  /\ work = "polling" /\ answer.status = "config"
           /\ answer.config \in Config
           /\ \/ /\ \/ answer.config.rev < active.rev
                    \/ answer.config.rev = active.rev /\ answer.config # active
                 /\ halted' = TRUE /\ UNCHANGED <<probe, stored, box, pending>>
              \/ /\ answer.config.rev >= active.rev
                 /\ MarkConflictConfigValidated
                 /\ UNCHANGED <<stored, box, pending, halted>>
              \/ /\ answer.config.rev > active.rev /\ answer.config # NoConfig
                 /\ MarkConflictConfigValidated /\ UNCHANGED halted
                 /\ stored' = answer.config
                 /\ \/ box' = answer.config /\ pending' = answer.config
                    \/ UNCHANGED <<box, pending>>
           /\ work' = "idle" /\ answer' = Silence
<1>1. answer.status = "config" /\ work = "polling" /\ answer.config \in Config
  BY AnswerKinds DEF HandleConfig, TypeInv
<1>2. answer.config.rev \in Nat /\ active.rev \in Nat
  <2>1. active \in Config
    BY DEF TypeInv, TypeOK
  <2> QED
    BY <1>1, <2>1, Parameters DEF Config
<1>3. answer.config.rev > active.rev => answer.config # NoConfig
  BY <1>2, Parameters
<1> HIDE DEF MarkConflictConfigValidated
<1> QED
  BY <1>1, <1>2, <1>3 DEF HandleConfig, AdoptConfig

\* The configurations are ones, and their revisions numbers.
LEMMA ConfigTypes ==
    ASSUME TypeInv
    PROVE  /\ \A c \in {mainConfig, box, active, pending, stored} :
                  c \in Config /\ c.rev \in 0..MaxRevision /\ c.rev \in Nat
           /\ ackedRevision \in 0..MaxRevision /\ ackedRevision \in Nat
           /\ \A c \in Config : c.rev \in 0..MaxRevision /\ c.rev \in Nat
<1>1. \A c \in Config : c.rev \in 0..MaxRevision /\ c.rev \in Nat
  BY Parameters DEF Config
<1> QED
  BY <1>1, Parameters DEF TypeInv, TypeOK

-----------------------------------------------------------------------------
(* The invariant.                                                          *)

\* Every start satisfies the invariant.
LEMMA PipelineInit == Init => PipelineInv
<1> SUFFICES ASSUME Init PROVE PipelineInv
  OBVIOUS
<1>1. TypeInv
  <2>1. TypeOK
    <3>1. /\ queue \in Seq(Record) /\ Len(queue) <= QueueCapacity
          /\ prefix \in Seq(Record) /\ Len(prefix) <= MaxBatch
      BY EmptySeq, Parameters DEF Init
    <3>2. Cardinality(spool) <= SpoolLimit /\ Cardinality(dead) <= DeadLimit
      BY FS_EmptySet, Parameters DEF Init
    <3>3. {mainConfig, box, active, pending, stored} \subseteq Config
      BY Parameters DEF Init
    <3>4. boot \in usedBoots /\ usedBoots \subseteq BootIds
      BY DEF Init
    <3>5. recordSeq \in Nat /\ ackedRevision \in 0..MaxRevision
      BY Parameters DEF Init
    <3>6. /\ work \in {"idle", "freezing", "renamed", "polling", "posting"}
          /\ anchor \in Anchors \cup {NoAnchor} /\ halted \in BOOLEAN
      BY DEF Init
    <3> QED
      BY <3>1, <3>2, <3>3, <3>4, <3>5, <3>6 DEF TypeOK
  <2>2. Life(db) /\ Life(backup)
    BY EmptySeq, Parameters DEF Init, Life
  <2>3. answer \in ServerAnswers
    BY DEF Init, ServerAnswers
  <2>4. IsFiniteSet(spool) /\ IsFiniteSet(dead)
    BY FS_EmptySet DEF Init
  <2>5. frozen \subseteq Envelope /\ restores \in 0..MaxRestores
    BY Parameters DEF Init
  <2> QED
    BY <2>1, <2>2, <2>3, <2>4, <2>5 DEF TypeInv
<1>2. PlaceInv /\ FrozenInv /\ EnvelopeNeverLost
  BY DEF Init, PlaceInv, FrozenInv, EnvelopeNeverLost
<1>3. QueueInv
  <2>1. DOMAIN queue = {} /\ DOMAIN prefix = {} /\ Len(prefix) <= Len(queue)
    BY EmptySeq DEF Init
  <2> QED
    BY <2>1 DEF Init, QueueInv
<1>4. ConfigInv
  BY Parameters DEF Init, ConfigInv, RevisionOrder
<1>5. AnswerInv
  BY DEF Init, AnswerInv, Silence
<1>6. FirstLifeInv
  <2>1. DesiredRevision \in Nat /\ DOMAIN db.configs = {}
    BY EmptySeq DEF Init, DesiredRevision
  <2> QED
    BY <2>1, Parameters
    DEF Init, FirstLifeInv, ConflictNeedsRestore, Given, Silence
<1>7. SecondLifeInv
  BY DEF Init, SecondLifeInv, Silence
<1> QED
  BY <1>1, <1>2, <1>3, <1>4, <1>5, <1>6, <1>7 DEF PipelineInv

\* The types of what the main loop and the mailbox keep.
LEMMA MainTypes ==
    ASSUME TypeInv, [Next]_vars
    PROVE  /\ boot' \in usedBoots' /\ usedBoots' \subseteq BootIds
           /\ queue' \in Seq(Record) /\ Len(queue') <= QueueCapacity /\ recordSeq' \in Nat
           /\ {mainConfig', box', stored', active', pending'} \subseteq Config
           /\ ackedRevision' \in 0..MaxRevision
<1>1. boot' \in usedBoots' /\ usedBoots' \subseteq BootIds
  BY MainSteps DEF Reboot, FreshIdentities, TypeInv, TypeOK
<1>2. {mainConfig', box', stored', active', pending'} \subseteq Config
      /\ ackedRevision' \in 0..MaxRevision
  <2>1. HandleConfig => {box', pending', stored'} \subseteq Config
    <3> SUFFICES ASSUME HandleConfig PROVE {box', pending', stored'} \subseteq Config
      OBVIOUS
    <3> QED
      BY HandleOutcome, ConfigTypes
  <2>2. ApplyPendingConfig \/ Reboot
           => {mainConfig', box'} \subseteq Config /\ ackedRevision' \in 0..MaxRevision
    BY ConfigTypes, Parameters DEF ApplyPendingConfig, Reboot
  <2>3. SynchronizeAppliedConfig \/ Reboot => {active', pending'} \subseteq Config
    BY ConfigTypes, Parameters DEF SynchronizeAppliedConfig, Reboot
  <2> QED
    BY <2>1, <2>2, <2>3, MainSteps, WorkerSteps, StoreSteps, ConfigTypes
<1>3. queue' \in Seq(Record) /\ Len(queue') <= QueueCapacity /\ recordSeq' \in Nat
  <2>1. /\ queue \in Seq(Record) /\ Len(queue) <= QueueCapacity
        /\ Len(queue) \in Nat /\ recordSeq \in Nat
    BY LenProperties DEF TypeInv, TypeOK
  <2>2. CASE UNCHANGED <<queue, recordSeq>>
    BY <2>1, <2>2
  <2>3. CASE EnqueueSample \/ ApplyPendingConfig
    <3>1. PICK rev \in 0..MaxRevision : Push(rev)
      BY <2>3, ConfigTypes DEF EnqueueSample, ApplyPendingConfig
    <3>2. /\ queue' \in Seq(Record) /\ recordSeq' = recordSeq + 1
          /\ Len(queue') <= QueueCapacity
      BY <3>1, PushOutcome
    <3> QED
      BY <2>1, <3>2
  <2>4. CASE CommitPrefix
    <3>1. queue' \in Seq(Record) /\ Len(queue') <= Len(queue)
      <4> DEFINE n == Len(prefix)
      <4>1. n \in Nat
        BY LenProperties DEF TypeInv, TypeOK
      <4>2. \A i \in (n + 1)..Len(queue) : queue[i] \in Record
        BY <2>1, <4>1, ElementOfSeq
      <4>3. queue' \in {queue, SubSeq(queue, n + 1, Len(queue))}
        BY <2>4 DEF CommitPrefix, Uncommitted
      <4> HIDE DEF n
      <4>4. /\ SubSeq(queue, n + 1, Len(queue)) \in Seq(Record)
            /\ Len(SubSeq(queue, n + 1, Len(queue)))
                   = IF n + 1 <= Len(queue) THEN Len(queue) - (n + 1) + 1 ELSE 0
        BY <2>1, <4>1, <4>2, SubSeqProperties
      <4>5. CASE queue' = queue
        BY <2>1, <4>5
      <4>6. CASE queue' = SubSeq(queue, n + 1, Len(queue))
        BY <2>1, <4>1, <4>4, <4>6
      <4> QED
        BY <4>3, <4>5, <4>6
    <3>2. recordSeq' = recordSeq
      BY <2>4 DEF CommitPrefix
    <3>3. Len(queue') \in Nat
      BY <3>1, LenProperties
    <3> QED
      BY <2>1, <3>1, <3>2, <3>3, Parameters
  <2>5. CASE Reboot
    <3>1. queue' = <<>> /\ recordSeq' = 0
      BY <2>5 DEF Reboot
    <3> QED
      BY <3>1, EmptySeq, Parameters
  <2> QED
    BY <2>2, <2>3, <2>4, <2>5, MainSteps
<1> QED
  BY <1>1, <1>2, <1>3

\* The types of what the worker keeps in RAM.
LEMMA WorkerTypes ==
    ASSUME TypeInv, [Next]_vars
    PROVE  /\ work' \in {"idle", "freezing", "renamed", "polling", "posting"}
           /\ prefix' \in Seq(Record) /\ Len(prefix') <= MaxBatch
           /\ anchor' \in Anchors \cup {NoAnchor} /\ halted' \in BOOLEAN
           /\ answer' \in ServerAnswers
<1>1. work' \in {"idle", "freezing", "renamed", "polling", "posting"}
  <2> USE DEF mainVars, mailboxVars, configVars, workerVars, flashVars, serverVars,
              historyVars
  <2>0. work \in {"idle", "freezing", "renamed", "polling", "posting"}
    BY DEF TypeInv, TypeOK
  <2>1. CASE UNCHANGED vars
    BY <2>0, <2>1 DEF vars
  <2>2. CASE Main
    BY <2>0, <2>2 DEF Main, EnqueueSample, ApplyPendingConfig
  <2>3. CASE Freeze
    BY <2>3 DEF Freeze, BeginFreeze, FailFreeze, RenameEnvelope, CommitPrefix
  <2>4. CASE Upload
    BY <2>4 DEF Upload, PostEnvelope, HandleAck, BeginConflictProbe, MoveToDeadLetter
  <2>5. CASE \/ GiveUp \/ CaptureClockAnchor \/ SynchronizeAppliedConfig
             \/ PollRemoteConfig \/ HandleConfig \/ RetryUpload
    BY <2>0, <2>5 DEF GiveUp, CaptureClockAnchor, SynchronizeAppliedConfig,
                      PollRemoteConfig, HandleConfig, RetryUpload
  <2>6. CASE Server
    BY <2>0, <2>6 DEF Server, Ingest, LoseRequest, GetConfig, PutConfig, Backup, Restore
  <2>7. CASE Reboot
    BY <2>7 DEF Reboot
  <2> QED
    BY <2>1, <2>2, <2>3, <2>4, <2>5, <2>6, <2>7 DEF Next, Worker
<1>2. prefix' \in Seq(Record) /\ Len(prefix') <= MaxBatch
  <2>1. CASE UNCHANGED prefix
    BY <2>1 DEF TypeInv, TypeOK
  <2>2. CASE BeginFreeze
    BY <2>2, CopyOutcome
  <2>3. CASE FailFreeze \/ CommitPrefix \/ Reboot
    <3>1. prefix' = <<>>
      BY <2>3 DEF FailFreeze, CommitPrefix, Reboot
    <3> QED
      BY <3>1, EmptySeq, Parameters
  <2> QED
    BY <2>1, <2>2, <2>3, WorkerSteps
<1>3. anchor' \in Anchors \cup {NoAnchor} /\ halted' \in BOOLEAN
  <2>1. HandleConfig => halted' \in BOOLEAN
    <3> SUFFICES ASSUME HandleConfig PROVE halted' \in BOOLEAN
      OBVIOUS
    <3>1. halted \in BOOLEAN
      BY DEF TypeInv, TypeOK
    <3>2. halted' = TRUE \/ halted' = halted
      BY HandleOutcome
    <3> QED
      BY <3>1, <3>2
  <2> QED
    BY <2>1, WorkerSteps DEF CaptureClockAnchor, RetryUpload, Reboot, TypeInv, TypeOK
<1>4. answer' \in ServerAnswers
  <2>1. CASE answer' \in {answer, Silence}
    BY <2>1 DEF TypeInv, ServerAnswers
  <2>2. CASE Ingest
    BY <2>2, IngestOutcome DEF TypeInv, ServerAnswers
  <2>3. CASE GetConfig
    <3>1. answer' = [status |-> "config", config |-> DesiredConfig]
      BY <2>3 DEF GetConfig
    <3> QED
      BY <3>1, DesiredOutcome DEF ServerAnswers
  <2>4. CASE PostEnvelope \/ PollRemoteConfig
    BY <2>1, <2>4 DEF PostEnvelope, PollRemoteConfig
  <2> QED
    BY <2>1, <2>2, <2>3, <2>4, ExchangeSteps
<1> QED
  BY <1>1, <1>2, <1>3, <1>4

\* An element makes a finite set at most one larger.
LEMMA OneMore ==
    ASSUME NEW S, IsFiniteSet(S), NEW x
    PROVE  /\ IsFiniteSet(S \cup {x}) /\ Cardinality(S \cup {x}) \in Nat
           /\ Cardinality(S \cup {x}) <= Cardinality(S) + 1
<1>1. Cardinality(S) \in Nat
  BY FS_CardinalityType
<1>2. /\ IsFiniteSet(S \cup {x})
      /\ Cardinality(S \cup {x}) = IF x \in S THEN Cardinality(S) ELSE Cardinality(S) + 1
  BY FS_AddElement
<1> QED
  BY <1>1, <1>2

\* The types of flash, of the server and of the history, and their limits.
LEMMA StoreTypes ==
    ASSUME PipelineInv, [Next]_vars
    PROVE  /\ IsFiniteSet(spool)' /\ IsFiniteSet(dead)'
           /\ Cardinality(spool') <= SpoolLimit /\ Cardinality(dead') <= DeadLimit
           /\ frozen' \subseteq Envelope
           /\ restores' \in 0..MaxRestores /\ Life(db)' /\ Life(backup)'
<1>0. TypeInv /\ QueueInv
  BY DEF PipelineInv
<1>1. IsFiniteSet(spool)' /\ Cardinality(spool') <= SpoolLimit
  <2>1. /\ IsFiniteSet(spool) /\ Cardinality(spool) <= SpoolLimit
        /\ Cardinality(spool) \in Nat
    BY <1>0, FS_CardinalityType DEF TypeInv, TypeOK
  <2>2. CASE spool' \subseteq spool
    <3>1. IsFiniteSet(spool') /\ Cardinality(spool') <= Cardinality(spool)
      BY <2>1, <2>2, FS_Subset
    <3>2. Cardinality(spool') \in Nat
      BY <3>1, FS_CardinalityType
    <3> QED
      BY <2>1, <3>1, <3>2, Parameters
  <2>3. CASE RenameEnvelope
    <3>1. CASE spool' = spool
      BY <2>2, <3>1
    <3>2. CASE spool' = spool \cup {Serialized(prefix)}
      <4>1. Cardinality(spool) < SpoolLimit
        BY <1>0, <2>3 DEF RenameEnvelope, QueueInv, SpoolHasRoom
      <4>2. /\ IsFiniteSet(spool')
            /\ Cardinality(spool') <= Cardinality(spool) + 1
            /\ Cardinality(spool') \in Nat
        BY <2>1, <3>2, OneMore
      <4> QED
        BY <2>1, <4>1, <4>2, Parameters
    <3> QED
      BY <2>3, <3>1, <3>2, RenameOutcome
  <2>4. CASE HandleAck \/ MoveToDeadLetter
    <3>1. spool' \subseteq spool
      BY <2>4 DEF HandleAck, MoveToDeadLetter
    <3> QED
      BY <2>2, <3>1
  <2> QED
    BY <2>2, <2>3, <2>4, StoreSteps
<1>2. IsFiniteSet(dead)' /\ Cardinality(dead') <= DeadLimit
  <2>1. /\ IsFiniteSet(dead) /\ Cardinality(dead) <= DeadLimit
        /\ Cardinality(dead) \in Nat
    BY <1>0, FS_CardinalityType DEF TypeInv, TypeOK
  <2>2. CASE dead' = dead
    BY <2>1, <2>2
  <2>3. CASE MoveToDeadLetter
    <3>1. PICK victims \in SUBSET dead :
              \/ /\ Cardinality(dead \ victims) = AfterEviction
                 /\ dead' = WithDeadLetter(dead \ victims, post.env)
              \/ dead' = dead \ victims
      BY <2>3 DEF MoveToDeadLetter
    <3> DEFINE kept == dead \ victims
    <3>2. /\ IsFiniteSet(kept) /\ Cardinality(kept) <= Cardinality(dead)
          /\ Cardinality(kept) \in Nat
      BY <2>1, FS_Subset, FS_CardinalityType
    <3> HIDE DEF kept
    <3>3. CASE Cardinality(kept) = AfterEviction /\ dead' = kept \cup {post.env}
      <4>1. AfterEviction <= DeadLimit - 1
        BY <2>1, Parameters DEF AfterEviction, Smaller
      <4>2. /\ IsFiniteSet(dead') /\ Cardinality(dead') <= Cardinality(kept) + 1
            /\ Cardinality(dead') \in Nat
        BY <3>2, <3>3, OneMore
      <4> QED
        BY <3>2, <3>3, <4>1, <4>2, Parameters
    <3>4. CASE dead' = kept
      BY <2>1, <3>2, <3>4, Parameters
    <3> QED
      BY <3>1, <3>3, <3>4 DEF kept, WithDeadLetter
  <2> QED
    BY <2>2, <2>3, StoreSteps
<1>3. frozen' \subseteq Envelope
  <2>1. CASE UNCHANGED frozen
    BY <1>0, <2>1 DEF TypeInv
  <2>2. CASE RenameEnvelope
    <3>1. Serialized(prefix) \in Envelope
      BY <1>0, <2>2, SerializedCopy DEF RenameEnvelope
    <3> QED
      BY <1>0, <2>2, <3>1, RenameOutcome DEF TypeInv
  <2> QED
    BY <2>1, <2>2, StoreSteps
<1>4. restores' \in 0..MaxRestores /\ Life(db)' /\ Life(backup)'
  <2>1. /\ Life(db) /\ Life(backup) /\ restores \in 0..MaxRestores
    BY <1>0 DEF TypeInv
  <2>2. Ingest => Life(db)'
    <3> SUFFICES ASSUME Ingest PROVE Life(db)'
      OBVIOUS
    <3>1. \/ db' = db
          \/ \E bs : db' = [configs |-> db.configs, batches |-> bs]
      BY <1>0, IngestOutcome
    <3> QED
      BY <2>1, <3>1 DEF Life
  <2>3. PutConfig => Life(db)'
    <3> SUFFICES ASSUME PutConfig PROVE Life(db)'
      OBVIOUS
    <3> DEFINE more == Append(db.configs, restores)
    <3>1. db' = [configs |-> more, batches |-> db.batches]
      BY <2>1, LifeFields DEF PutConfig, Life
    <3>2. /\ more \in Seq(0..MaxRestores) /\ Len(more) = Len(db.configs) + 1
          /\ Len(db.configs) \in Nat
      BY <2>1, AppendProperties, LenProperties DEF Life
    <3> HIDE DEF more
    <3>3. Len(more) <= MaxRevision
      BY <3>2, Parameters DEF PutConfig, DesiredRevision
    <3> QED
      BY <3>1, <3>2, <3>3 DEF Life
  <2>4. Restore => Life(db)' /\ restores' \in 0..MaxRestores
    BY <2>1, Parameters DEF Restore, Life
  <2>5. Backup => Life(backup)'
    BY <2>1 DEF Backup, Life
  <2>6. /\ UNCHANGED db => Life(db)'
        /\ UNCHANGED backup => Life(backup)'
    BY <2>1 DEF Life
  <2> QED
    BY <2>1, <2>2, <2>3, <2>4, <2>5, <2>6, StoreSteps
<1> QED
  BY <1>1, <1>2, <1>3, <1>4

\* Every step keeps the types.
LEMMA TypeStep == ASSUME PipelineInv, [Next]_vars PROVE TypeInv'
<1>1. TypeInv
  BY DEF PipelineInv
<1>2. TypeOK'
  BY <1>1, MainTypes, WorkerTypes, StoreTypes DEF TypeOK
<1> QED
  BY <1>1, <1>2, WorkerTypes, StoreTypes DEF TypeInv

\* What was frozen stays so.
LEMMA FrozenGrows == ASSUME [Next]_vars PROVE frozen \subseteq frozen'
<1>1. RenameEnvelope => frozen \subseteq frozen'
  BY DEF RenameEnvelope
<1> QED
  BY <1>1, StoreSteps

\* What a request is sent for is a file of the spool.
LEMMA PostOutcome ==
    ASSUME PipelineInv, PostEnvelope
    PROVE  /\ post'.env \in spool /\ wire' = wire \cup {post'}
           /\ work' = "posting" /\ work = "idle" /\ answer' = answer
<1>1. NextSpool \in spool
  <2>1. spool \subseteq Envelope /\ spool # {} /\ \A e \in spool : e.seqs # {}
    BY DEF PostEnvelope, PipelineInv, TypeInv, PlaceInv, FrozenInv
  <2> QED
    BY <2>1, FirstName
<1>2. PICK t \in Tries : /\ wire' = wire \cup {[try |-> t, env |-> NextSpool]}
                         /\ post' = [try |-> t, env |-> NextSpool]
  BY DEF PostEnvelope
<1>3. post'.env = NextSpool
  BY <1>2
<1> QED
  BY <1>1, <1>2, <1>3 DEF PostEnvelope

\* While a request is waited for, and while a poll is, the revision in force
\* stays.
LEMMA ActiveHeld ==
    ASSUME [Next]_vars, work' \in {"posting", "polling"}
    PROVE  active' = active
BY WorkerSteps DEF SynchronizeAppliedConfig, Reboot

\* The exchange under way is the one before, or has just begun.
LEMMA ExchangeHeld ==
    ASSUME [Next]_vars, work' \in {"posting", "polling"}
    PROVE  PostEnvelope \/ PollRemoteConfig \/ UNCHANGED <<work, post>>
BY ExchangeSteps DEF Ingest, GetConfig

\* Every step keeps envelopes where they may be.
LEMMA PlaceStep == ASSUME PipelineInv, [Next]_vars PROVE PlaceInv'
<1> USE DEF PlaceInv
<1>0. TypeInv /\ PlaceInv /\ QueueInv /\ ConfigInv /\ AnswerInv
  BY DEF PipelineInv
<1>1. frozen \subseteq frozen'
  BY FrozenGrows
<1>2. spool' \subseteq frozen'
  <2>1. HandleAck \/ MoveToDeadLetter => spool' \subseteq spool
    BY DEF HandleAck, MoveToDeadLetter
  <2>2. RenameEnvelope => spool' \subseteq frozen'
    BY <1>0, RenameOutcome
  <2> QED
    BY <1>0, <1>1, <2>1, <2>2, StoreSteps
<1>3. dead' \subseteq frozen'
  <2>1. MoveToDeadLetter => dead' \subseteq dead \cup {post.env} /\ post.env \in frozen
    BY <1>0 DEF MoveToDeadLetter, WithDeadLetter
  <2> QED
    BY <1>0, <1>1, <2>1, StoreSteps
<1>4. \A request \in wire' : request.env \in frozen'
  <2>1. PostEnvelope => \A request \in wire' : request.env \in frozen
    <3> SUFFICES ASSUME PostEnvelope, NEW request \in wire'
                 PROVE  request.env \in frozen
      OBVIOUS
    <3> QED
      BY <1>0, PostOutcome
  <2>2. Ingest \/ LoseRequest => wire' \subseteq wire
    BY DEF Ingest, LoseRequest
  <2> QED
    BY <1>0, <1>1, <2>1, <2>2, StoreSteps
<1>5. db'.batches \subseteq frozen' /\ backup'.batches \subseteq frozen'
  <2>1. Ingest => db'.batches \subseteq frozen
    <3> SUFFICES ASSUME Ingest PROVE db'.batches \subseteq frozen
      OBVIOUS
    <3>1. PICK request \in wire :
              \/ db' = [configs |-> db.configs,
                        batches |-> db.batches \cup {request.env}]
              \/ db' = db
      BY <1>0, IngestOutcome
    <3> QED
      BY <1>0, <3>1
  <2>2. PutConfig => db'.batches = db.batches
    <3> SUFFICES ASSUME PutConfig PROVE db'.batches = db.batches
      OBVIOUS
    <3>1. db' = [configs |-> Append(db.configs, restores), batches |-> db.batches]
      BY <1>0, LifeFields DEF PutConfig, TypeInv, Life
    <3> QED
      BY <3>1
  <2>3. Restore => db' = backup
    BY DEF Restore
  <2>4. Backup => backup' = db
    BY DEF Backup
  <2> QED
    BY <1>0, <1>1, <2>1, <2>2, <2>3, <2>4, StoreSteps
<1>6. ASSUME work' = "posting"
      PROVE  post'.env \in frozen' /\ post'.env.rev <= active'.rev
  <2>1. active' = active
    BY <1>6, ActiveHeld
  <2>2. CASE PostEnvelope
    <3>1. post'.env \in spool
      BY <2>2, PostOutcome
    <3> QED
      BY <1>0, <1>1, <2>1, <3>1 DEF ConfigInv, RevisionOrder
  <2>3. CASE UNCHANGED <<work, post>>
    BY <1>0, <1>1, <1>6, <2>1, <2>3
  <2> QED
    BY <1>6, <2>2, <2>3, ExchangeHeld DEF PollRemoteConfig
<1>7. probe' = NoProbe \/ \E e \in frozen', v \in BOOLEAN :
          probe' = [batch |-> BatchId(e), validated |-> v]
  <2>1. probe = NoProbe \/ \E e \in frozen, v \in BOOLEAN :
            probe = [batch |-> BatchId(e), validated |-> v]
    BY <1>0
  <2>2. CASE probe' \in {probe, NoProbe}
    BY <1>1, <2>1, <2>2
  <2>3. CASE HandleConfig
    <3>1. probe' \in {probe, [probe EXCEPT !.validated = TRUE]}
      <4>1. MarkConflictConfigValidated
                => probe' \in {probe, [probe EXCEPT !.validated = TRUE]}
        BY DEF MarkConflictConfigValidated
      <4>2. UNCHANGED probe \/ MarkConflictConfigValidated
        BY <1>0, <2>3, HandleOutcome
      <4> QED
        BY <4>1, <4>2
    <3>2. CASE probe = NoProbe
      <4>1. probe' = NoProbe
        BY <1>0, <2>3, <3>2, HandleOutcome DEF MarkConflictConfigValidated
      <4> QED
        BY <4>1
    <3>3. CASE probe # NoProbe
      <4>1. PICK e \in frozen, v \in BOOLEAN :
                probe = [batch |-> BatchId(e), validated |-> v]
        BY <2>1, <3>3
      <4>2. \E w \in BOOLEAN : probe' = [batch |-> BatchId(e), validated |-> w]
        BY <3>1, <4>1
      <4> QED
        BY <1>1, <4>2
    <3> QED
      BY <3>2, <3>3
  <2>4. CASE HandleAck \/ MoveToDeadLetter \/ Reboot
    <3>1. probe' \in {probe, NoProbe}
      BY <2>4 DEF HandleAck, MoveToDeadLetter, ClearProbe, Reboot
    <3> QED
      BY <2>2, <3>1
  <2>5. CASE BeginConflictProbe
    <3>1. post.env \in frozen /\ probe' = [batch |-> BatchId(post.env), validated |-> FALSE]
      BY <1>0, <2>5 DEF BeginConflictProbe, OpenProbe
    <3> QED
      BY <1>1, <3>1
  <2> QED
    BY <2>2, <2>3, <2>4, <2>5, WorkerSteps
<1> QED
  BY <1>2, <1>3, <1>4, <1>5, <1>6, <1>7

\* Every step keeps the numbers and the clock of a boot's envelopes apart from
\* those of any other: a freeze takes numbers of the queue, which no frozen
\* envelope of the boot has, and a boot identity that was in use is not drawn.
LEMMA FrozenStep == ASSUME PipelineInv, [Next]_vars PROVE FrozenInv'
<1>0. TypeInv /\ FrozenInv /\ QueueInv
  BY DEF PipelineInv
<1>1. CASE Reboot
  <2>1. /\ frozen' = frozen /\ usedBoots' = usedBoots \cup {boot'}
        /\ boot' \notin usedBoots
    BY <1>1 DEF Reboot, historyVars, FreshIdentities
  <2>2. \A e \in frozen : e.boot # boot'
    BY <1>0, <2>1 DEF FrozenInv
  <2> QED
    BY <1>0, <2>1, <2>2 DEF FrozenInv
<1>2. CASE RenameEnvelope
  <2>1. UNCHANGED <<boot, usedBoots, recordSeq, anchor>>
    BY <1>2 DEF RenameEnvelope, mainVars
  <2>2. CASE frozen' = frozen
    BY <1>0, <2>1, <2>2 DEF FrozenInv
  <2>3. CASE frozen' = frozen \cup {Serialized(prefix)}
    <3> DEFINE e == Serialized(prefix)
    <3>1. work = "freezing"
      BY <1>2 DEF RenameEnvelope
    <3>2. /\ e.seqs # {} /\ e.boot = boot /\ e.anchor = anchor
          /\ \A n \in e.seqs : \E i \in DOMAIN queue : queue[i].seq = n
      BY <1>0, <3>1, SerializedCopy
    <3> HIDE DEF e
    <3>3. \A n \in e.seqs : n < recordSeq
      BY <1>0, <3>2 DEF QueueInv
    <3>4. ASSUME NEW f \in frozen, f.boot = e.boot
          PROVE  f.seqs \cap e.seqs = {} /\ f.anchor \in {NoAnchor, e.anchor}
      BY <1>0, <3>1, <3>2, <3>4 DEF QueueInv, FrozenInv
    <3>5. boot \in usedBoots
      BY <1>0 DEF TypeInv, TypeOK
    <3>6. ASSUME NEW f \in frozen'
          PROVE  /\ f.seqs # {} /\ f.boot \in usedBoots
                 /\ f.boot = boot => /\ \A n \in f.seqs : n < recordSeq
                                     /\ f.anchor \in {NoAnchor, anchor}
      BY <1>0, <2>3, <3>2, <3>3, <3>5 DEF FrozenInv, e
    <3>7. ASSUME NEW f \in frozen', NEW g \in frozen', f.boot = g.boot
          PROVE  /\ f # g => f.seqs \cap g.seqs = {}
                 /\ NoAnchor \notin {f.anchor, g.anchor} => f.anchor = g.anchor
      <4>1. CASE f \in frozen /\ g \in frozen
        BY <1>0, <3>7, <4>1 DEF FrozenInv
      <4>2. CASE f = e \/ g = e
        BY <2>3, <3>4, <3>7, <4>2 DEF e
      <4> QED
        BY <2>3, <4>1, <4>2 DEF e
    <3> QED
      BY <2>1, <3>6, <3>7 DEF FrozenInv
  <2> QED
    BY <1>2, <2>2, <2>3, RenameOutcome
<1>3. CASE ~Reboot /\ ~RenameEnvelope
  <2>1. UNCHANGED <<boot, usedBoots, frozen>>
    BY <1>3, MainSteps, StoreSteps
  <2>2. recordSeq' >= recordSeq /\ recordSeq \in Nat /\ recordSeq' \in Nat
    <3>1. recordSeq \in Nat
      BY <1>0 DEF TypeInv, TypeOK
    <3>2. recordSeq' \in {recordSeq, recordSeq + 1}
      BY <1>3, MainSteps DEF EnqueueSample, ApplyPendingConfig, CommitPrefix, Push
    <3> QED
      BY <3>1, <3>2
  <2>3. anchor' = anchor \/ anchor = NoAnchor
    BY <1>3, WorkerSteps DEF CaptureClockAnchor
  <2>4. ASSUME NEW e \in frozen, e.boot = boot, NEW n \in e.seqs
        PROVE  n < recordSeq'
    <3>1. n < recordSeq /\ n \in Nat
      BY <1>0, <2>4 DEF FrozenInv, TypeInv, Envelope
    <3> QED
      BY <2>2, <3>1
  <2> QED
    BY <1>0, <2>1, <2>3, <2>4 DEF FrozenInv
<1> QED
  BY <1>1, <1>2, <1>3

\* An applied configuration is the pending one, newer than what was in force.
LEMMA ApplyOutcome ==
    ASSUME PipelineInv, ApplyPendingConfig
    PROVE  /\ pending # NoConfig /\ box = pending /\ mainConfig = active
           /\ mainConfig' = pending /\ ackedRevision' = pending.rev
           /\ box' = NoConfig /\ pending.rev > mainConfig.rev
           /\ UNCHANGED <<pending, active, stored>>
<1>1. ConfigInv /\ box # NoConfig
  BY DEF PipelineInv, ApplyPendingConfig
<1>2. pending # NoConfig /\ box = pending /\ mainConfig = active
  BY <1>1 DEF ConfigInv
<1> QED
  BY <1>1, <1>2 DEF ApplyPendingConfig, workerVars, configVars, flashVars

\* The worker takes the pending configuration over once main has it.
LEMMA SynchronizeOutcome ==
    ASSUME PipelineInv, SynchronizeAppliedConfig
    PROVE  /\ box = NoConfig /\ mainConfig = pending /\ active' = pending
           /\ pending' = NoConfig /\ pending.rev > active.rev
           /\ UNCHANGED <<box, mainConfig, ackedRevision, stored, work>>
<1>1. ConfigInv /\ pending # NoConfig /\ ackedRevision >= pending.rev
  BY DEF PipelineInv, SynchronizeAppliedConfig, AppliedByMain
<1>2. /\ pending.rev \in Nat /\ active.rev \in Nat /\ mainConfig.rev \in Nat
      /\ pending.rev > active.rev /\ ackedRevision = mainConfig.rev
  BY <1>1, ConfigTypes DEF ConfigInv, PipelineInv
<1>3. box = NoConfig /\ mainConfig = pending
  <2>1. mainConfig # active
    BY <1>1, <1>2
  <2> QED
    BY <1>1, <2>1 DEF ConfigInv
<1>4. active' = pending
  <2>1. ~(ackedRevision > pending.rev)
    BY <1>2, <1>3
  <2> QED
    BY <2>1 DEF SynchronizeAppliedConfig
<1> QED
  BY <1>2, <1>3, <1>4 DEF SynchronizeAppliedConfig, mainVars, mailboxVars, flashVars

\* Neither the main loop's configuration nor the worker's ever goes back.
LEMMA RevisionsGrow ==
    ASSUME PipelineInv, [Next]_vars
    PROVE  mainConfig'.rev >= mainConfig.rev /\ active'.rev >= active.rev
<1>0. ConfigInv /\ TypeInv
  BY DEF PipelineInv
<1>1. /\ mainConfig.rev \in Nat /\ active.rev \in Nat /\ stored.rev \in Nat
      /\ pending.rev \in Nat
  BY <1>0, ConfigTypes
<1>2. ApplyPendingConfig => mainConfig'.rev >= mainConfig.rev
  <2> SUFFICES ASSUME ApplyPendingConfig PROVE mainConfig'.rev >= mainConfig.rev
    OBVIOUS
  <2>1. mainConfig' = pending /\ pending.rev > mainConfig.rev
    BY ApplyOutcome
  <2> QED
    BY <1>1, <2>1
<1>3. SynchronizeAppliedConfig => active'.rev >= active.rev
  <2> SUFFICES ASSUME SynchronizeAppliedConfig PROVE active'.rev >= active.rev
    OBVIOUS
  <2>1. active' = pending /\ pending.rev > active.rev
    BY SynchronizeOutcome
  <2> QED
    BY <1>1, <2>1
<1>4. Reboot => mainConfig'.rev >= mainConfig.rev /\ active'.rev >= active.rev
  <2>1. active.rev <= mainConfig.rev /\ mainConfig.rev <= stored.rev
    BY <1>0 DEF ConfigInv, RevisionOrder
  <2> QED
    BY <1>1, <2>1 DEF Reboot
<1>5. /\ UNCHANGED mainConfig => mainConfig'.rev >= mainConfig.rev
      /\ UNCHANGED active => active'.rev >= active.rev
  BY <1>1
<1> QED
  BY <1>2, <1>3, <1>4, <1>5, MainSteps, WorkerSteps

\* Every step keeps the queue in order and out of the frozen envelopes.
LEMMA QueueStep == ASSUME PipelineInv, [Next]_vars PROVE QueueInv'
<1>0. TypeInv /\ FrozenInv /\ QueueInv
  BY DEF PipelineInv
<1>t. /\ queue \in Seq(Record) /\ prefix \in Seq(Record)
      /\ DOMAIN queue = 1..Len(queue) /\ DOMAIN prefix = 1..Len(prefix)
      /\ Len(queue) \in Nat /\ Len(prefix) \in Nat /\ recordSeq \in Nat
  BY <1>0, LenProperties DEF TypeInv, TypeOK
<1>r. \A i \in 1..Len(queue) : /\ queue[i] \in Record /\ queue[i].seq \in Nat
                               /\ queue[i].rev \in Nat
  <2>1. \A rec \in Record : rec.seq \in Nat /\ rec.rev \in Nat
    BY Parameters DEF Record
  <2>2. \A i \in 1..Len(queue) : queue[i] \in Record
    BY <1>t, ElementOfSeq
  <2> QED
    BY <2>1, <2>2
<1>g. /\ mainConfig'.rev >= mainConfig.rev /\ active'.rev >= active.rev
      /\ mainConfig.rev \in Nat /\ mainConfig'.rev \in Nat
      /\ active.rev \in Nat /\ active'.rev \in Nat
  BY <1>0, RevisionsGrow, ConfigTypes, TypeStep, MainTypes
<1>1. CASE Reboot
  <2>1. DOMAIN queue' = {} /\ DOMAIN prefix' = {} /\ Len(prefix') <= Len(queue')
        /\ work' = "idle"
    BY <1>1, EmptySeq DEF Reboot
  <2> QED
    BY <2>1 DEF QueueInv
<1>2. CASE EnqueueSample \/ ApplyPendingConfig
  <2>1. /\ UNCHANGED <<boot, work, prefix, active, spool, frozen>>
        /\ \E rev \in 0..MaxRevision : Push(rev) /\ rev <= mainConfig'.rev
    <3>1. UNCHANGED <<boot, work, prefix, active, spool, frozen>>
      BY <1>2 DEF EnqueueSample, ApplyPendingConfig, workerVars, configVars,
                  flashVars, historyVars
    <3>2. EnqueueSample => Push(mainConfig.rev) /\ mainConfig' = mainConfig
      BY DEF EnqueueSample
    <3>3. ApplyPendingConfig => Push(box.rev) /\ mainConfig' = box
      BY DEF ApplyPendingConfig
    <3> QED
      BY <1>0, <1>2, <3>1, <3>2, <3>3, ConfigTypes
  <2>2. PICK rev \in 0..MaxRevision : Push(rev) /\ rev <= mainConfig'.rev
    BY <2>1
  <2>3. /\ queue' \in Seq(Record) /\ recordSeq' = recordSeq + 1 /\ Len(queue') >= Len(queue)
        /\ \A i \in 1..Len(queue') :
               \/ i \in 1..Len(queue) /\ queue'[i] = queue[i]
               \/ i = Len(queue) + 1 /\ queue'[i] = [seq |-> recordSeq, rev |-> rev]
    BY <1>0, <2>2, PushOutcome
  <2>4. DOMAIN queue' = 1..Len(queue') /\ Len(queue') \in Nat
    BY <2>3, LenProperties
  <2>5. ASSUME NEW i \in DOMAIN queue'
        PROVE  queue'[i].seq < recordSeq' /\ queue'[i].rev <= mainConfig'.rev
    <3>1. CASE i \in 1..Len(queue) /\ queue'[i] = queue[i]
      BY <1>0, <1>t, <1>r, <1>g, <2>3, <3>1 DEF QueueInv
    <3>2. CASE queue'[i] = [seq |-> recordSeq, rev |-> rev]
      BY <1>t, <2>2, <2>3, <3>2
    <3> QED
      BY <2>3, <2>4, <3>1, <3>2
  <2>6. ASSUME NEW i \in DOMAIN queue', NEW j \in DOMAIN queue', i < j
        PROVE  queue'[i].seq < queue'[j].seq
    <3>1. i \in 1..Len(queue) /\ queue'[i] = queue[i]
      BY <1>t, <2>3, <2>4, <2>6
    <3>2. CASE j \in 1..Len(queue) /\ queue'[j] = queue[j]
      BY <1>0, <1>t, <2>6, <3>1, <3>2 DEF QueueInv
    <3>3. CASE queue'[j] = [seq |-> recordSeq, rev |-> rev]
      BY <1>0, <1>t, <3>1, <3>3 DEF QueueInv
    <3> QED
      BY <2>3, <2>4, <3>2, <3>3
  <2>7. Len(prefix') <= Len(queue') /\ \A i \in DOMAIN prefix' : prefix'[i] = queue'[i]
    BY <1>0, <1>t, <2>1, <2>3, <2>4 DEF QueueInv
  <2>8. ASSUME NEW e \in frozen', NEW i \in DOMAIN queue',
               e.boot = boot', queue'[i].seq \in e.seqs
        PROVE  work' = "renamed" /\ i <= Len(prefix')
    <3>1. CASE i \in 1..Len(queue) /\ queue'[i] = queue[i]
      BY <1>0, <1>t, <2>1, <2>8, <3>1 DEF QueueInv
    <3>2. CASE queue'[i] = [seq |-> recordSeq, rev |-> rev]
      <4>1. recordSeq \in e.seqs /\ e \in frozen /\ e.boot = boot
        BY <2>1, <2>8, <3>2
      <4> QED
        BY <1>0, <1>t, <4>1 DEF FrozenInv
    <3> QED
      BY <2>3, <2>4, <3>1, <3>2
  <2>9. work' = "freezing" => /\ prefix' # <<>> /\ prefix'[1].rev <= active'.rev
                              /\ SpoolHasRoom'
    BY <1>0, <2>1 DEF QueueInv, SpoolHasRoom
  <2> QED
    BY <2>5, <2>6, <2>7, <2>8, <2>9 DEF QueueInv
<1>3. CASE BeginFreeze
  <2>1. /\ UNCHANGED <<boot, queue, recordSeq, mainConfig, active, spool, frozen>>
        /\ work = "idle" /\ work' = "freezing" /\ SpoolHasRoom
        /\ queue[1].rev <= active.rev
    BY <1>3 DEF BeginFreeze, mainVars, configVars, flashVars, historyVars
  <2>2. /\ prefix' \in Seq(Record) /\ prefix' # <<>> /\ Len(prefix') <= Len(queue)
        /\ \A i \in 1..Len(prefix') : prefix'[i] = queue[i]
    BY <1>0, <1>3, CopyOutcome
  <2>3. DOMAIN prefix' = 1..Len(prefix') /\ 1 \in 1..Len(prefix')
    BY <2>2, LenProperties, EmptySeq
  <2>4. \A e \in frozen : \A i \in DOMAIN queue :
            ~(e.boot = boot /\ queue[i].seq \in e.seqs)
    BY <1>0, <2>1 DEF QueueInv
  <2>5. SpoolHasRoom' /\ prefix'[1].rev <= active'.rev
    BY <2>1, <2>2, <2>3 DEF SpoolHasRoom
  <2> QED
    BY <1>0, <2>1, <2>2, <2>3, <2>4, <2>5 DEF QueueInv
<1>4. CASE RenameEnvelope
  <2>1. /\ UNCHANGED <<boot, queue, recordSeq, mainConfig, prefix, active>>
        /\ work = "freezing" /\ work' = "renamed"
    BY <1>4 DEF RenameEnvelope, mainVars, configVars
  <2>2. ASSUME NEW e \in frozen', NEW i \in DOMAIN queue,
               e.boot = boot, queue[i].seq \in e.seqs
        PROVE  i <= Len(prefix)
    <3>1. CASE e \in frozen
      BY <1>0, <2>2, <3>1 DEF QueueInv
    <3>2. CASE e = Serialized(prefix)
      <4>1. PICK j \in DOMAIN queue : j <= Len(prefix) /\ queue[j].seq = queue[i].seq
        <5>1. \A n \in Serialized(prefix).seqs : \E j \in DOMAIN queue :
                  j <= Len(prefix) /\ queue[j].seq = n
          BY <1>0, <2>1, SerializedCopy
        <5> QED
          BY <2>2, <3>2, <5>1
      <4>2. i = j
        <5>1. ~(i < j) /\ ~(j < i)
          BY <1>0, <1>t, <1>r, <4>1 DEF QueueInv
        <5> QED
          BY <1>t, <5>1
      <4> QED
        BY <4>1, <4>2
    <3> QED
      BY <1>4, <3>1, <3>2, RenameOutcome
  <2> QED
    BY <1>0, <2>1, <2>2 DEF QueueInv
<1>5. CASE CommitPrefix
  <2>1. /\ UNCHANGED <<boot, recordSeq, mainConfig, active, spool, frozen>>
        /\ work' = "idle" /\ prefix' = <<>>
    BY <1>5 DEF CommitPrefix, configVars, flashVars, historyVars
  <2>2. /\ queue' \in Seq(Record)
        /\ \A i \in 1..Len(queue') : /\ queue'[i] = queue[i + Len(prefix)]
                                     /\ i + Len(prefix) \in 1..Len(queue)
    BY <1>0, <1>5, CommitOutcome
  <2>3. /\ DOMAIN queue' = 1..Len(queue') /\ Len(queue') \in Nat
        /\ DOMAIN prefix' = {} /\ Len(prefix') = 0
    BY <2>1, <2>2, LenProperties, EmptySeq
  <2>4. ASSUME NEW i \in DOMAIN queue'
        PROVE  queue'[i].seq < recordSeq' /\ queue'[i].rev <= mainConfig'.rev
    BY <1>0, <1>t, <2>1, <2>2, <2>3 DEF QueueInv
  <2>5. ASSUME NEW i \in DOMAIN queue', NEW j \in DOMAIN queue', i < j
        PROVE  queue'[i].seq < queue'[j].seq
    <3>1. i + Len(prefix) < j + Len(prefix)
      BY <1>t, <2>3, <2>5
    <3> QED
      BY <1>0, <1>t, <2>2, <2>3, <3>1 DEF QueueInv
  <2>6. ASSUME NEW e \in frozen', NEW i \in DOMAIN queue',
               e.boot = boot', queue'[i].seq \in e.seqs
        PROVE  FALSE
    <3>1. i + Len(prefix) \in DOMAIN queue /\ queue[i + Len(prefix)].seq \in e.seqs
      BY <1>t, <2>2, <2>3, <2>6
    <3>2. i + Len(prefix) <= Len(prefix)
      BY <1>0, <2>1, <2>6, <3>1 DEF QueueInv
    <3> QED
      BY <1>t, <2>3, <3>2
  <2> QED
    BY <2>1, <2>3, <2>4, <2>5, <2>6 DEF QueueInv
<1>6. CASE FailFreeze
  <2>1. /\ UNCHANGED <<boot, queue, recordSeq, mainConfig, frozen>>
        /\ work = "freezing" /\ work' = "idle" /\ prefix' = <<>>
    BY <1>6 DEF FailFreeze, mainVars, historyVars
  <2>2. DOMAIN prefix' = {} /\ Len(prefix') = 0
    BY <2>1, EmptySeq
  <2> QED
    BY <1>0, <1>t, <2>1, <2>2 DEF QueueInv
<1>7. CASE /\ UNCHANGED <<boot, queue, recordSeq, mainConfig, prefix, frozen>>
           /\ work' = work \/ (work # "renamed" /\ work' # "freezing")
           /\ work' = "freezing" => UNCHANGED <<active, spool>>
  <2>1. work' = "freezing" => /\ prefix' # <<>> /\ prefix'[1].rev <= active'.rev
                              /\ SpoolHasRoom'
    BY <1>0, <1>7 DEF QueueInv, SpoolHasRoom
  <2> QED
    BY <1>0, <1>7, <2>1 DEF QueueInv
<1>8. \/ Reboot \/ EnqueueSample \/ ApplyPendingConfig \/ BeginFreeze
      \/ RenameEnvelope \/ CommitPrefix \/ FailFreeze
      \/ /\ UNCHANGED <<boot, queue, recordSeq, mainConfig, prefix, frozen>>
         /\ work' = work \/ (work # "renamed" /\ work' # "freezing")
         /\ work' = "freezing" => UNCHANGED <<active, spool>>
  <2> USE DEF mainVars, configVars, workerVars, flashVars, historyVars
  <2>1. CASE UNCHANGED vars
    BY <2>1 DEF vars
  <2>2. CASE Upload
    BY <2>2 DEF Upload, PostEnvelope, HandleAck, BeginConflictProbe, MoveToDeadLetter
  <2>3. CASE \/ GiveUp \/ CaptureClockAnchor \/ SynchronizeAppliedConfig
             \/ PollRemoteConfig \/ HandleConfig \/ RetryUpload
    BY <2>3 DEF GiveUp, CaptureClockAnchor, SynchronizeAppliedConfig,
                PollRemoteConfig, HandleConfig, RetryUpload
  <2>4. CASE Server
    BY <2>4 DEF Server, Ingest, LoseRequest, GetConfig, PutConfig, Backup, Restore
  <2> QED
    BY <2>1, <2>2, <2>3, <2>4 DEF Next, Main, Worker, Freeze
<1> QED
  BY <1>1, <1>2, <1>3, <1>4, <1>5, <1>6, <1>7, <1>8

\* Every step keeps the way of a configuration: flash, pending, the mailbox,
\* the main loop, the worker.
LEMMA ConfigStep == ASSUME PipelineInv, [Next]_vars PROVE ConfigInv'
<1>0. TypeInv /\ ConfigInv /\ QueueInv
  BY DEF PipelineInv
<1>t. /\ mainConfig.rev \in Nat /\ active.rev \in Nat /\ stored.rev \in Nat
      /\ pending.rev \in Nat /\ ackedRevision \in Nat
  BY <1>0, ConfigTypes
<1>1. work' = "polling" => pending' = NoConfig
  <2> SUFFICES ASSUME work' = "polling" PROVE pending' = NoConfig
    OBVIOUS
  <2>1. CASE PollRemoteConfig
    BY <2>1 DEF PollRemoteConfig, configVars
  <2>2. CASE UNCHANGED <<work, post>>
    <3>1. pending' = pending
      BY WorkerSteps DEF SynchronizeAppliedConfig, HandleConfig, Reboot
    <3> QED
      BY <1>0, <2>2, <3>1 DEF ConfigInv
  <2> QED
    BY <2>1, <2>2, ExchangeHeld DEF PostEnvelope
<1>2. \A e \in spool' : e.rev <= active'.rev
  <2>1. active'.rev >= active.rev /\ active'.rev \in Nat
    BY <1>0, RevisionsGrow, MainTypes, Parameters DEF Config
  <2>2. \A e \in spool' : e.rev <= active.rev /\ e.rev \in Nat
    <3>1. \A e \in spool : e.rev <= active.rev /\ e.rev \in Nat
      BY <1>0, Parameters
      DEF ConfigInv, RevisionOrder, PipelineInv, PlaceInv, TypeInv, Envelope
    <3>2. CASE RenameEnvelope
      <4>1. Serialized(prefix) \in Envelope /\ Serialized(prefix).rev <= active.rev
        BY <1>0, <3>2, SerializedCopy DEF RenameEnvelope
      <4>2. Serialized(prefix).rev \in Nat
        BY <4>1, Parameters DEF Envelope
      <4>3. spool' \subseteq spool \cup {Serialized(prefix)}
        BY <3>2, RenameOutcome
      <4> QED
        BY <3>1, <4>1, <4>2, <4>3
    <3>3. CASE ~RenameEnvelope
      <4>1. spool' \subseteq spool
        BY <3>3, StoreSteps DEF HandleAck, MoveToDeadLetter
      <4> QED
        BY <3>1, <4>1
    <3> QED
      BY <3>2, <3>3
  <2> QED
    BY <1>t, <2>1, <2>2
<1> DEFINE Way ==
        /\ ackedRevision = mainConfig.rev
        /\ pending = NoConfig => box = NoConfig /\ mainConfig = active
        /\ pending # NoConfig =>
               /\ pending.rev > active.rev /\ pending.rev <= stored.rev
               /\ \/ box = pending /\ mainConfig = active
                  \/ box = NoConfig /\ mainConfig = pending
        /\ active.rev <= mainConfig.rev
        /\ mainConfig.rev <= stored.rev
<1>3. Way
  BY <1>0 DEF ConfigInv, RevisionOrder
<1>4. Way'
  <2>1. CASE ApplyPendingConfig
    <3>1. /\ pending # NoConfig /\ mainConfig' = pending /\ box' = NoConfig
          /\ ackedRevision' = pending.rev /\ UNCHANGED <<pending, active, stored>>
      BY <2>1, ApplyOutcome
    <3> QED
      BY <1>3, <1>t, <3>1
  <2>2. CASE SynchronizeAppliedConfig
    <3>1. /\ box = NoConfig /\ mainConfig = pending /\ active' = pending
          /\ pending' = NoConfig
          /\ UNCHANGED <<box, mainConfig, ackedRevision, stored>>
      BY <2>2, SynchronizeOutcome
    <3> QED
      BY <1>3, <1>t, <3>1
  <2>3. CASE HandleConfig
    <3>1. UNCHANGED <<mainConfig, ackedRevision, active>> /\ pending = NoConfig
      BY <1>0, <2>3 DEF HandleConfig, mainVars, ConfigInv
    <3>2. CASE UNCHANGED <<stored, box, pending>>
      BY <1>3, <3>1, <3>2
    <3>3. CASE /\ answer.config.rev > active.rev /\ stored' = answer.config
               /\ answer.config # NoConfig
               /\ \/ box' = answer.config /\ pending' = answer.config
                  \/ UNCHANGED <<box, pending>>
      <4>1. answer.config.rev \in Nat
        BY <1>0, <2>3, HandleOutcome, ConfigTypes
      <4> QED
        BY <1>3, <1>t, <3>1, <3>3, <4>1
    <3> QED
      BY <1>0, <2>3, <3>2, <3>3, HandleOutcome
  <2>4. CASE Reboot
    <3>1. /\ mainConfig' = stored /\ box' = NoConfig /\ ackedRevision' = stored.rev
          /\ active' = stored /\ pending' = NoConfig /\ stored' = stored
      BY <2>4 DEF Reboot, flashVars
    <3> QED
      BY <1>t, <3>1
  <2>5. CASE UNCHANGED <<mainConfig, ackedRevision, box, active, pending, stored>>
    BY <1>3, <2>5
  <2> QED
    BY <2>1, <2>2, <2>3, <2>4, <2>5, MainSteps, WorkerSteps, StoreSteps
<1> QED
  BY <1>1, <1>2, <1>4 DEF ConfigInv, RevisionOrder

\* Every step keeps an answer to the exchange it answers.
LEMMA AnswerStep == ASSUME PipelineInv, [Next]_vars PROVE AnswerInv'
<1>0. TypeInv /\ AnswerInv
  BY DEF PipelineInv
<1>1. delivered \subseteq delivered'
  BY StoreSteps DEF Ingest
<1>2. CASE UNCHANGED <<work, post, answer>>
  BY <1>0, <1>1, <1>2 DEF AnswerInv
<1>3. CASE answer' = Silence
  BY <1>3 DEF AnswerInv, Silence
<1>4. CASE /\ work' \notin {"posting", "polling"}
           /\ work \notin {"posting", "polling"} /\ UNCHANGED <<post, answer>>
  BY <1>0, <1>4 DEF AnswerInv
<1>5. CASE PostEnvelope \/ PollRemoteConfig
  <2>1. work = "idle" /\ answer' = answer
    BY <1>5 DEF PostEnvelope, PollRemoteConfig
  <2>2. answer' = Silence
    BY <1>0, <2>1, AnswerKinds DEF AnswerInv, TypeInv
  <2> QED
    BY <1>3, <2>2
<1>6. CASE Ingest
  <2>1. UNCHANGED <<work, post>>
    BY <1>6 DEF Ingest
  <2>2. CASE answer' = answer
    BY <1>2, <2>1, <2>2
  <2>3. CASE answer' # answer
    <3>1. PICK request \in wire :
              /\ \/ ~Conflicts(request.env) /\ delivered' = delivered \cup {request.env}
                 \/ Conflicts(request.env)
              /\ work = "posting" /\ post = request
              /\ \/ ~Conflicts(request.env) /\ answer' = [status |-> "ack"]
                 \/ Conflicts(request.env) /\ answer' = [status |-> "conflict"]
      BY <1>0, <1>6, <2>3, IngestOutcome
    <3>2. \/ answer' = [status |-> "ack"] /\ post'.env \in delivered'
          \/ answer' = [status |-> "conflict"]
      BY <2>1, <3>1
    <3> QED
      BY <2>1, <3>1, <3>2 DEF AnswerInv
  <2> QED
    BY <2>2, <2>3
<1>7. CASE GetConfig
  <2>1. answer' = [status |-> "config", config |-> DesiredConfig] /\ work' = "polling"
    BY <1>7 DEF GetConfig
  <2>2. answer'.status = "config"
    BY <2>1
  <2> QED
    BY <2>1, <2>2 DEF AnswerInv
<1> QED
  BY <1>2, <1>3, <1>4, <1>5, <1>6, <1>7, ExchangeSteps

\* No step makes an envelope vanish: what leaves the spool is with the server,
\* whose acknowledgement is true, or a dead letter, and of those what makes room
\* is counted.
LEMMA LostStep == ASSUME PipelineInv, [Next]_vars PROVE EnvelopeNeverLost'
<1>0. AnswerInv /\ EnvelopeNeverLost
  BY DEF PipelineInv
<1>1. CASE RenameEnvelope
  <2>1. UNCHANGED <<delivered, dead, evicted>>
    BY <1>1 DEF RenameEnvelope
  <2> QED
    BY <1>0, <1>1, <2>1, RenameOutcome DEF EnvelopeNeverLost
<1>2. CASE HandleAck
  <2>1. UNCHANGED <<frozen, delivered, dead, evicted>>
        /\ spool \subseteq spool' \cup {post.env}
    BY <1>2 DEF HandleAck, historyVars
  <2>2. post.env \in delivered
    BY <1>0, <1>2 DEF HandleAck, AnswerInv
  <2> QED
    BY <1>0, <2>1, <2>2 DEF EnvelopeNeverLost
<1>3. CASE MoveToDeadLetter
  <2>1. UNCHANGED <<frozen, delivered>>
    BY <1>3 DEF MoveToDeadLetter
  <2>2. dead \subseteq dead' \cup evicted' /\ evicted \subseteq evicted'
        /\ spool \subseteq spool' \cup dead'
    BY <1>3 DEF MoveToDeadLetter, WithDeadLetter
  <2> QED
    BY <1>0, <2>1, <2>2 DEF EnvelopeNeverLost
<1>4. CASE UNCHANGED <<frozen, spool, dead, evicted>> /\ delivered \subseteq delivered'
  BY <1>0, <1>4 DEF EnvelopeNeverLost
<1>5. delivered \subseteq delivered'
  BY StoreSteps DEF Ingest
<1> QED
  BY <1>1, <1>2, <1>3, <1>4, <1>5, StoreSteps

-----------------------------------------------------------------------------
(* The server and its restorations.                                        *)

\* A frozen envelope of a revision the server has given out is never refused:
\* no batch of its name differs, no clock of its boot, and no record of it is
\* in another batch.
LEMMA NoConflict ==
    ASSUME PipelineInv, NEW e \in frozen, e.rev <= DesiredRevision
    PROVE  ~Conflicts(e)
<1>0. TypeInv /\ FrozenInv /\ db.batches \subseteq frozen
  BY DEF PipelineInv, PlaceInv
<1>1. ASSUME NEW f \in db.batches, BatchId(f) = BatchId(e) PROVE f = e
  BY <1>0, <1>1, NamesApart DEF TypeInv
<1>2. ~(e.rev > DesiredRevision)
  BY <1>0, DesiredOutcome, Parameters DEF TypeInv, Envelope
<1>3. ASSUME NEW f \in SameBoot(e)
      PROVE  /\ NoAnchor \notin {e.anchor, f.anchor} => e.anchor = f.anchor
             /\ e.seqs \cap f.seqs # {} => e.rev = f.rev
  <2>1. f \in frozen /\ f.boot = e.boot
    BY <1>0, <1>3 DEF SameBoot
  <2> QED
    BY <1>0, <2>1 DEF FrozenInv
<1> QED
  BY <1>1, <1>2, <1>3 DEF Conflicts

\* A server that is not being restored keeps what it has given out, and only
\* gives out more, marked by the life it is in.
LEMMA DesiredGrows ==
    ASSUME TypeInv, [Next]_vars, ~Restore
    PROVE  /\ restores' = restores
           /\ DesiredRevision' >= DesiredRevision
           /\ \A i \in DOMAIN db'.configs :
                  \/ i \in DOMAIN db.configs /\ db'.configs[i] = db.configs[i]
                  \/ db'.configs[i] = restores
<1>1. db.configs \in Seq(0..MaxRestores) /\ restores \in 0..MaxRestores
      /\ Len(db.configs) \in Nat /\ DOMAIN db.configs = 1..Len(db.configs)
  BY LenProperties DEF TypeInv, Life
<1>2. CASE db'.configs = db.configs
  BY <1>1, <1>2, StoreSteps DEF DesiredRevision
<1>3. CASE PutConfig
  <2> DEFINE more == Append(db.configs, restores)
  <2>1. db' = [configs |-> more, batches |-> db.batches]
    BY LifeFields, <1>3 DEF PutConfig, TypeInv, Life
  <2>2. db'.configs = more
    BY <2>1
  <2>3. /\ more \in Seq(0..MaxRestores) /\ Len(more) = Len(db.configs) + 1
        /\ \A i \in 1..Len(db.configs) : more[i] = db.configs[i]
        /\ more[Len(db.configs) + 1] = restores
    BY <1>1, AppendProperties
  <2> HIDE DEF more
  <2>4. DOMAIN more = 1..(Len(db.configs) + 1)
    BY <1>1, <2>3, LenProperties
  <2>5. DesiredRevision' >= DesiredRevision
    BY <1>1, <2>2, <2>3 DEF DesiredRevision
  <2>6. restores' = restores
    BY StoreSteps
  <2>7. ASSUME NEW i \in DOMAIN more
        PROVE  (i \in 1..Len(db.configs) /\ more[i] = db.configs[i]) \/ more[i] = restores
    <3>1. i \in 1..Len(db.configs) \/ i = Len(db.configs) + 1
      BY <1>1, <2>4
    <3> QED
      BY <2>3, <3>1
  <2> QED
    BY <1>1, <2>2, <2>5, <2>6, <2>7
<1>4. Ingest => db'.configs = db.configs
  <2> SUFFICES ASSUME Ingest PROVE db'.configs = db.configs
    OBVIOUS
  <2>1. db' = db \/ \E bs : db' = [configs |-> db.configs, batches |-> bs]
    BY IngestOutcome
  <2> QED
    BY <2>1
<1> QED
  BY <1>2, <1>3, <1>4, StoreSteps

\* What a server that is not being restored has given out, it has still.
LEMMA GivenStays ==
    ASSUME PipelineInv, [Next]_vars, ~Restore
    PROVE  /\ DesiredRevision \in Nat /\ DesiredRevision' \in Nat
           /\ DesiredRevision' >= DesiredRevision
           /\ \A config \in Config :
                  Given(config) => config.tag = 0 /\ config.rev <= DesiredRevision'
<1>1. TypeInv /\ TypeInv'
  BY TypeStep DEF PipelineInv
<1>2. DesiredRevision \in Nat /\ DesiredRevision' \in Nat
  BY <1>1, LenProperties DEF TypeInv, Life, DesiredRevision
<1>3. DesiredRevision' >= DesiredRevision
  BY <1>1, DesiredGrows
<1>4. ASSUME NEW config \in Config, Given(config)
      PROVE  config.tag = 0 /\ config.rev <= DesiredRevision'
  <2>1. config.rev \in Nat /\ config.tag = 0 /\ config.rev <= DesiredRevision
    BY <1>1, <1>4, ConfigTypes DEF Given
  <2> QED
    BY <1>2, <1>3, <2>1
<1> QED
  BY <1>2, <1>3, <1>4

\* A conflict found no frozen envelope the server has given out the revision of.
LEMMA IngestRefuses ==
    ASSUME PipelineInv, Ingest, answer' # answer, answer'.status = "conflict"
    PROVE  /\ post.env \in frozen /\ UNCHANGED <<post, probe>>
           /\ ~(post.env.rev <= DesiredRevision)
<1>0. TypeInv /\ PlaceInv
  BY DEF PipelineInv
<1>1. PICK request \in wire :
          /\ work = "posting" /\ post = request
          /\ \/ ~Conflicts(request.env) /\ answer' = [status |-> "ack"]
             \/ Conflicts(request.env) /\ answer' = [status |-> "conflict"]
  BY <1>0, IngestOutcome
<1>2. Conflicts(post.env) /\ post.env \in frozen
  BY <1>0, <1>1 DEF PlaceInv
<1> QED
  BY <1>2, NoConflict DEF Ingest

\* As long as no conflict is found a probe is not opened.
LEMMA NoProbeOpened ==
    ASSUME PipelineInv, [Next]_vars, probe = NoProbe, answer.status # "conflict"
    PROVE  probe' = NoProbe
<1>1. HandleConfig => probe' = probe
  <2> SUFFICES ASSUME HandleConfig PROVE probe' = probe
    OBVIOUS
  <2>1. TypeInv
    BY DEF PipelineInv
  <2>2. UNCHANGED probe \/ MarkConflictConfigValidated
    BY <2>1, HandleOutcome
  <2> QED
    BY <2>2 DEF MarkConflictConfigValidated
<1>2. HandleAck => probe' = NoProbe
  BY DEF HandleAck, ClearProbe
<1> QED
  BY <1>1, <1>2, WorkerSteps DEF BeginConflictProbe, MoveToDeadLetter, Reboot

\* In the server's first life everything the device has is what it was given,
\* every answer is at least what is in force, and nothing is refused.
LEMMA FirstLifeStep == ASSUME PipelineInv, [Next]_vars PROVE FirstLifeInv'
<1> SUFFICES ASSUME restores' = 0 PROVE FirstLifeInv'
  BY DEF FirstLifeInv
<1>0. /\ TypeInv /\ ConfigInv /\ PlaceInv /\ AnswerInv /\ QueueInv
      /\ TypeInv' /\ AnswerInv'
  BY TypeStep, AnswerStep DEF PipelineInv
<1>1. ~Restore /\ restores = 0
  BY <1>0, StoreSteps, Parameters DEF Restore, TypeInv
<1>2. /\ \A config \in {active, pending, stored, mainConfig, box} : Given(config)
      /\ \A i \in DOMAIN db.configs : db.configs[i] = 0
      /\ \A e \in frozen : e.rev <= DesiredRevision
      /\ answer.status = "config" => /\ Given(answer.config)
                                     /\ active.rev <= answer.config.rev
      /\ answer.status # "conflict" /\ probe = NoProbe /\ ~halted
  BY <1>1 DEF PipelineInv, FirstLifeInv, ConflictNeedsRestore
<1>3. /\ DesiredRevision \in Nat /\ DesiredRevision' \in Nat
      /\ DesiredRevision' >= DesiredRevision
  BY <1>1, GivenStays
<1>4. \A config \in {active', pending', stored', mainConfig', box'} :
          config \in Config /\ Given(config)
  <2>1. Given(NoConfig)
    BY <1>3, Parameters DEF Given
  <2>2. HandleConfig => Given(answer.config) /\ answer.config \in Config
    BY <1>0, <1>2, HandleOutcome
  <2>3. \A config \in {active, pending, stored, mainConfig, box} :
            config \in Config /\ Given(config)
    BY <1>0, <1>2, ConfigTypes
  <2>4. stored' = stored \/ (HandleConfig /\ stored' = answer.config)
    BY <1>0, StoreSteps, HandleOutcome
  <2>5. mainConfig' \in {mainConfig, box, stored}
    BY MainSteps DEF ApplyPendingConfig, Reboot
  <2>6. active' \in {active, pending, stored}
    BY WorkerSteps DEF SynchronizeAppliedConfig, Reboot
  <2>7. pending' \in {pending, NoConfig} \/ (HandleConfig /\ pending' = answer.config)
    <3>1. HandleConfig => pending' \in {pending, answer.config}
      BY <1>0, HandleOutcome
    <3> QED
      BY <3>1, WorkerSteps DEF SynchronizeAppliedConfig, Reboot
  <2>8. box' \in {box, NoConfig} \/ (HandleConfig /\ box' = answer.config)
    <3>1. HandleConfig => box' \in {box, answer.config}
      BY <1>0, HandleOutcome
    <3> QED
      BY <3>1, MainSteps DEF ApplyPendingConfig, Reboot
  <2> QED
    BY <2>1, <2>2, <2>3, <2>4, <2>5, <2>6, <2>7, <2>8, Parameters
<1>5. \A config \in {active', pending', stored', mainConfig', box'} :
          config.tag = 0 /\ config.rev <= DesiredRevision'
  BY <1>1, <1>4, GivenStays
<1>6. \A i \in DOMAIN db'.configs : db'.configs[i] = 0
  BY <1>0, <1>1, <1>2, DesiredGrows
<1>7. \A e \in frozen' : e.rev <= DesiredRevision'
  <2>1. \A e \in frozen' : e.rev <= DesiredRevision /\ e.rev \in Nat
    <3>1. \A e \in frozen' : e \in Envelope /\ e.rev \in Nat
      BY <1>0, Parameters DEF TypeInv, Envelope
    <3>2. CASE frozen' = frozen
      BY <1>2, <3>1, <3>2
    <3>3. CASE RenameEnvelope
      <4>1. Serialized(prefix).rev <= active.rev
        BY <1>0, <3>3, SerializedCopy DEF RenameEnvelope
      <4>2. active.rev <= DesiredRevision /\ active.rev \in Nat
        BY <1>0, <1>2, ConfigTypes DEF Given
      <4>3. ASSUME NEW e \in frozen' PROVE e.rev <= DesiredRevision
        <5>1. e \in frozen \/ e = Serialized(prefix)
          BY <3>3, RenameOutcome
        <5> QED
          BY <1>2, <1>3, <3>1, <4>1, <4>2, <5>1
      <4> QED
        BY <3>1, <4>3
    <3> QED
      BY <3>2, <3>3, StoreSteps
  <2> QED
    BY <1>3, <2>1
<1>8. ASSUME answer'.status = "config"
      PROVE  /\ answer'.config.tag = 0 /\ answer'.config.rev <= DesiredRevision'
             /\ active'.rev <= answer'.config.rev
  <2>1. active' = active
    BY <1>0, <1>8, ActiveHeld DEF AnswerInv
  <2>2. CASE GetConfig
    <3>1. answer'.config = DesiredConfig
      BY <2>2 DEF GetConfig
    <3>2. DesiredConfig \in Config /\ DesiredConfig.rev = DesiredRevision
          /\ DesiredConfig.tag = 0
      BY <1>0, <1>2, DesiredOutcome
    <3>3. Given(DesiredConfig) /\ active.rev <= DesiredRevision
      BY <1>2, <1>3, <3>2 DEF Given
    <3>4. DesiredConfig.tag = 0 /\ DesiredConfig.rev <= DesiredRevision'
      BY <1>1, <3>2, <3>3, GivenStays
    <3> QED
      BY <2>1, <3>1, <3>2, <3>3, <3>4 DEF Given
  <2>3. CASE answer' = answer
    <3>1. answer.config \in Config /\ Given(answer.config)
      BY <1>0, <1>2, <1>8, <2>3, AnswerKinds DEF TypeInv
    <3>2. answer.config.tag = 0 /\ answer.config.rev <= DesiredRevision'
      BY <1>1, <3>1, GivenStays
    <3> QED
      BY <1>2, <1>8, <2>1, <2>3, <3>2 DEF Given
  <2>4. \/ answer' = Silence \/ answer' = answer \/ GetConfig
        \/ answer' \in {[status |-> "ack"], [status |-> "conflict"]}
    <3>1. Ingest => answer' = answer
                    \/ answer' \in {[status |-> "ack"], [status |-> "conflict"]}
      BY <1>0, IngestOutcome
    <3> QED
      BY <3>1, ExchangeSteps DEF PostEnvelope, PollRemoteConfig
  <2> QED
    BY <1>8, <2>2, <2>3, <2>4 DEF Silence
<1>9. answer'.status # "conflict" /\ probe' = NoProbe /\ ~halted'
  <2>1. probe' = NoProbe
    BY <1>2, NoProbeOpened
  <2>2. ASSUME answer'.status = "conflict" PROVE FALSE
    <3>1. Ingest /\ answer' # answer
      BY <1>2, <2>2, ExchangeSteps DEF PostEnvelope, PollRemoteConfig, GetConfig, Silence
    <3> QED
      BY <1>2, <2>2, <3>1, IngestRefuses
  <2>3. ASSUME halted' # halted, HandleConfig PROVE FALSE
    <3>1. /\ answer.status = "config" /\ answer.config \in Config
          /\ \/ answer.config.rev < active.rev
             \/ answer.config.rev = active.rev /\ answer.config # active
      BY <1>0, <2>3, HandleOutcome
    <3>2. active \in Config /\ active.tag = 0 /\ answer.config.tag = 0
          /\ active.rev <= answer.config.rev
      BY <1>0, <1>2, <3>1, ConfigTypes DEF Given
    <3>3. active.rev \in Nat /\ answer.config.rev \in Nat
      BY <1>0, <3>1, <3>2, ConfigTypes
    <3>4. answer.config.rev = active.rev => answer.config = active
      BY <3>1, <3>2 DEF Config
    <3> QED
      BY <3>1, <3>2, <3>3, <3>4
  <2>4. ~halted'
    BY <1>2, <2>3, WorkerSteps DEF RetryUpload, Reboot
  <2> QED
    BY <2>1, <2>2, <2>4
<1> QED
  BY <1>5, <1>6, <1>7, <1>8, <1>9 DEF FirstLifeInv, ConflictNeedsRestore, Given

\* Steps that change the probe end the exchange.
LEMMA ProbeSteps ==
    ASSUME TypeInv, [Next]_vars, probe' # probe
    PROVE  answer' = Silence
BY WorkerSteps DEF HandleConfig, HandleAck, BeginConflictProbe, MoveToDeadLetter, Reboot

\* A server restored once, and not again, gives out what was refused before a
\* probe of it is confirmed: no envelope becomes a dead letter.
LEMMA SecondLifeStep == ASSUME PipelineInv, [Next]_vars PROVE SecondLifeInv'
<1> SUFFICES ASSUME restores' <= 1 PROVE SecondLifeInv'
  BY DEF SecondLifeInv
<1>0. /\ TypeInv /\ ConfigInv /\ PlaceInv /\ AnswerInv /\ FrozenInv
      /\ TypeInv' /\ AnswerInv' /\ PlaceInv'
  BY TypeStep, AnswerStep, PlaceStep DEF PipelineInv
<1>1. /\ restores \in Nat /\ restores <= 1 /\ (Restore => restores = 0)
  <2>1. restores \in Nat
    BY <1>0, Parameters DEF TypeInv
  <2>2. restores' = restores \/ (Restore /\ restores' = restores + 1)
    BY StoreSteps DEF Restore
  <2>3. Restore => restores' = restores + 1
    BY DEF Restore
  <2> QED
    BY <2>1, <2>2, <2>3
<1>2. dead = {} /\ (probe # NoProbe => Vouched)
      /\ (answer.status = "conflict" => ~Confirmed(post.env))
      /\ (probe # NoProbe /\ answer.status = "config"
             => answer.config.rev <= DesiredRevision)
  BY <1>1 DEF PipelineInv, SecondLifeInv
<1>3. dead' = {}
  BY <1>2, StoreSteps DEF MoveToDeadLetter
<1>4. CASE restores = 0
  <2>1. answer.status # "conflict" /\ probe = NoProbe
    BY <1>4 DEF PipelineInv, FirstLifeInv, ConflictNeedsRestore
  <2>2. probe' = NoProbe
    BY <2>1, NoProbeOpened
  <2>3. ~probe'.validated
    BY <2>2 DEF NoProbe
  <2> QED
    BY <1>3, <2>2, <2>3 DEF SecondLifeInv, Confirmed
<1>5. CASE restores # 0
  <2>1. ~Restore
    BY <1>1, <1>5
  <2>2. /\ DesiredRevision \in Nat /\ DesiredRevision' \in Nat
        /\ DesiredRevision' >= DesiredRevision
    BY <2>1, GivenStays
  <2>3. /\ active'.rev >= active.rev /\ active.rev \in Nat /\ active'.rev \in Nat
        /\ frozen \subseteq frozen'
        /\ \A e \in frozen' : e.rev \in Nat
    <3>1. active \in Config /\ active' \in Config
      BY <1>0 DEF TypeInv, TypeOK
    <3>2. \A e \in frozen' : e.rev \in Nat
      BY <1>0, Parameters DEF TypeInv, Envelope
    <3> QED
      BY <3>1, <3>2, RevisionsGrow, ConfigTypes, <1>0, FrozenGrows
  <2>4. ASSUME probe' # NoProbe PROVE Vouched'
    <3>1. CASE probe' = probe
      <4>1. PICK e \in frozen :
                /\ probe.batch = BatchId(e) /\ e.rev <= active.rev
                /\ probe.validated => e.rev <= DesiredRevision
        BY <1>2, <2>4, <3>1 DEF Vouched
      <4>2. /\ e.rev <= active'.rev
            /\ probe'.validated => e.rev <= DesiredRevision'
        BY <2>2, <2>3, <3>1, <4>1
      <4> QED
        BY <2>3, <3>1, <4>1, <4>2 DEF Vouched
    <3>2. CASE HandleConfig /\ probe' # probe
      <4>1. /\ probe # NoProbe /\ probe' = [probe EXCEPT !.validated = TRUE]
            /\ answer.status = "config" /\ answer.config \in Config
            /\ answer.config.rev >= active.rev
        <5>1. /\ answer.status = "config" /\ answer.config \in Config
              /\ MarkConflictConfigValidated
              /\ \/ answer.config.rev >= active.rev
                 \/ answer.config.rev > active.rev
          BY <1>0, <3>2, HandleOutcome
        <5>2. answer.config.rev >= active.rev
          BY <1>0, <2>3, <5>1, ConfigTypes
        <5> QED
          BY <3>2, <5>1, <5>2 DEF MarkConflictConfigValidated
      <4>2. PICK e \in frozen : probe.batch = BatchId(e) /\ e.rev <= active.rev
        BY <1>2, <4>1 DEF Vouched
      <4>3. probe'.batch = BatchId(e)
        <5>1. PICK f \in frozen, v \in BOOLEAN :
                  probe = [batch |-> BatchId(f), validated |-> v]
          BY <1>0, <4>1 DEF PlaceInv
        <5>2. probe' = [batch |-> BatchId(f), validated |-> TRUE]
          BY <4>1, <5>1
        <5> QED
          BY <4>2, <5>1, <5>2
      <4>4. e.rev <= DesiredRevision' /\ e.rev <= active'.rev
        <5>1. answer.config.rev <= DesiredRevision /\ answer.config.rev \in Nat
          BY <1>0, <1>2, <4>1, ConfigTypes
        <5> QED
          BY <2>2, <2>3, <4>1, <4>2, <5>1
      <4> QED
        BY <2>3, <4>2, <4>3, <4>4 DEF Vouched
    <3>3. CASE BeginConflictProbe
      <4>1. /\ probe' = OpenProbe(post.env) /\ work = "posting" /\ active' = active
        BY <3>3 DEF BeginConflictProbe, configVars
      <4>2. post.env \in frozen /\ post.env.rev <= active'.rev
        BY <1>0, <4>1 DEF PlaceInv
      <4>3. probe'.batch = BatchId(post.env) /\ ~probe'.validated
        BY <4>1 DEF OpenProbe
      <4> QED
        BY <2>3, <4>2, <4>3 DEF Vouched
    <3>4. CASE HandleAck \/ MoveToDeadLetter \/ Reboot
      <4>1. probe' \in {probe, NoProbe}
        BY <3>4 DEF HandleAck, MoveToDeadLetter, ClearProbe, Reboot
      <4> QED
        BY <2>4, <3>1, <4>1
    <3> QED
      BY <3>1, <3>2, <3>3, <3>4, WorkerSteps
  <2>5. ASSUME probe' # NoProbe, answer'.status = "config"
        PROVE  answer'.config.rev <= DesiredRevision'
    <3>1. probe' = probe
      BY <1>0, <2>5, ProbeSteps DEF Silence
    <3>2. CASE GetConfig
      <4>1. answer'.config = DesiredConfig
        BY <3>2 DEF GetConfig
      <4>2. DesiredConfig.rev = DesiredRevision
        BY <1>0, DesiredOutcome
      <4> QED
        BY <2>2, <4>1, <4>2
    <3>3. CASE answer' = answer
      <4>1. answer.config.rev <= DesiredRevision /\ answer.config.rev \in Nat
        BY <1>0, <1>2, <2>5, <3>1, <3>3, AnswerKinds, ConfigTypes DEF TypeInv
      <4> QED
        BY <2>2, <3>3, <4>1
    <3>4. \/ answer' = Silence \/ answer' = answer \/ GetConfig
          \/ answer' \in {[status |-> "ack"], [status |-> "conflict"]}
      <4>1. Ingest => answer' = answer
                      \/ answer' \in {[status |-> "ack"], [status |-> "conflict"]}
        BY <1>0, IngestOutcome
      <4> QED
        BY <4>1, ExchangeSteps DEF PostEnvelope, PollRemoteConfig
    <3> QED
      BY <2>5, <3>2, <3>3, <3>4 DEF Silence
  <2>6. ASSUME answer'.status = "conflict", Confirmed(post.env)' PROVE FALSE
    <3>1. probe' = probe /\ probe'.validated /\ probe'.batch = BatchId(post'.env)
      BY <1>0, <2>6, ProbeSteps DEF Silence, Confirmed
    <3>2. probe # NoProbe
      BY <3>1 DEF NoProbe
    <3>3. PICK e \in frozen : probe.batch = BatchId(e) /\ e.rev <= DesiredRevision
      BY <1>2, <3>1, <3>2 DEF Vouched
    <3>4. CASE answer' = answer
      <4>1. post' = post
        BY <1>0, <2>6, <3>4, ExchangeSteps
        DEF PostEnvelope, PollRemoteConfig, Ingest, GetConfig, AnswerInv, Silence
      <4>2. Confirmed(post.env)
        BY <3>1, <4>1 DEF Confirmed
      <4> QED
        BY <1>2, <2>6, <3>4, <4>2
    <3>5. CASE answer' # answer
      <4>1. Ingest
        BY <2>6, <3>5, ExchangeSteps DEF PostEnvelope, PollRemoteConfig, GetConfig, Silence
      <4>2. /\ post.env \in frozen /\ post' = post
            /\ ~(post.env.rev <= DesiredRevision)
        BY <2>6, <3>5, <4>1, IngestRefuses
      <4>3. BatchId(e) = BatchId(post.env)
        BY <3>1, <3>3, <4>2
      <4>4. e = post.env
        BY <1>0, <4>2, <4>3, NamesApart DEF TypeInv
      <4> QED
        BY <3>3, <4>2, <4>4
    <3> QED
      BY <3>4, <3>5
  <2> QED
    BY <1>3, <2>4, <2>5, <2>6 DEF SecondLifeInv
<1> QED
  BY <1>4, <1>5

-----------------------------------------------------------------------------
(* The theorems.                                                           *)

\* The invariant holds of every behaviour.
THEOREM PipelineInvariance == Spec => []PipelineInv
<1>1. PipelineInv /\ [Next]_vars => PipelineInv'
  <2> SUFFICES ASSUME PipelineInv, [Next]_vars PROVE PipelineInv'
    OBVIOUS
  <2> QED
    BY TypeStep, PlaceStep, FrozenStep, QueueStep, ConfigStep, AnswerStep,
       LostStep, FirstLifeStep, SecondLifeStep DEF PipelineInv
<1> QED
  BY <1>1, PipelineInit, PTL DEF Spec

\* The types; the queue, the spool and the dead letters stay within limits
\* however many failures there are.
THEOREM PipelineTypeCorrect == Spec => []TypeOK
<1>1. PipelineInv => TypeOK
  BY DEF PipelineInv, TypeInv
<1> QED
  BY <1>1, PipelineInvariance, PTL

\* An envelope that once had its final name is in the spool, was committed by
\* the server, or is or was a dead letter: no crash, lost answer, late request,
\* failed removal or restored server makes it vanish.
THEOREM NoEnvelopeLost == Spec => []EnvelopeNeverLost
<1>1. PipelineInv => EnvelopeNeverLost
  BY DEF PipelineInv
<1> QED
  BY <1>1, PipelineInvariance, PTL

\* Wherever envelopes are, a sequence number of a boot is in one of them only,
\* and back in no queue once its freeze is over.
THEOREM FrozenOnce == Spec => []RecordFrozenOnce
<1>1. PipelineInv => RecordFrozenOnce
  <2> SUFFICES ASSUME PipelineInv PROVE RecordFrozenOnce
    OBVIOUS
  <2>1. spool \cup dead \cup db.batches \cup {r.env : r \in wire} \subseteq frozen
    BY DEF PipelineInv, PlaceInv
  <2> QED
    BY <2>1 DEF PipelineInv, FrozenInv, QueueInv, RecordFrozenOnce
<1> QED
  BY <1>1, PipelineInvariance, PTL

\* A server that was not restored refuses nothing, and the device never halts.
THEOREM NoConflictUnrestored == Spec => []ConflictNeedsRestore
<1>1. PipelineInv => ConflictNeedsRestore
  BY DEF PipelineInv, FirstLifeInv, ConflictNeedsRestore
<1> QED
  BY <1>1, PipelineInvariance, PTL

\* The spool's revisions are not ahead of the worker's, the worker's not of the
\* main loop's, that one not of flash.
THEOREM RevisionsOrdered == Spec => []RevisionOrder
<1>1. PipelineInv => RevisionOrder
  BY DEF PipelineInv, ConfigInv
<1> QED
  BY <1>1, PipelineInvariance, PTL

\* The revision in force never goes back, not even across a power loss.
THEOREM RevisionsOnlyGrow == Spec => RevisionNeverRegresses
<1>1. PipelineInv /\ [Next]_vars => [mainConfig'.rev >= mainConfig.rev]_mainConfig
  BY RevisionsGrow
<1> QED
  BY <1>1, PipelineInvariance, PTL DEF Spec, RevisionNeverRegresses

\* No envelope is lost whatever a restored server forgets, and the first
\* restoration turns none into a dead letter.
THEOREM RestorationKeepsData == Spec => []RestoreKeepsData
<1>1. PipelineInv => RestoreKeepsData
  BY DEF PipelineInv, SecondLifeInv, OneRestoreHoldsData, RestoreKeepsData
<1> QED
  BY <1>1, PipelineInvariance, PTL

============================================================================
