# Verification of the presence platform

TLA+ models of the device firmware (`src/src/`) and of the backend it talks to
(`src/backend/src/presence_api/`), model-checked with TLC on small instances
and, where the result matters for every size, proved with TLAPS. File names
below are relative to the repository root as it is mounted at `src/`.

    tlc -workers 2 -config MC_Telemetry.cfg MC_Telemetry
    tlapm TelemetryQueue_proofs.tla

`PROJECT.json` lists every run, the mutants that show each property can fail,
the source lines behind every definition, and the hazards the properties are
for.

## 1. The system

One device (ESP32, two cores) and one server (FastAPI over SQLite).

| Part | State it keeps | Operations | Shared with |
| --- | --- | --- | --- |
| Main loop, Core 1 (`main.cpp`) | presence state and its timers, overlays of the screen, `activeConfig`, `nextTelemetrySeq`, the request in hand, the measurements during a transfer | sense, touch, update the state, draw, sample, apply configuration, confirm locally, validate a trial boot | queues, mailboxes |
| Uploader worker, Core 0 (`telemetry_uploader.cpp`) | its own `activeConfig_`, clock anchor, conflict probe, halt flag, command step, install state, guard, development window | freeze, upload, poll configuration and control, acknowledge, install, open the window, core dump, logs | queues, mailboxes, flash, network |
| Telemetry queue (`telemetry.cpp`), feedback queue (`touch_feedback_queue.cpp`) | rings, drop counters | push, copyPrefix, commitPrefix, setCriticalOnly | both cores, under a spinlock |
| Mailboxes (`device_config_mailbox.cpp`, `control_mailbox.cpp`, `ota_runtime_mailbox.cpp`) | latest snapshot, one request or result, notices, metrics, abort | publish, take, acknowledge | both cores |
| Spool, feedback files and dead letters (LittleFS) | immutable envelopes and bundles | rename into place, remove, move aside | survives resets |
| Configuration, journal, settings, install state and crash context (NVS) | slots and markers | save, load | survives resets |
| Boot loader and partitions (`ota_update.cpp` on ESP-IDF) | otadata, two images | set boot partition, mark valid, roll back | survives resets |
| Ingest, feedback and configuration (`service.py`) | batches, samples, labels, revisions | ingest, create_feedback, get_config, put_config | network |
| Commands, releases, dumps (`operations.py`, `coredump.py`) | a row per command, the release target and its reports, dumps | create_command, poll_control, acknowledge_command, report_release_status, core dump ingest | network |
| Health, dashboard, operational log, transport recovery, host tools | see section 5 | | |

How they interact. The main loop pushes records into the ring; the worker
copies a prefix, writes it to flash as an envelope named by its content, and
only then commits the prefix. Envelopes are posted in order of their names; the
server stores a batch in one transaction and answers 200 for a repetition and
409 for a contradiction. Every record carries the configuration revision that
was in force; a new revision is polled by the worker, saved, handed to the main
loop through the mailbox, applied there, acknowledged back, and only then used
by the worker. A correction by touch goes a similar way as a bundle, in two
exchanges. A command is leased by the server, journalled by the worker,
acknowledged as accepted and as running, carried out by the worker or by the
main loop through the control mailbox, journalled again and reported. A release
is selected on the server, seen in a poll, journalled, streamed into the other
partition while main keeps sensing, gated, selected and started on trial; main
decides whether it is healthy, the worker confirms it and reports.

What is hard: the two cores interleave at every lock; power may go between any
two flash writes; requests and answers are lost, late or repeated; leases and
commands expire meanwhile; flash writes fail; the server itself may be put back
to a backup and then contradicts what the device holds; an installation is
recorded in three places that change at different moments.

What makes each part correct:

- queue: bounded, ordered, the reserve holds transitions only, what was copied
  is what is committed, every sequence number is accounted for;
- spool and upload: an envelope is never lost, a record is in one envelope
  only, a valid envelope is never refused by a server that was not restored,
  the backlog drains;
- corrections: no label without its evidence, none lost once taken without
  being counted;
- configuration: revisions never go back, and spool <= worker <= main loop <=
  flash at every moment, so that one comparison with the server judges every
  envelope; device and server converge;
- commands: at most once, only after the server released them, durable before
  the effect, a reported success is a success, every command leaves the queue;
- installation: the device always starts, the boot policy never halts, only an
  image that passed its gates is confirmed, the counter never falls, a selection
  comes to an end; no image is accepted after the main loop was harmed and no
  way out of a transfer leaves the guard or the window on;
- core dumps: kept until the server has them, reported under the boot that
  crashed;
- presence: the screen is lit no longer than motion, touch or an overlay
  justifies;
- the contract: what the server answers the device accepts, and conversely;
- stores: a save that is cut off happened entirely or not at all.

## 2. The modules

| Module | Models | Role |
| --- | --- | --- |
| `TelemetryQueueParameters`, `ControlParameters` | constants and the assumptions on them | shared with the instances |
| `TelemetryFifo` | what `TelemetryQueue` promises: a bounded FIFO whose consumer copies, then commits | abstract specification |
| `TelemetryQueue` | the ring: array, head, size (`telemetry.cpp`) with its callers | implements `TelemetryFifo` |
| `TelemetryPipeline` | queue to database: freeze, spool, upload, ingest, configuration, backup and restoration | composition of device and server |
| `FeedbackPipeline` | touch corrections: queue, bundle, two uploads, dead letters | composition of device and server |
| `ControlCommand` | remote commands: console, lease, journal, acknowledgements, mailbox, effects | composition of device and server |
| `OtaJournal` | install state, boot policy, verification of a release, as operators | used by `OtaInstall` |
| `Installation` | what installing promises: one trusted image, replaced only by choosing, trying, validating, promoting and recording another | abstract specification |
| `OtaInstall` | installation: worker, boot validator, boot loader, release service | composition of device and server, implements `Installation` |
| `OtaGuard` | both cores around the transfer of an image, and the development window | composition of the two cores |
| `CoreDump` | crash context, pin, dump, upload, server | composition of device and server |
| `Answers` | twelve kinds of answers, the server's writer and the device's parser of each | contract |
| `Presence` | the presence state machine and the brightness of the screen | on its own |
| `AtomicStore` | what a store promises | abstract specification |
| `TwoSlotStore` | `device_config_storage.cpp`, and the same algorithm in `command_journal.cpp` | implements `AtomicStore` |
| `SettingsStore` | `device_settings.cpp`: several fields, a flag per slot, a marker | on its own, its promise is weaker |
| `ControlProperties`, `PipelineProperties` | variables and safety properties of `ControlCommand` and `TelemetryPipeline` | extended by the component, its proofs and the run that checks it as a part, so that theorem and run speak of one definition |
| `*_proofs` | theorems about the module they extend; `Services_proofs` those of `SettingsStore`, `FeedbackPipeline`, `CoreDump` and `Answers`, `Guard_proofs` those of `TwoSlotStore` and `OtaGuard` | TLAPS |
| `MC_*` | the values for TLC, and the sums described in section 3 | TLC |

### TelemetryFifo and TelemetryQueue

`slots`, `head`, `size`, `criticalOnly` and the two counters are the members of
the class; `nextSeq` and `mainRevision` belong to the main loop, `copied` is the
local array in `freezeQueueIfNeeded`. Each operation of the class is one
critical section and so one step; `DropSample`, `DropCritical` and `Store` are
the three ways out of `push`. Between `CopyPrefix` and `CommitPrefix` the worker
writes flash without the lock, and anything the main loop does may come there;
`Abandon` stands for all the early returns of the freeze. `CommitPrefix(k)`
takes a `k` that is the leading run of one revision in some prefix of the copy,
as `contiguousRevisionPrefix` computes it for whatever batch size is configured.
`committed`, `drained` and `diverted` are history variables.

`TelemetryFifo` is the same with a sequence in place of the array. The
properties are stated there and, through `Contents`, hold of the ring.

### TelemetryPipeline

Main loop, worker, flash, network and server in one specification. `work` says
where the worker is: idle, freezing (file being written), renamed (in the spool,
not yet committed), polling or posting. An envelope is a record of boot, set of
sequence numbers, revision and clock anchor; its name, `BatchId`, is the one
`buildSpoolFileMetadata` builds. `wire` holds the requests under way: one that
was given up may still be ingested later. `Conflicts` lists the four reasons
for a 409 in `PresenceService.ingest`. `probe` is the pair of
`conflictProbeBatchId_` and its validated flag: the first 409 asks for a
configuration poll, and only a second one, after a poll that validated the
history, moves the envelope aside. A restoration sets `db` back to `backup`;
revisions published after it carry another tag, so that an equal number with
other contents can be told. `Reboot` forgets RAM, keeps flash and draws a new
boot identity. `frozen`, `delivered` and `evicted` are history variables.
Timers are left out: whatever a deadline or a back-off only delays may happen at
any moment, which covers every schedule of them.

### ControlCommand

`row` and `acks` are the tables of the server; times appear as two marks of a
row: `live` while the lease runs, `due` once the command has expired. `record`
is the journal in RAM, `journal` the one in flash, `step` the `CommandStep` of
the worker (its finished step is folded into idle, its executing one is passed
within one call). `Journaled` and `NotJournaled` are the two outcomes of
`persistCommandJournal`; after a failure RAM is ahead of flash and polling
stops. `slot` and `mainActive` are the mailbox and the request of the main
loop. `Recovered` is `commandJournalRecoveryAction`. Actions are told apart as
far as the code does: carried out by the worker (`local`), by a restart after
the final report, or by the main loop, at once or after a local confirmation.
`effects` counts how often a command took effect.

### TwoSlotStore, AtomicStore, SettingsStore

Each write to NVS is one step and may be the last one: `Interrupt` ends a save
anywhere, for a power loss or for an error return, with the write under way
done, not done or, for a blob, torn. The checksum is what makes a torn blob
unreadable. `Stamp` is the revision, or `acceptedAtMs` of a journal record, which
decides only while there is no marker. `SettingsStore` writes one field after
the other and goes by the marker alone, which is why it keeps less: see below.

### FeedbackPipeline

`queue`, `wait`, `ready` and `dead` are the feedback queue and the directories;
a bundle is its identity, boot and sequence number, and `bad` marks the files
whose frame is damaged. `FreezeNew` and `FreezeExisting` are the two ways of
`freezeFeedbackQueueIfNeeded`, `EvidenceStored` and `LabelStored` what follows the two
answers of 200, `MoveToDead` what follows a refusal. A request under way may
be answered after the worker gave it up. The server keeps `samples` and
`labels`; a restoration takes some of both back, and evidence may then be refused
until the data is repaired. `waitCount` and `readyCount` are the worker's own
counts, taken at a restart and kept by hand since.

### OtaJournal and OtaInstall

`OtaJournal` has the pure part: `Staged`, `WithAccepted`, `ReleaseConfirmed`,
`Cancelled` and the like are the functions of `ota_install_state.cpp`,
`Recovery` is `decideOtaBootRecovery` and `ReleaseAccepted` the chain of checks of a
manifest. In `OtaInstall`, `image`, `otadata` and `boot` are the partitions and
what ESP-IDF keeps of them, `journal` the install state in NVS and `install`
the worker's copy. `Boot` is a reset with everything the boot loader does;
`Start*` are the ways out of `initializeOtaRuntime`. `main` is the phase of the
boot validator, and `notice` the mailbox through which it asks the worker to make
the acceptance durable before the boot loader is told. `Save` gives the outcomes
of one write: done, failed without effect, failed with effect. `Report` is a
release status; its identity is its contents, as `otaReleaseStatusIdentityHash`
has it, and `Receive` is `report_release_status` with the completion of the
target. What a release is (id, version, build, digest) is one value; `Torn`
is a partition erased or written in part. Health conditions of a trial boot are
one choice, `HealthyWindow` or `HardFailure`. Each counter of faults, power
losses, selections and uploads in `used` is a bound.

`Installation` knows no partitions, journal, worker or messages. Its five variables are
functions of those of `OtaInstall`: the trusted image is that of the running partition or,
while that one is on trial, of the other; the candidate is the image on trial or
chosen for the next start; the phase is read off the boot states and the journal in
flash (on trial, validated in the journal, promoted by the boot loader and not yet
recorded); the confirmed release is the journal's and the floor the server's. So
`SelectImage` and `EndUpload` are `Choose`, a start is `Try` or `Abandon`, `TakePrepare` is
`Validate`, `ConfirmAfterPersistence` is `Promote`, whoever writes the confirmed release
(`TakeConfirmed`, `StartPromotion`) does `Record`, and a report the server takes is `Learn`.
Everything else, each failing write and each power loss among them, is a stutter.

### OtaGuard

The two cores around a transfer. Main turns in `WatchLoop`, `Sense`,
`PublishMetrics` and may gesture; the worker drains the queues, arms the guard
(`Arm`), streams, passes the gates (`Passes`: no abort, queues safe, measurements
acceptable) and leaves by one of many ways, each of which has to disarm it. The window
of development uploads opens through the mailbox or a command's result, is served
by the framework's callbacks, and closes, fails, succeeds or is lost with the
network. What is only compared with a baseline is the fact that it changed since;
the measurements are the four classes the limits tell apart. `harmed` is history:
main dropped or measured something bad since the stream began. Left out here: the
phase shown while a command waits for its confirmation, and the boot notices.

### CoreDump

Each boot first rotates its identity into one of two slots (`Rotate`), then, after a
crash, clears and saves the pin (`ClearStalePin`, `SavePin`, `UndoPin`), and the
worker posts the dump under the pin until the answer says durable, then erases the
dump and the pin. `Reset` ends a boot at any step; `excused` records the three
resets and failures after which a wrong attribution has a known reason, so that
`AttributedUnlessExcused` says there is no other.

### Answers

For each kind of answer, `Contract` is what the device's parser takes, member by
member, and `Served` what the server's handler writes. `Drift` edits one served
answer in one place: a member gone, repeated, renamed or changed, or another end.
`ContractKept` says both directions: what is served is taken, and what is taken
after a drift still agrees in every member something depends on. Text and numbers
are classes, not characters. The parsers' loop over the members is `ReadMembers`: it
reads to the end exactly if each member is one it takes and none before it has the
same name.

### Presence

One turn of `loop()` is five steps, so that each sees what the one before left:
`BeginTurn` (time passes, a configuration comes into force, a confirmation opens
diagnostics or expires), `Sense`, `ReadUserInput`, `UpdatePresence` (one action
per case of the switch, or skipped in the turn of a touch), `DrawDisplay`, and
`PollProvisioning`. Of the three timestamps their ages are kept, each up to the
greatest that matters. `OnLimit` and `LitLimit` are computed from the longest times
`validatePresenceConfig` allows.

## 3. The runs

Components that share no state are checked side by side in one run: a behaviour
picks its part at the start and the others stay put, so the states add up and
do not multiply, and every property is checked of its part in full. These are the
runs whose module is a sum: `telemetry`, `control`, `guard`, `services`,
`endings`.

| Run | Parts and bounds | Shows |
| --- | --- | --- |
| `telemetry` | ring: 4 slots, 2 reserved, batches of 3, 6 numbers, 2 revisions. Path: 2 boots, 2 revisions, 1 sample per boot beside the boundary records, 2 copies of a request, 2 anchors (the last two symmetric: they are only compared). Restored: 1 boot, 1 sample, 2 revisions, 2 restorations | reserve, order, copied prefix, account, the ring is the FIFO; no loss, no doubling, no conflict, order of revisions; one restoration costs no dead letter, two lose nothing |
| `control` | commands: a reboot command and one for the main loop, 2 leases each, 1 power loss, failing writes. Presence: a bridging and a plain configuration that replace each other, clock steps of up to 2 | released, durable, single-flight and single effects, honest success; the screen is justified |
| `ota` | 2 releases, 1 development image, 1 power loss, 1 failing write, a manifest with a wrong signature, each release selected once | always bootable, never halted, only tested images confirmed, journal, boot loader and server agree; together they are one `Installation` |
| `guard` | store: 3 values, two with one stamp. Transfer: queue of 2, 1 reserved, room for 1 correction. | the store is atomic; nothing accepted after harm, nothing left on |
| `services` | settings: 2 values of 3 fields. Corrections: 2 boots, 2 taken, 2 faults, 1 restoration. Dumps: 4 boots, 3 glitches. Answers: every kind, one drift | never mixed and atomic once marked; no dangling label, none lost; dumps kept and attributed; the contract |
| `endings` | spool: 1 boot, 1 restoration, 1 revision. Commands: two for the main loop, and two for the worker, 1 lease. Release: 1, with 2 power losses and 2 failing writes | the backlog drains, the configuration converges, every command leaves the queue, every selection ends |
| `control_mailbox`, `control_replay`, `ota_reselect`, `settings_provisioned`, `dev_upload_measured`, `coredump_pin` | | counterexamples, section 6 |

Why the bounds are enough. Four slots with two reserved fill the part for samples
and the part for transitions separately, six numbers take the head past the
end of the array, and a batch of three can have a revision boundary at either
place. In the pipeline, a queue of two already overflows and straddles a
boundary, a spool of two fills up, one dead letter is enough to evict one, two
boots are one power loss at any point, and two copies of a request are a retry
beside its late original. Two restorations are needed for a dead letter at all.
Two commands are the least for one to meet the other's remains (mailbox, journal,
restart mark), two leases for a repeated delivery. Two releases and a development
image are an upgrade, a failed one and a detour between them; a power loss may
fall into the recovery from a failing write. Four boots are a crash, a second crash
before the first is reported, and a boot after either. In Presence the bounds are
attained: lowering `OnLimit` or `LitLimit` by one is refuted by the same
instance. Section 4 says which of these results are proved for all sizes besides.

Deadlock is checked in `telemetry` and `settings_provisioned`. The
other configurations turn it off because their bounds stop the system: all commands
finished, all releases selected, all resets used, or the device restarted.

Some error paths of the code are in the modules and no run reaches them: a notice to
the worker about an image that is no longer on trial, a journal that refuses a
validation, a promotion or an accepted slot (`TakePrepare`, `TakeConfirmed`,
`AcceptImage`), and a bundle that is already in the directory it moves to
(`EvidenceStored`). They are checks that hold whenever the code makes them.

### Fairness

Safety runs assume none. `SumFairSpec` of `MC_Endings`: weak fairness for what the
two loops pass on every turn (apply, synchronise, commit, take a notice, a timeout
of a call), strong fairness for steps that compete for the worker or need flash
or the network: both may fail any number of times but not for ever. This is what
`run` (`telemetry_uploader.cpp:315`) justifies: it passes every activity in
turn, each with a bounded wait. No fairness is assumed for the operator:
publishing a revision, a restoration, selecting a release, creating or confirming
a command may never come; nor for an image to work, a download to succeed or
power to fail. `SpoolDrains` and `ConfigConverges` therefore allow a halted
device, and `SelectionEnds` one that can no longer write its install state or
boot state (`Blocked`). Leases and commands do run out and the confirmation times out. The strong
conditions of the three parts are written as one each, which is equivalent
because the part never changes. `FairSpec` of `ControlCommand` is the same for
the two counterexamples about commands.

## 4. The proofs

`QueueAssumption`, `TwoSlotAssumption`, `SettingsAssumption`, `PresenceAssumption`,
`PipelineAssumption`, `ControlAssumption`, `OtaAssumption`, `FeedbackAssumption`,
`DumpAssumption`, `GuardAssumption` and `AnswersAssumption` are all that is assumed: the
capacities, the batch size and the limits of spool, bundles and dead letters are
positive (in `OtaGuard` and `CoreDump` they are only numbers), the reserve fits, no
value is the empty or the torn one, stamps, boot identities, bounds and the records of a
request are numbers, there is at least one field, times are positive and a configuration
in force is a valid one, no clock anchor is the missing one, a command has one of the
four actions, releases have positive counters of their own, no release and neither of
the other images is taken for an erased slot, and there are exactly two partitions
(`IsFiniteSet` is said besides, because `Cardinality` says nothing of an infinite set).
The bounds of the runs (`MaxLeases`, `MaxRestores`, `MaxPowerLosses` and the like) stay
in the guards, but every theorem holds for all values of them, so none of them matters.
Each inductive invariant was an invariant of a run on the small instance before it was
proved.

- `TelemetryFifo_proofs`. `IndInv` is inductive: the types, the four
  properties, and `drained <= nextSeq`. They need one another: that the copy
  stays the prefix needs push to append only, and order after a commit needs
  that the committed records were the head. `Invariance` is the theorem the
  others follow from.
- `TelemetryQueue_proofs`. `RingInv` bounds head and size; `ReadFromHead` says
  that `Contents` is a sequence read off the array. Four lemmas about `%`
  (`RingWrap`, `RingIndex`, `RingShift` and the two they rest on) carry
  `StoreAppends` and `CommitDrops`, and those `RingImplementsFifo`: initial
  states map to initial states and every step to a step or a stutter. The
  module then takes the FIFO's theorems over to the ring (`RingReserveHolds`,
  `RingOrderKept`, `RingCommitCannotFail`, `RingAllAccounted`,
  `RingTypeCorrect`), so they are results about the code's array.
- `Guard_proofs`, store. `StoreInv` is inductive as it stands: a marker points at
  a readable slot, and a save writes the other one. `WriteShowsOldOrNew`,
  `MarkShowsNew` and `DoneShowsNew` say what a load returns after each write;
  `StoreIsAtomic` puts them together.
- `Guard_proofs`, transfer. `NothingLeftOn` speaks of the worker between two tasks, and
  says nothing of the steps within them. `EndingInv` says what each of these still has
  that its ending relies on: a production transfer has no window shown, an opening and
  an invitation begin unguarded, a late report finds the window failed, and a restart,
  once due, is the only thing that goes on, because the image it restarts into is still
  pending and every task but it refuses one. `HarmInv` says the same of main's losses:
  while an image streams, each is still to be seen as an abort, as a drop since the
  baseline, or as a gap in the metrics; the last because main takes new counters only
  when the phase it sees enters a transfer, and within a transfer the phase does not
  leave and enter again (`GapKept`, `MainMarks`). No gate passes any of the three, hence
  `GatesRefuseHarm`; `EndingsLeaveNothing` and `GuardTypeCorrect` are the other two.
  Both cores interleave freely in it.
- `Services_proofs`, settings. `SettingsInv` adds that a valid slot is whole and that
  the slot being written is not valid; `SettingsNeverMixed` and
  `SettingsOnceMarked` follow, the second from the step lemma `MarkedStep`.
- `Services_proofs`, touch corrections. `FeedbackInv` has five parts. `FileInv`: a bundle stays
  in its directory while its request is under way or the commit of its queue entry is due,
  and the two are never due at once; without it a move or a removal could name a file that
  is no longer there. `LimitInv`: files the worker has not counted are at most as many as
  renames that were reported as failed, and with them the files stay within the limit plus
  the faults; every step is one of the six `CountStep`s, and `CountsKept` says that those keep
  the bound. `ServerInv` follows an unrestored server's answers back: a label
  under way has its sample, an answer of 200 its row, and no 404 is written.
  The last part is that every correction taken is in one of its `Places`. `FirstFileHeld`
  and `OldestDeadHeld` show that the names `findNextFeedbackSpool` and the dead
  letters are ordered by do have a first one. Hence `LabelsNeverDangle`,
  `CorrectionsAreKept` and `FeedbackTypeCorrect`.
- `Services_proofs`, core dumps. `DumpInv` has four parts, the types among them. `SlotInv`: the
  generations of the contexts that can be read are in the order of their boots, and none is
  of this boot before it has rotated; so the newest context a boot after a crash finds is
  that of the boot that crashed (`PreviousCrashed`), and the one it writes is newer than all
  (`CurrentNewer`). `UploadInv`: a dump is pending only while the worker runs, and an answer of
  durable means that the server has this dump under this boot. `BlameInv` names, while
  nothing is excused, every place from which a boot could be taken for the dump: the
  reports, the attribution, the pin (but for the steps after a crash that have not yet
  removed it), the previous identity, and before the rotation the slots. Both lemmas on
  the types and on the blame go action by action. Hence `DumpsAttributed`, `DumpsKept` and
  `DumpTypeCorrect`.
- `Services_proofs`, answers. Served answers are sequences and their parser is stated by
  quantifiers over positions, so no induction is needed. `Shaped` is what the twelve
  lemmas from `IngestShaped` to `PayloadShaped` say of each kind: every member once,
  with a value its parser takes, and, unless it only informs or is free, with the one
  value that is taken. `ServedAccepted` is then the first direction. For the second,
  `RemovalRefused` and `InsertedTwice` show that an answer with a member gone or
  repeated is refused, `UnheardOf` one with a member renamed, and a changed value must
  be of a free member: the counts of an answer, which `CountsForced` shows to add up to
  the request only as written, or a time, a flag or a member whose every value is served
  as well (`FreeServed`, `PayloadFreeServed`). `DriftTaken` puts them together;
  `AnswersInv` says that what is parsed is the server's or one drift away, and gives
  `AnswersKeepContract`, for any number of records.
- `Presence_proofs`. `ScreenJustified` speaks of one moment of the loop and is not
  inductive. `PresenceInv` adds two kinds of facts. `OverlayInv`: a challenge
  implies its override, and without diagnostics and override the brightness is the
  state's, so an overlay that ends cannot leave it wrong. `AgesInv`: while the last
  sound still counts, motion is less than the bridge older than it (`SoundInv`), and
  so it is with the time the state was entered (`PresentInv`); cooldown inherits
  the bound and adds its own time (`CooldownInv`). Each look at the state bounds the age of
  the motion anew, and `PresentInv` says how far it may grow until the next one, by
  the step of the loop and by whether a label of absence skipped a look.

- `TelemetryPipeline_proofs`. The properties speak of envelopes wherever they are, so
  `PipelineInv` first says where (`PlaceInv`: spool, dead letters, server, backup and
  network hold frozen envelopes only) and what frozen ones have in common (`FrozenInv`:
  those of one boot share no sequence number and no two clocks). From this a name
  tells envelopes apart, and of the four reasons for a refusal three cannot occur. The fourth, a
  revision the server has forgotten, takes a restoration. `QueueInv` says that a frozen
  number is in the queue only between rename and commit, which is what keeps numbers
  apart after a failed freeze or a crash; `ConfigInv` is `RevisionOrder` with the handover
  through the mailbox. `FirstLifeInv` is what a server that was never restored has given
  out, `SecondLifeInv` what a probe means after the first restoration: it names an
  envelope whose revision the server either has given out again or cannot confirm, so
  the second refusal that would make a dead letter does not come. Hence
  `NoEnvelopeLost`, `FrozenOnce`, `NoConflictUnrestored`, `RevisionsOrdered`,
  `RevisionsOnlyGrow`, `RestorationKeepsData` and `PipelineTypeCorrect`.
- `ControlCommand_proofs`. Two marks that nothing takes back carry `ControlInv`. A command
  is `Settled` once the server can never offer it again; `OrderInv` says that all commands
  before the one in RAM, in flash or in the answer are. A command is `Started` once the server
  agreed that it runs and neither flash nor RAM would begin it again. `EffectInv`: what has
  its effect has it once and is `Started`. The effects that come later than their
  start are the restart that is owed (`RestartInv`) and the request in the mailbox
  (`MailboxInv`), of which each is tied to a started command without an effect.
  `JournalInv` is why a failed journal write does no harm: RAM and flash differ only once
  the device has stopped polling. Hence `ControlAtMostOnce`, `ControlReleased`,
  `ControlDurable`, `ControlSuccess`, `ControlSingleFlight` and `ControlTypeCorrect`.
- `OtaInstall_proofs`. The argument is about the *trusted* partition: the one that has run and
  was not aborted. `TrustedKept` shows that no start changes it, whatever is started, and
  `ConfirmCore` that it moves only when the main loop confirms the image on trial, at
  which moment flash already names that image as pending, accepted and validated.
  `SlotInv` says what the partitions hold while an image is `Chosen` or `OnTrial`,
  `TrialInv` what validator, notice and snapshot mean then, `StepInv` what the worker has in its
  hands at each step, `CopyInv` how its copy and the journal in flash may
  differ (after a failed save it is unhealthy, with one exception: an upload
  whose acceptance could not be saved), `JournalInv` what flash may say of the trusted
  partition: if its image is the pending one, the promotion is all that is
  missing; otherwise it is the confirmed release. The properties are read off:
  `AlwaysBootable` from `SlotInv`, `PolicyNeverHalts` from `Found` (the boot policy case by
  case), `ConfirmedHasPassed` and `JournalIsTrue` from `JournalInv`, `FloorConfirmed` from
  the fact that the worker reports only what its copy confirms, and `CounterOnlyGrows` from
  `Grows`, which every save satisfies because a release is staged only if it is newer.
  The first part of the module (`ClearedJournal` to `ValidatedJournal`) says what each
  operation of `OtaJournal` leaves in a journal.
- `OtaInstall_proofs`, refinement. The properties above each look at one moment or one
  counter; `InstallationRefined` says that partitions, journal and server go through one
  installation in the right order. It needs one invariant more, `OfferInv`: what the
  worker has staged is what it writes and chooses, and an image chosen is never already
  validated in the journal, so that a trial cannot begin validated. Each action has a
  lemma that it `Follows`, that is, keeps `OfferInv` and is one abstract step or none as
  far as image, phase and confirmed release go; `FloorLearns` is the same for what the
  server knows. A start is the longest case: it may abandon the trial, begin one, or
  record a promotion the boot loader made before the journal did. `NextFollows`,
  `RefinedInit` and `RefinedStep` give the theorem.

Model-checked only: liveness (`SpoolDrains`, `ConfigConverges`, `CommandLeavesQueue` and
`SelectionEnds`), which needs fairness and so `ENABLED`, and with it the leads-to
arguments the prover cannot do here. The counterexamples of section 6 are TLC's. Every
other property of a run is stated by a theorem.

## 5. Not modelled

- Time: deadlines, back-off and intervals only delay, so the steps they delay are
  free to come at any moment. Only Presence has a clock.
- Answers 401 and 404 in `TelemetryPipeline` (the device halts) and other 4xx
  answers (dead letter at once), files with foreign names (quarantined), the flash
  reserve and the progressive thinning of samples. `FeedbackPipeline` has the answers.
- The kinds of records in the pipeline: `TelemetryFifo` has them, the pipeline
  relies on its `CopyStaysPrefix`.
- Failing reads of NVS: a read error in the active slot makes a load fall back to
  the older one. Both store proofs assume that reads succeed.
- The limit of 64 outstanding commands and pruning of the command history.
- Cryptography, text formats, floating point, signal processing of the microphone.
- Transport recovery and the watchdog act through what the pipelines already let
  happen (a call given up, a restart). Sensor health, health snapshots, the dashboard and
  the operational log keep state nothing else depends on: each is a latch, a copy under a
  lock or a ring that may drop, and their unit tests reach their cases.
- Authentication, the console's pages, host tools that run once.

## 6. Divergences

Six of the repository's own statements do not hold of its code; each has a run:

- `StaysProvisioned`: `saveDeviceSettings` picks its slot by the marker alone. A
  first provisioning cut off after the valid flag and before the marker leaves
  slot 0 in use without a marker; the next save clears slot 0 in place, and a
  reset then leaves a device without settings.
- `MailboxFreed`: once the worker has set a command expired, the result the main
  loop publishes for it is never taken; the mailbox stays busy until a reset and
  every later command for the main loop fails.
- `ReplayEnds`: after a reset the final acknowledgement is repeated under the
  journalled lease. If the server no longer holds that lease it answers 409 to every
  repetition, and the worker neither gives up nor proceeds to OTA. The same refusal of
  an accepted report that came too late keeps the worker at `kAckAccepted` without a
  reset.
- `TerminalReportCompletes`: a report is identified by its contents, so the same end
  of a release that was selected a second time is answered as a duplicate and the
  release stays selected; the device downloads it again and again.
- `UploadsMeasured`: on a device that runs a confirmed image the phase of a development
  upload is hidden by the phase of the image (`effectiveOtaPhase`), main measures
  nothing, and the upload is rejected at its end.
- `StalePinSuperseded`: the pin of an older core dump is superseded only by its removal
  late in the boot after a crash; a power loss before leaves it, and the new dump is
  reported under the older boot.

The models show more behaviours that a comment rules out and that no run is
devoted to: a configuration change with a full queue loses its boundary record
(`main.cpp:689`); after a restoration followed by two edits a newer snapshot
closes a probe although the server never held the revision in force
(`telemetry_uploader.cpp:3523`); after a failed journal write the worker
acknowledges a record flash does not hold (`command_journal.h:61`); a new command
replaces a final status the server was never told (`command_journal.h:100`).

## 7. Plan

1. That `SettingsStore` keeps what a completed save wrote until the next one.
2. In the existing modules: failing reads in `TwoSlotStore` and at `Reboot`, the
   remaining answers of the server, the limit of outstanding commands.
3. The bounded histories of the backend.
