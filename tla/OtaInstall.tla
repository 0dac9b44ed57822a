----------------------------- MODULE OtaInstall -----------------------------
(* Installation of an image over the air: the worker of the uploader task,  *)
(* the boot validator of the main loop, the two partitions and the boot     *)
(* loader under them, and the release service on the server.  The journal   *)
(* in NVS, the states in otadata and the server's target are three records  *)
(* of one installation, each written at its own moment; power may be lost   *)
(* between any two of them, a journal write may fail with or without its    *)
(* effect, and a report may be lost on either way.                          *)
EXTENDS OtaJournal

CONSTANTS
    MaxPowerLosses,      \* bound on losses of power
    MaxFaults,           \* bound on failing flash writes and failing selections
    MaxSelections,       \* how often each release is selected on the console
    MaxDevelopment,      \* bound on development uploads
    Manifests            \* what the server may hand out as a manifest

VARIABLES
    image,      \* content of each partition
    otadata,    \* the boot loader's state of each partition
    boot,       \* the partition with the newest otadata entry
    journal,    \* OtaInstallState in NVS
    running,    \* the partition started last
    main,       \* phase of OtaDelayedBootValidator
    noticed,    \* otaBootNoticePublished
    notice,     \* OtaRuntimeMailbox: bootNotice_
    snapshot,   \* OtaRuntimeMailbox: what the worker published of its state
    step,       \* where the worker is
    install,    \* the worker's installState_
    healthy,    \* installStateHealthy_
    pendingRun, \* pendingImageRunning_
    due,        \* reports pending: pendingRunningReport_ and its two likes
    desired,    \* the release the worker is installing, or reports the end of
    outcome,    \* phase and error of the report that ends an attempt
    staged,     \* developmentUploadJournalStaged_
    server,     \* the release target, the floor of counters and the latest report
    rows,       \* release status reports stored on the server
    used,       \* faults, losses of power, selections and uploads so far
    passed,     \* history: partitions whose content passed every gate
    answered    \* history: the last terminal report answered since a selection

flash  == <<image, otadata, boot, running>>
mainv  == <<main, noticed>>
worker == <<step, install, healthy, pendingRun, due, desired, outcome, staged>>
remote == <<server, rows>>
ghost  == <<passed, answered>>
vars   == <<flash, journal, mainv, notice, snapshot, worker, remote, used, ghost>>

Absent     == [EmptyJournal EXCEPT !.pending = "absent"]
NoReport   == [desired |-> NoRelease, running |-> NoRelease, previous |-> NoRelease,
               good |-> NoRelease, phase |-> "none", error |-> "none", image |-> Factory]
Failures   == {"failed", "rejected", "rolled_back"}
Terminal   == Failures \cup {"running"}
Idle       == step = "idle"
OtherSlot(s) == CHOOSE t \in Slots : t # s
Inactive   == OtherSlot(running)
RunsProduction == RunsConfirmed(install, image[running])
RunningName    == IF RunsProduction THEN install.confirmed ELSE NoRelease

(* One NVS blob, written and read back: success, or a failure that left     *)
(* either value behind.                                                     *)
Save(j) == {[ok |-> TRUE, stored |-> j]} \cup
           (IF used.faults < MaxFaults
            THEN {[ok |-> FALSE, stored |-> j], [ok |-> FALSE, stored |-> journal]} ELSE {})

Saved(s) ==
    /\ journal' = s.stored
    /\ used' = IF s.ok THEN used ELSE [used EXCEPT !.faults = @ + 1]

Snapshot(known) ==
    [known    |-> known, healthy |-> known /\ healthy,
     prepared |-> known /\ healthy /\ pendingRun /\ install.validated]

-----------------------------------------------------------------------------
(* The boot loader: an image that did not confirm itself before the reset   *)
(* is aborted, the newest usable entry is started, and one started for the  *)
(* first time has to confirm itself.                                        *)
Aborted(data) ==
    [s \in Slots |-> IF data[s] = "pending_verify" THEN "aborted" ELSE data[s]]

Usable(data, s) == data[s] \notin {"invalid", "aborted", "none"} /\ image[s] # Torn

BootChoice(data) == IF Usable(data, boot) THEN boot ELSE OtherSlot(boot)

\* A faulty variant in which an image confirms itself; no action uses it.
MutBooted(data) ==
    LET old == Aborted(data)
    IN  [old EXCEPT ![BootChoice(old)] = IF @ = "new" THEN "valid" ELSE @]

Booted(data) ==
    LET old == Aborted(data)
        s   == BootChoice(old)
    IN  [old EXCEPT ![s] = IF @ = "new" THEN "pending_verify" ELSE @]

(* OtaDelayedBootValidator::begin *)
ValidatorAt(state) == IF state = "pending_verify" THEN "waiting" ELSE "not_pending"

(* A start: everything in RAM is fresh. *)
Boot(data) ==
    /\ otadata' = Booted(data)
    /\ running' = BootChoice(Aborted(data))
    /\ main' = ValidatorAt(otadata'[running'])
    /\ noticed' = FALSE /\ notice' = "none"
    /\ snapshot' = [known |-> FALSE, healthy |-> FALSE, prepared |-> FALSE]
    /\ step' = "boot" /\ install' = EmptyJournal /\ healthy' = FALSE
    /\ pendingRun' = FALSE /\ due' = {} /\ staged' = FALSE
    /\ desired' = NoRelease /\ outcome' = <<"none", "none">>

FlashedSlot == AnySlot

Init ==
    /\ image = [s \in Slots |-> IF s = FlashedSlot THEN Factory ELSE Torn]
    /\ otadata = [s \in Slots |-> IF s = FlashedSlot THEN "undefined" ELSE "none"]
    /\ boot = FlashedSlot /\ running = FlashedSlot
    /\ journal = Absent
    /\ main = "not_pending" /\ noticed = FALSE /\ notice = "none"
    /\ snapshot = [known |-> FALSE, healthy |-> FALSE, prepared |-> FALSE]
    /\ step = "boot" /\ install = EmptyJournal /\ healthy = FALSE
    /\ pendingRun = FALSE /\ due = {} /\ staged = FALSE
    /\ desired = NoRelease /\ outcome = <<"none", "none">>
    /\ server = [target |-> NoRelease, completed |-> FALSE, floor |-> 0, latest |-> NoReport]
    /\ rows = {}
    /\ used = [faults |-> 0, losses |-> 0, development |-> 0,
               selections |-> [r \in Releases |-> 0]]
    /\ passed = {FlashedSlot} /\ answered = NoReport

PowerLoss ==
    /\ used.losses < MaxPowerLosses
    /\ used' = [used EXCEPT !.losses = @ + 1]
    /\ Boot(otadata)
    /\ UNCHANGED <<image, boot, journal, remote, ghost>>

-----------------------------------------------------------------------------
(* initializeOtaRuntime: load the journal, let the boot policy decide, and  *)
(* finish or report what an interrupted transaction left.                   *)
Loaded == IF journal = Absent THEN EmptyJournal ELSE journal

BootAction == Recovery(Loaded, otadata[running], running, image[running])

(* What the runtime is left with: journal, health, reports and whether the  *)
(* running image is the pending one.                                        *)
Started(j, ok, reports, pending) ==
    /\ install' = j /\ healthy' = ok /\ due' = reports /\ pendingRun' = pending
    /\ step' = "idle"
    /\ UNCHANGED <<flash, mainv, notice, snapshot, desired, outcome, staged, remote, ghost>>

RunningReport(j) == IF RunsConfirmed(j, image[running]) THEN {"running"} ELSE {}

\* A faulty variant that goes on with an empty journal; no action uses it.
MutStartUnreadable ==
    /\ step = "boot" /\ used.faults < MaxFaults
    /\ used' = [used EXCEPT !.faults = @ + 1]
    /\ Started(EmptyJournal, TRUE, {}, FALSE)
    /\ UNCHANGED journal

StartUnreadable ==
    /\ step = "boot" /\ used.faults < MaxFaults
    /\ used' = [used EXCEPT !.faults = @ + 1]
    /\ Started(EmptyJournal, FALSE, {}, FALSE)
    /\ UNCHANGED journal

StartOrdinary ==
    /\ step = "boot" /\ BootAction = "ordinary"
    /\ \/ /\ journal # Absent
          /\ Started(Loaded, TRUE, RunningReport(Loaded), FALSE)
          /\ UNCHANGED <<journal, used>>
       \/ /\ journal = Absent
          /\ \E s \in Save(EmptyJournal) :
                Saved(s) /\ Started(EmptyJournal, s.ok, {}, FALSE)

StartValidation ==
    /\ step = "boot" /\ BootAction = "validate"
    /\ Started(Loaded, TRUE,
               IF Loaded.pending = "production" THEN {"validating"} ELSE {}, TRUE)
    /\ UNCHANGED <<journal, used>>

StartPromotion ==
    /\ step = "boot" /\ BootAction \in {"promote", "clear"}
    /\ LET j == CASE BootAction = "promote" -> ReleaseConfirmed(Loaded)
                  [] BootAction = "clear" /\ otadata[running] = "valid"
                        /\ IdentityMatches(Loaded, running, image[running]) ->
                           DevelopmentConfirmed(Loaded)
                  [] OTHER -> Cancelled(Loaded, "development")
       IN  \E s \in Save(j) :
              /\ Saved(s)
              /\ IF s.ok
                 THEN Started(j, TRUE, IF BootAction = "promote" THEN RunningReport(j)
                                                                  ELSE {}, FALSE)
                 ELSE Started(Loaded, FALSE, {}, FALSE)

StartRollbackReport ==
    /\ step = "boot" /\ BootAction = "report_rollback"
    /\ Started(Loaded, TRUE, {"rolled_back"}, FALSE)
    /\ UNCHANGED <<journal, used>>

StartRefused ==
    /\ step = "boot" /\ BootAction \in {"rollback", "halt"}
    /\ Started(Loaded, FALSE, {}, FALSE)
    /\ UNCHANGED <<journal, used>>

-----------------------------------------------------------------------------
(* The main loop's validator, which sees the worker through the snapshot.   *)
PublishSnapshot ==
    /\ step # "boot" /\ snapshot # Snapshot(TRUE)
    /\ snapshot' = Snapshot(TRUE)
    /\ UNCHANGED <<flash, journal, mainv, notice, worker, remote, used, ghost>>

Validating == main \in {"waiting", "awaiting_persistence"}

(* Thirty seconds in which every gate was ready. *)
HealthyWindow ==
    /\ main = "waiting" /\ snapshot.known /\ snapshot.healthy
    /\ main' = "awaiting_persistence"
    /\ UNCHANGED <<flash, journal, noticed, notice, snapshot, worker, remote, used, ghost>>

PrepareConfirmation ==
    /\ main = "awaiting_persistence" /\ snapshot.known /\ snapshot.healthy
    /\ ~snapshot.prepared /\ notice = "none"
    /\ notice' = "prepare"
    /\ UNCHANGED <<flash, journal, mainv, snapshot, worker, remote, used, ghost>>

(* publishBootValidationNotice: a final notice replaces the preparation.    *)
PublishNotice(n) == notice \in {"none", "prepare", n} /\ notice' = n /\ noticed' = TRUE

ConfirmAfterPersistence ==
    /\ main = "awaiting_persistence"
    /\ snapshot.known /\ snapshot.healthy /\ snapshot.prepared
    /\ main' = "confirmed" /\ otadata' = [otadata EXCEPT ![running] = "valid"]
    /\ PublishNotice("confirmed")
    /\ UNCHANGED <<image, boot, running, journal, snapshot, worker, remote, used, ghost>>

ConfirmFails ==
    /\ main = "awaiting_persistence"
    /\ snapshot.known /\ snapshot.healthy /\ snapshot.prepared
    /\ used.faults < MaxFaults
    /\ used' = [used EXCEPT !.faults = @ + 1]
    /\ main' = "platform_error" /\ PublishNotice("failed")
    /\ UNCHANGED <<flash, journal, snapshot, worker, remote, ghost>>

(* A hard failure: the journal is unhealthy, or the new image cannot run    *)
(* its own parts (storage, display, uploader task).                         *)
HardFailure ==
    /\ Validating
    /\ LET data == [otadata EXCEPT ![running] = "invalid"]
       IN  /\ Usable(data, Inactive)
           /\ Boot(data)
    /\ UNCHANGED <<image, boot, journal, remote, used, ghost>>

RollbackFails ==
    /\ Validating /\ used.faults < MaxFaults
    /\ used' = [used EXCEPT !.faults = @ + 1]
    /\ main' = "platform_error" /\ PublishNotice("failed")
    /\ UNCHANGED <<flash, journal, snapshot, worker, remote, ghost>>

-----------------------------------------------------------------------------
(* serviceOtaRuntime: what the worker makes of the validator's notice.      *)
ImagePending == install.pending # "none" /\ pendingRun

\* A faulty variant that says it is prepared before it saved; no action uses it.
MutTakePrepare ==
    /\ Idle /\ notice = "prepare" /\ notice' = "none"
    /\ install' = IF ImagePending THEN Validated(install) ELSE install
    /\ UNCHANGED <<flash, mainv, snapshot, step, pendingRun, due, desired, outcome, staged,
                   remote, ghost, healthy, journal, used>>

TakePrepare ==
    /\ Idle /\ notice = "prepare" /\ notice' = "none"
    /\ IF ImagePending
       THEN LET j == IF install.validated THEN install ELSE Validated(install)
            IN  IF ~install.validated /\ ~CanValidate(install, image[running])
                THEN healthy' = FALSE /\ UNCHANGED <<install, journal, used, snapshot>>
                ELSE \E s \in Save(j) :
                        /\ Saved(s)
                        /\ install' = IF s.ok THEN j ELSE install
                        /\ healthy' = (healthy /\ s.ok)
                        /\ snapshot' = IF s.ok
                              THEN [known |-> TRUE, healthy |-> healthy, prepared |-> healthy]
                              ELSE snapshot
       ELSE UNCHANGED <<healthy, install, journal, used, snapshot>>
    /\ UNCHANGED <<flash, mainv, step, pendingRun, due, desired, outcome, staged, remote, ghost>>

Promoted ==
    IF install.pending = "production" THEN ReleaseConfirmed(install)
                                      ELSE DevelopmentConfirmed(install)

CanPromote ==
    \/ CanConfirmRelease(install, image[running])
    \/ CanConfirmDevelopment(install)

TakeConfirmed ==
    /\ Idle /\ notice = "confirmed" /\ notice' = "none"
    /\ IF ~ImagePending
       THEN UNCHANGED <<install, healthy, pendingRun, due, journal, used>>
       ELSE IF ~CanPromote
       THEN healthy' = FALSE /\ UNCHANGED <<install, pendingRun, due, journal, used>>
       ELSE \E s \in Save(Promoted) :
              /\ Saved(s)
              /\ IF s.ok
                 THEN /\ install' = Promoted /\ pendingRun' = FALSE
                      /\ due' = (due \ {"validating", "running"}) \cup
                                (IF install.pending = "production"
                                 THEN RunningReport(Promoted) ELSE {})
                      /\ UNCHANGED healthy
                 ELSE /\ healthy' = FALSE /\ UNCHANGED <<install, pendingRun, due>>
    /\ UNCHANGED <<flash, mainv, snapshot, step, desired, outcome, staged, remote, ghost>>

TakeFailed ==
    /\ Idle /\ notice = "failed" /\ notice' = "none"
    /\ due' = IF install.pending # "none" THEN due \ {"validating"} ELSE due
    /\ UNCHANGED <<flash, journal, mainv, snapshot, step, install, healthy, pendingRun,
                   desired, outcome, staged, remote, used, ghost>>

-----------------------------------------------------------------------------
(* report_release_status on the server.  The body of a report is its        *)
(* identity: status_id is a hash of it, and a body already stored is        *)
(* answered as a duplicate and changes nothing.                             *)
Report(r, phase, error, previous, runs, good) ==
    [desired |-> r, phase |-> phase, error |-> error, previous |-> previous,
     running |-> IF install.development THEN NoRelease ELSE runs,
     good |-> good, image |-> image[running]]

Stored(b) == \E x \in rows : x = b

Refused(b) == b.phase = "running" /\ (b.running = NoRelease \/ b.running # b.image)

EndsTarget(b) ==
    /\ server.target # NoRelease /\ b.desired = server.target
    /\ \/ b.phase \in Failures
       \/ b.phase = "running" /\ b.running = server.target /\ b.image = server.target

AtLeast(x, y) == IF x >= y THEN x ELSE y

Receive(b) ==
    IF Stored(b) \/ Refused(b) THEN UNCHANGED remote
    ELSE /\ rows' = rows \cup {b}
         /\ server' = [server EXCEPT
               !.completed = @ \/ EndsTarget(b),
               !.latest = b,
               !.floor = IF b.phase = "running" THEN AtLeast(@, Counter(b.running)) ELSE @]

(* One exchange as the device sees it: no answer (the request or its answer *)
(* was lost, or it was refused), or an answer.                              *)
NoAnswer(b) == UNCHANGED <<remote, answered>> \/ (Receive(b) /\ UNCHANGED answered)

Answer(b) ==
    /\ ~Refused(b)
    /\ Receive(b)
    /\ answered' = IF b.phase \in Terminal THEN b ELSE answered

(* The three reports serviceOtaRuntime repeats until they are answered.     *)
RunningBody == Report(install.confirmed, "running", "none", install.previous,
                      RunningName, install.confirmed)
\* A faulty variant that reports the release before it is confirmed.
MutValidatingBody == Report(install.release, "running", "none", install.confirmed,
                            install.release, install.confirmed)

ValidatingBody == Report(install.release, "validating", "none", install.confirmed,
                         install.release, install.confirmed)
RollbackBody == Report(install.release, "rolled_back", "boot_validation", install.confirmed,
                       RunningName, install.confirmed)

ReportRunning ==
    /\ Idle /\ "running" \in due
    /\ Answer(RunningBody) /\ due' = due \ {"running"}
    /\ UNCHANGED <<flash, journal, mainv, notice, snapshot, step, install, healthy,
                   pendingRun, desired, outcome, staged, used, passed>>

ReportValidating ==
    /\ Idle /\ "validating" \in due
    /\ Answer(ValidatingBody) /\ due' = due \ {"validating"}
    /\ UNCHANGED <<flash, journal, mainv, notice, snapshot, step, install, healthy,
                   pendingRun, desired, outcome, staged, used, passed>>

(* Only an answered rollback report ends the transaction.                   *)
ReportRollback ==
    /\ Idle /\ "rolled_back" \in due /\ install.release # NoRelease
    /\ Answer(RollbackBody)
    /\ install' = Cancelled(install, "production")
    /\ \E s \in Save(Cancelled(install, "production")) :
          /\ Saved(s)
          /\ healthy' = (healthy /\ s.ok)
          /\ due' = IF s.ok THEN due \ {"rolled_back"} ELSE due
    /\ UNCHANGED <<flash, mainv, notice, snapshot, step, pendingRun, desired, outcome,
                   staged, passed>>

ReportUnanswered ==
    /\ Idle
    /\ \/ "running" \in due /\ NoAnswer(RunningBody)
       \/ "validating" \in due /\ NoAnswer(ValidatingBody)
       \/ "rolled_back" \in due /\ install.release # NoRelease /\ NoAnswer(RollbackBody)
    /\ UNCHANGED <<flash, journal, mainv, notice, snapshot, worker, used, passed>>

-----------------------------------------------------------------------------
(* select_release: verified, newer than everything the device is known to   *)
(* run or to have confirmed.                                                *)
KnownCounters ==
    {server.floor, Counter(server.latest.running), Counter(server.latest.good)}

SelectRelease ==
    \E r \in Releases :
       /\ used.selections[r] < MaxSelections
       /\ \A c \in KnownCounters : CounterOf[r] > c
       /\ server.target # r \/ server.completed
       /\ used' = [used EXCEPT !.selections[r] = @ + 1]
       /\ server' = [server EXCEPT !.target = r, !.completed = FALSE]
       /\ answered' = NoReport
       /\ UNCHANGED <<flash, journal, mainv, notice, snapshot, worker, rows, passed>>

Visible == IF server.completed THEN NoRelease ELSE server.target

-----------------------------------------------------------------------------
(* installDesiredRelease, cut where it talks to the server or to flash.     *)
\* A faulty variant that does not wait for the image on trial.
MutMayInstall == Idle /\ healthy /\ Visible # NoRelease

MayInstall == Idle /\ healthy /\ ~pendingRun /\ install.pending = "none" /\ Visible # NoRelease

\* A faulty variant that leaves the transaction in the journal.
MutFail(phase, error, cancel) ==
    /\ step' = "fail" /\ outcome' = <<phase, error>>
    /\ UNCHANGED <<install, healthy, journal, used>>

(* failProductionRelease: the transaction is cancelled if it was staged,    *)
(* and the release ends with a report sent once.                            *)
Fail(phase, error, cancel) ==
    /\ step' = "fail" /\ outcome' = <<phase, error>>
    /\ IF cancel
       THEN /\ install' = Cancelled(install, "production")
            /\ \E s \in Save(Cancelled(install, "production")) :
                  Saved(s) /\ healthy' = (healthy /\ s.ok)
       ELSE UNCHANGED <<install, healthy, journal, used>>

EndBody == Report(desired, outcome[1], outcome[2], install.confirmed, RunningName,
                  install.confirmed)

ReportEnd ==
    /\ step = "fail"
    /\ Answer(EndBody) \/ NoAnswer(EndBody)
    /\ step' = "idle" /\ desired' = NoRelease /\ outcome' = <<"none", "none">>
    /\ UNCHANGED <<flash, journal, mainv, notice, snapshot, install, healthy, pendingRun,
                   due, staged, used, passed>>

AlreadyRunning ==
    /\ MayInstall /\ Visible = install.confirmed /\ RunsProduction
    /\ LET b == Report(Visible, "running", "none", install.previous, RunningName,
                       install.confirmed)
       IN  Answer(b) \/ NoAnswer(b)
    /\ UNCHANGED <<flash, journal, mainv, notice, snapshot, worker, used, passed>>

BeginRelease ==
    /\ MayInstall /\ ~(Visible = install.confirmed /\ RunsProduction)
    /\ LET b == Report(Visible, "downloading", "none", install.confirmed, RunningName,
                       install.confirmed)
           newer == Counter(Visible) > Counter(install.confirmed)
       IN  \/ /\ ~newer /\ Fail("rejected", "counter", FALSE)
              /\ desired' = Visible /\ UNCHANGED <<remote, answered>>
           \/ /\ newer /\ Fail("failed", "queues", FALSE)
              /\ desired' = Visible /\ UNCHANGED <<remote, answered>>
           \/ /\ newer /\ Answer(b) /\ step' = "manifest" /\ desired' = Visible
              /\ UNCHANGED <<outcome, install, healthy, journal, used>>
           \/ /\ newer /\ NoAnswer(b)
              /\ UNCHANGED <<step, desired, outcome, install, healthy, journal, used>>
    /\ UNCHANGED <<flash, mainv, notice, snapshot, pendingRun, due, staged, passed>>

(* The manifest is fetched and verified, the verification reported, and the *)
(* transaction staged in the journal before the first byte is written.      *)
StageRelease ==
    /\ step = "manifest"
    /\ \E m \in Manifests :
          IF ~(ReleaseAccepted(m, install.confirmed) /\ ClaimsMatch(desired, m))
          THEN Fail("rejected", "manifest", FALSE) /\ UNCHANGED <<desired, remote, answered>>
          ELSE LET b == Report(desired, "verifying", "none", install.confirmed, RunningName,
                               install.confirmed)
                   j == Staged(install, desired, Inactive)
               IN  \/ /\ NoAnswer(b) /\ step' = "idle" /\ desired' = NoRelease
                      /\ UNCHANGED <<outcome, install, healthy, journal, used>>
                   \/ /\ Answer(b) /\ UNCHANGED desired
                      /\ \E s \in Save(j) :
                           /\ Saved(s)
                           /\ IF s.ok
                              THEN /\ install' = j /\ step' = "stream"
                                   /\ UNCHANGED <<healthy, outcome>>
                              ELSE /\ install' = Cancelled(j, "production")
                                   /\ healthy' = FALSE
                                   /\ step' = "fail" /\ outcome' = <<"failed", "journal">>
    /\ UNCHANGED <<flash, mainv, notice, snapshot, pendingRun, due, staged, passed>>

DownloadFails ==
    /\ step \in {"manifest", "stream", "write"}
    /\ Fail("failed", "download", step # "manifest")
    /\ UNCHANGED <<flash, mainv, notice, snapshot, pendingRun, due, desired, staged,
                   remote, ghost>>

(* esp32UpdateBegin and the first sectors: the slot holds neither image.    *)
BeginStream ==
    /\ step = "stream" /\ step' = "write"
    /\ image' = [image EXCEPT ![Inactive] = Torn]
    /\ passed' = passed \ {Inactive}
    /\ UNCHANGED <<otadata, boot, running, journal, mainv, notice, snapshot, install, healthy,
                   pendingRun, due, desired, outcome, staged, remote, used, answered>>

(* OtaStreamUpdater: all bytes written, their digest the manifest's.        *)
StreamFinished == image' = [image EXCEPT ![Inactive] = desired]

(* The measured gates pass, and the slot's identity goes into the journal.  *)
AcceptImage ==
    /\ step = "write" /\ install.slot = Inactive
    /\ StreamFinished
    /\ LET j == WithAccepted(install, desired)
       IN  IF ~CanAccept(install, Inactive)
           THEN /\ healthy' = FALSE /\ step' = "fail" /\ outcome' = <<"failed", "journal">>
                /\ UNCHANGED <<install, journal, used>>
           ELSE \E s \in Save(j) :
                   /\ Saved(s)
                   /\ install' = IF s.ok THEN j ELSE install
                   /\ healthy' = (healthy /\ s.ok)
                   /\ step' = IF s.ok THEN "accepted" ELSE "fail"
                   /\ outcome' = IF s.ok THEN outcome ELSE <<"failed", "journal">>
    /\ UNCHANGED <<otadata, boot, running, mainv, notice, snapshot, pendingRun, due, desired,
                   staged, remote, ghost>>

(* The gates are read once more, with the journal write in the measurement. *)
TerminalGateFails ==
    /\ step = "accepted"
    /\ Fail("failed", "gates", TRUE)
    /\ UNCHANGED <<flash, mainv, notice, snapshot, pendingRun, due, desired, staged,
                   remote, ghost>>

Selected(s) ==
    /\ boot' = s /\ otadata' = [otadata EXCEPT ![s] = "new"]
    /\ UNCHANGED <<image, running>>

SelectImage ==
    /\ step = "accepted"
    /\ passed' = passed \cup {Inactive}
    /\ \/ /\ Selected(Inactive)
          /\ LET b == Report(desired, "reboot_pending", "none", install.confirmed,
                             RunningName, install.confirmed)
             IN  Answer(b) \/ NoAnswer(b)
          /\ step' = "restart" /\ UNCHANGED <<healthy, outcome, used>>
       \/ /\ used.faults < MaxFaults
          /\ used' = [used EXCEPT !.faults = @ + 1]
          /\ Selected(Inactive) \/ UNCHANGED flash
          /\ healthy' = FALSE /\ step' = "fail" /\ outcome' = <<"failed", "select">>
          /\ UNCHANGED <<remote, answered>>
    /\ UNCHANGED <<journal, mainv, notice, snapshot, install, pendingRun, due, desired,
                   staged>>

(* The queues are drained before the restart, however long that takes.      *)
Restart ==
    /\ step = "restart"
    /\ Boot(otadata)
    /\ UNCHANGED <<image, boot, journal, remote, used, ghost>>

-----------------------------------------------------------------------------
(* A development upload: the journal is staged before the first byte, and   *)
(* Update.end() selects the new image before it is accepted.                *)
OpenDevelopment ==
    /\ Idle /\ healthy /\ install.pending = "none" /\ ~pendingRun
    /\ used.development < MaxDevelopment
    /\ step' = "upload" /\ staged' = FALSE
    /\ used' = [used EXCEPT !.development = @ + 1]
    /\ UNCHANGED <<flash, journal, mainv, notice, snapshot, install, healthy, pendingRun,
                   due, desired, outcome, remote, ghost>>

StageDevelopment ==
    /\ step = "upload" /\ ~staged
    /\ LET j == StagedDevelopment(install, Inactive)
       IN  /\ CanStageDevelopment(install)
           /\ \E s \in Save(j) :
                /\ Saved(s)
                /\ IF s.ok
                   THEN install' = j /\ staged' = TRUE /\ UNCHANGED <<healthy, step>>
                   ELSE healthy' = FALSE /\ step' = "upload_failed" /\ UNCHANGED <<install, staged>>
    /\ UNCHANGED <<flash, mainv, notice, snapshot, pendingRun, due, desired, outcome,
                   remote, ghost>>

WriteDevelopment ==
    /\ step = "upload" /\ staged
    /\ image' = [image EXCEPT ![Inactive] = Torn]
    /\ passed' = passed \ {Inactive}
    /\ step' = "upload_written"
    /\ UNCHANGED <<otadata, boot, running, journal, mainv, notice, snapshot, install, healthy,
                   pendingRun, due, desired, outcome, staged, remote, used, answered>>

UploadFails ==
    /\ step \in {"upload", "upload_written"} /\ step' = "upload_failed"
    /\ UNCHANGED <<flash, journal, mainv, notice, snapshot, install, healthy, pendingRun,
                   due, desired, outcome, staged, remote, used, ghost>>

EndUpload ==
    /\ step = "upload_written"
    /\ image' = [image EXCEPT ![Inactive] = Development]
    /\ boot' = Inactive /\ otadata' = [otadata EXCEPT ![Inactive] = "new"]
    /\ step' = "upload_ended"
    /\ UNCHANGED <<running, journal, mainv, notice, snapshot, install, healthy, pendingRun,
                   due, desired, outcome, staged, remote, used, ghost>>

(* developmentCompletionCheck: on any doubt the candidate stays selected    *)
(* and unaccepted, for the next start to roll back.                         *)
AcceptDevelopment ==
    /\ step = "upload_ended" /\ staged /\ CanAccept(install, boot)
    /\ \E s \in Save(WithAccepted(install, image[boot])) :
          /\ Saved(s)
          /\ IF s.ok
             THEN install' = WithAccepted(install, image[boot]) /\ step' = "restart"
             ELSE step' = "upload_failed" /\ UNCHANGED install
    /\ passed' = passed \cup {boot}
    /\ UNCHANGED <<flash, mainv, notice, snapshot, healthy, pendingRun, due, desired,
                   outcome, staged, remote, answered>>

RejectDevelopment ==
    /\ step = "upload_ended" /\ step' = "upload_failed"
    /\ UNCHANGED <<flash, journal, mainv, notice, snapshot, install, healthy, pendingRun,
                   due, desired, outcome, staged, remote, used, ghost>>

(* serviceDevelopmentOta after a failed upload: the journal is cleared only *)
(* while the running image is still the one that will start next.           *)
CloseFailedUpload ==
    /\ step = "upload_failed" /\ step' = "idle"
    /\ LET j == Cancelled(install, "development")
       IN  IF staged /\ BootChoice(otadata) = running
           THEN \E s \in Save(j) :
                  /\ Saved(s)
                  /\ install' = IF s.ok THEN j ELSE install
                  /\ healthy' = (healthy /\ s.ok)
           ELSE UNCHANGED <<install, healthy, journal, used>>
    /\ UNCHANGED <<flash, mainv, notice, snapshot, pendingRun, due, desired, outcome,
                   staged, remote, ghost>>

-----------------------------------------------------------------------------
Start == \/ StartUnreadable \/ StartOrdinary \/ StartValidation \/ StartPromotion
         \/ StartRollbackReport \/ StartRefused

Validator == \/ HealthyWindow \/ PrepareConfirmation \/ ConfirmAfterPersistence
             \/ ConfirmFails \/ HardFailure \/ RollbackFails

Notices == TakePrepare \/ TakeConfirmed \/ TakeFailed

Reports == ReportRunning \/ ReportValidating \/ ReportRollback

Production == \/ AlreadyRunning \/ BeginRelease \/ StageRelease \/ DownloadFails
              \/ BeginStream \/ AcceptImage \/ TerminalGateFails \/ SelectImage
              \/ ReportEnd

DevelopmentUpload == \/ OpenDevelopment \/ StageDevelopment \/ WriteDevelopment \/ UploadFails
                     \/ EndUpload \/ AcceptDevelopment \/ RejectDevelopment
                     \/ CloseFailedUpload

Next == \/ Start \/ PublishSnapshot \/ Validator \/ Notices \/ Reports \/ ReportUnanswered
        \/ SelectRelease \/ Production \/ DevelopmentUpload \/ Restart \/ PowerLoss

Spec == Init /\ [][Next]_vars

(* The steps that bring an installation forward, for fairness.               *)
ValidatorPolls == HealthyWindow \/ PrepareConfirmation \/ ConfirmAfterPersistence \/ HardFailure
BeginsRelease  == BeginRelease /\ desired' # NoRelease
StagesRelease  == StageRelease /\ step' # "idle"
EndStored      == ReportEnd /\ rows' = rows \cup {EndBody}
UploadCloses   == CloseFailedUpload \/ UploadFails

-----------------------------------------------------------------------------
(* Types of the variables; the journal in NVS and the one in RAM are valid  *)
(* states of ota_install_state.                                             *)
TypeOK ==
    /\ image \in [Slots -> Images \cup {Torn}]
    /\ otadata \in [Slots -> {"none", "undefined", "new", "pending_verify", "valid",
                              "invalid", "aborted"}]
    /\ boot \in Slots /\ running \in Slots /\ passed \subseteq Slots
    /\ journal = Absent \/ (journal \in Journal /\ JournalValid(journal))
    /\ install \in Journal /\ JournalValid(install)
    /\ main \in {"not_pending", "waiting", "awaiting_persistence", "confirmed", "platform_error"}
    /\ notice \in {"none", "prepare", "confirmed", "failed"}
    /\ due \subseteq {"running", "validating", "rolled_back"}
    /\ desired \in Names /\ server.target \in Names

(* Whatever was interrupted, the device starts: the partition the boot      *)
(* loader would take now holds a whole image (recovery comments at          *)
(* telemetry_uploader.cpp:1334 and 2452).                                   *)
Bootable == Usable(Aborted(otadata), BootChoice(Aborted(otadata)))

(* The three records of an installation never contradict each other at a    *)
(* start: the boot policy halts on none of the states the device can leave. *)
NeverHalts == step = "boot" => BootAction # "halt"

(* The image the boot loader would start without asking it to confirm       *)
(* itself is one whose very content passed every gate before it was         *)
(* accepted, although the entry of a slot outlives its content.             *)
OnlyPassedConfirmed ==
    LET s == BootChoice(Aborted(otadata)) IN otadata[s] = "valid" => s \in passed

(* Between installations the journal tells the truth: without a development *)
(* image the running image is the confirmed release.                        *)
JournalNamesRunning ==
    (Idle /\ healthy /\ install.pending = "none" /\ install.confirmed # NoRelease
          /\ ~install.development) => image[running] = install.confirmed

(* The server never takes a release for confirmed that the device's own     *)
(* journal does not hold: it would refuse releases the device could take.   *)
FloorIsConfirmed == server.floor <= Counter(Loaded.confirmed)

(* No release is confirmed over a newer one, through any sequence of        *)
(* rollbacks, uploads and restarts.                                         *)
CounterNeverFalls ==
    [][journal # Absent => Counter(journal'.confirmed) >= Counter(journal.confirmed)]_journal

(* The partition that has run and was not aborted, the one a start falls    *)
(* back on, and how far the other one has come: chosen for the next start,  *)
(* on trial, validated in the journal, or promoted by the boot loader and   *)
(* not yet confirmed in the journal.                                        *)
OnTrial == otadata[running] = "pending_verify"
Chosen  == otadata[Inactive] = "new"
Trusted == IF OnTrial THEN Inactive ELSE running

MatchesIn(j, s) == IdentityMatches(j, s, image[s])

Candidate == IF OnTrial THEN image[running]
             ELSE IF Chosen THEN image[Inactive] ELSE Torn

InstallPhase ==
    CASE OnTrial /\ ~journal.validated -> "trial"
      [] OnTrial /\ journal.validated -> "validated"
      [] ~OnTrial /\ Chosen -> "chosen"
      [] ~OnTrial /\ ~Chosen /\ MatchesIn(journal, running) -> "promoted"
      [] OTHER -> "rest"

(* The partitions, the journal and the server are one installation: image,  *)
(* trial, confirmation and report follow each other in this order, although *)
(* each is written at its own moment (comments at                           *)
(* telemetry_uploader.cpp:1334 and 2452).                                   *)
Promise == INSTANCE Installation WITH
    trusted <- image[Trusted], candidate <- Candidate, phase <- InstallPhase,
    confirmed <- Loaded.confirmed, floor <- server.floor, Nothing <- Torn

ImplementsInstallation == Promise!Spec

(* docs/v0.7-plan.md: a desired release remains visible until the device    *)
(* reports its terminal result; so once such a report is answered, the      *)
(* release is not handed out again.                                         *)
TerminalReportCompletes ==
    (answered.phase \in Terminal /\ answered.desired = server.target) => server.completed

(* A selected release comes to an end: it runs, or the device said why not. *)
(* A journal or a boot state that cannot be written, or an upload that was  *)
(* refused after its last byte, ends the attempts until the next start.     *)
Blocked == \/ step # "boot" /\ ~healthy
           \/ main = "platform_error"
           \/ install.pending = "development"

SelectionEnds == \A r \in Releases : Visible = r ~> (Visible # r \/ Blocked)

=============================================================================
