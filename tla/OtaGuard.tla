----------------------------- MODULE OtaGuard -----------------------------
(* What surrounds the transfer of an image: the development window, the     *)
(* guard that keeps the queues empty and takes critical records only, and   *)
(* the measurements of the main loop on which an image is accepted.         *)
(*                                                                          *)
(* The two cores are main (src/main.cpp) and the worker                     *)
(* (src/telemetry_uploader.cpp); they meet in the telemetry queue, the      *)
(* feedback queue and the runtime mailbox.  Which image is confirmed is     *)
(* OtaInstall; here an image is accepted or not.  A counter that is only    *)
(* compared with the value it had when the guard was armed is the fact that *)
(* it moved since (missed).  Of main's counters is left what the limits     *)
(* tell apart: no microphone window yet (none), both limits kept (good), a  *)
(* share of invalid windows over its limit, which later windows may mend    *)
(* (share), a gap of the loop over its limit, which nothing mends (bad).    *)
(* Left out: the phase shown while a command waits for its confirmation,    *)
(* which hides the window's, and the notices of boot validation.            *)
EXTENDS Naturals

CONSTANTS Capacity, Reserve, FeedbackCapacity

ASSUME GuardAssumption ==
    Capacity \in Nat /\ Reserve \in Nat /\ FeedbackCapacity \in Nat

VARIABLES
    mainAt,     \* where the main loop is: loop, sense, publish
    measuring,  \* otaSafetyMetricsActive: main saw a transfer in the snapshot
    quality,    \* main's counters of this transfer: none, good, share, bad
    asked,      \* otaSafetyAbortRequested
    openWanted, \* mailbox: a gesture opened the window
    resultWanted, \* mailbox: the confirmed open_dev_ota command's result
    snapshot,   \* mailbox: phase published by the worker
    fresh,      \* the snapshot's version is not main's
    metrics,    \* what main published since the last reset: in the mailbox
                \* or taken from it into lastSafetyMetrics_
    abort,      \* mailbox: abort pending
    critical, samples, feedback,  \* what waits in the queues
    missed,     \* a critical record or a correction was dropped since arming
    at,         \* the worker's step, idle between two
    goal,       \* what the queues are being emptied for
    otaPhase,   \* otaPhase_
    pending,    \* installState_: none, production, development
    selected,   \* the bootloader is set to the new image
    healthy,    \* installStateHealthy_
    window,     \* developmentWindow_'s phase
    started,    \* developmentServiceStarted_
    guarding,   \* criticalQueueGuardActive_, and criticalOnly_ of the queue
    restarting, \* acceptedRebootPending_
    harmed      \* past: main dropped or measured something since the stream began

mainVars    == <<mainAt, measuring, quality, asked>>
mailVars    == <<openWanted, resultWanted, snapshot, fresh, metrics, abort>>
queueVars   == <<critical, samples, feedback>>
installVars == <<otaPhase, pending, selected, healthy, restarting>>
windowVars  == <<window, started>>
guardVars   == <<guarding, missed, harmed>>
transferVars == <<mainVars, mailVars, queueVars, installVars, windowVars, guardVars, at, goal>>

Transfer == {"uploading", "downloading", "verifying"}

\* The steps at which the snapshot shows that an image is on its way.
Streaming == {"stream", "written", "finished", "accepted", "upload", "complete"}

GuardInit ==
    /\ mainAt = "loop" /\ measuring = FALSE /\ quality = "none" /\ asked = FALSE
    /\ openWanted = FALSE /\ resultWanted = FALSE /\ snapshot = "inactive" /\ fresh = FALSE
    /\ metrics = "none" /\ abort = FALSE
    /\ critical = 0 /\ samples = 0 /\ feedback = 0 /\ missed = FALSE
    /\ at = "idle" /\ goal = "none"
    /\ otaPhase \in {"inactive", "running"}
    /\ pending = "none" /\ selected = FALSE /\ healthy = TRUE /\ restarting = FALSE
    /\ window = "closed" /\ started = FALSE
    /\ guarding = FALSE /\ harmed = FALSE

-----------------------------------------------------------------------------
(* Main.                                                                    *)

\* requestOtaSafetyAbort: asks once in a transfer, with its metrics.
RequestAbort(now) ==
    IF asked THEN UNCHANGED <<abort, asked, metrics>>
    ELSE abort' = TRUE /\ asked' = TRUE /\ metrics' = now

NoAbort == UNCHANGED <<abort, asked, metrics>>

\* refreshOtaRuntime and updateOtaLoopSafety, at the top of the loop.
WatchLoop ==
    /\ mainAt = "loop" /\ mainAt' = "sense"
    /\ fresh' = FALSE
    /\ \/ /\ snapshot \notin Transfer /\ measuring' = FALSE
          /\ metrics' = IF measuring THEN quality ELSE metrics
          /\ UNCHANGED <<quality, asked, abort>>
       \/ /\ snapshot \in Transfer /\ ~measuring /\ measuring' = TRUE
          /\ asked' = FALSE /\ quality' = "none" /\ metrics' = "none"
          /\ UNCHANGED abort
       \/ /\ snapshot \in Transfer /\ measuring
          /\ \/ UNCHANGED quality /\ NoAbort
             \/ quality' = "bad" /\ NoAbort
             \/ quality' = "bad" /\ RequestAbort("bad")
          /\ UNCHANGED measuring
    /\ harmed' = (harmed \/ (abort' /\ ~abort))
    /\ UNCHANGED <<openWanted, resultWanted, snapshot, queueVars, installVars, windowVars,
                   guarding, missed, at, goal>>

\* recordOtaMicrophoneWindow in sampleMicrophone.  A sixth invalid window in a
\* row asks for an abort, whatever their share is.
Listen ==
    \/ ~measuring /\ UNCHANGED quality /\ NoAbort
    \/ /\ measuring /\ NoAbort
       /\ quality' \in CASE quality = "none"  -> {"good", "share"}
                        [] quality = "bad"   -> {"bad"}
                        [] OTHER             -> {"good", "share"}
    \/ /\ measuring /\ quality # "none"
       /\ quality' \in IF quality = "good" THEN {"good", "share"} ELSE {quality}
       /\ RequestAbort(quality')

\* TelemetryQueue::push and TouchFeedbackQueue::push; a sample that is refused
\* is no loss.
Record ==
    \/ UNCHANGED <<queueVars, missed>>
    \/ LET room == critical + samples < Capacity
       IN  /\ critical' = IF room THEN critical + 1 ELSE critical
           /\ missed' = (missed \/ ~room)
           /\ UNCHANGED <<samples, feedback>>
    \/ /\ ~guarding /\ critical + samples < Capacity - Reserve
       /\ samples' = samples + 1
       /\ UNCHANGED <<critical, feedback, missed>>
    \/ LET room == feedback < FeedbackCapacity
       IN  /\ feedback' = IF room THEN feedback + 1 ELSE feedback
           /\ missed' = (missed \/ ~room)
           /\ UNCHANGED <<critical, samples>>

Sense ==
    /\ mainAt = "sense" /\ mainAt' = "publish"
    /\ Listen /\ Record
    /\ harmed' = (harmed \/ missed' \/ (abort' /\ ~abort))
    /\ UNCHANGED <<measuring, openWanted, resultWanted, snapshot, fresh,
                   installVars, windowVars, guarding, at, goal>>

\* publishOtaSafetyMetrics, at the bottom of the loop.
PublishMetrics ==
    /\ mainAt = "publish" /\ mainAt' = "loop"
    /\ metrics' = IF measuring THEN quality ELSE metrics
    /\ harmed' = (harmed \/ (measuring /\ quality = "bad" /\ at \in Streaming))
    /\ UNCHANGED <<measuring, quality, asked, openWanted, resultWanted, snapshot,
                   fresh, abort, queueVars, installVars, windowVars, guarding, missed, at, goal>>

\* pollDiagnosticsOtaGesture: the gesture opens the window; if a command waits
\* for it, the command's result will open it again.
Gesture ==
    /\ ~openWanted /\ openWanted' = TRUE
    /\ \E command \in BOOLEAN : resultWanted' = (resultWanted \/ command)
    /\ UNCHANGED <<mainVars, snapshot, fresh, metrics, abort, queueVars, installVars,
                   windowVars, guardVars, at, goal>>

Main == at # "restarted" /\ (WatchLoop \/ Sense \/ PublishMetrics \/ Gesture)

-----------------------------------------------------------------------------
(* Worker.                                                                  *)

\* effectiveOtaPhase: a window is shown only beside an idle or failed phase.
Effective(phase, shown) ==
    IF phase \in {"reboot", "running"} \/ shown \in {"closed", "succeeded"}
    THEN phase ELSE shown

Publish(phase) == snapshot' = phase /\ fresh' = TRUE

\* resetUpdateSafetyMetrics: also takes a new baseline and ends the guard.
ResetMetrics ==
    /\ metrics' = "none" /\ abort' = FALSE
    /\ guarding' = FALSE /\ missed' = FALSE

\* criticalQueuesSafeForOta.
QueuesSafe == guarding /\ ~missed /\ critical = 0 /\ feedback = 0

\* An abort that waits, read before the queues.
Undisturbed == ~abort /\ QueuesSafe

\* updateSafetyMetricsAcceptable.
Acceptable == metrics = "good"

At(step) == at = step /\ UNCHANGED <<mainVars, openWanted>>

(* Emptying the queues: prepareCriticalQueuesForOta, used five times.       *)

Empty(for) == at' = "drain" /\ goal' = for

DrainTelemetry ==
    /\ At("drain")
    /\ IF critical + samples = 0
       THEN at' = "corrections" /\ UNCHANGED queueVars
       ELSE /\ \E c \in 0..critical, s \in 0..samples :
                  c + s < critical + samples /\ critical' = c /\ samples' = s
            /\ UNCHANGED <<at, feedback>>
    /\ UNCHANGED <<goal, resultWanted, snapshot, fresh, metrics, abort, installVars,
                   windowVars, guardVars>>

DrainCorrections ==
    /\ At("corrections")
    /\ IF feedback = 0
       THEN at' = (IF critical + samples = 0 THEN "drained" ELSE "undrained")
            /\ UNCHANGED queueVars
       ELSE feedback' \in 0..(feedback - 1) /\ UNCHANGED <<at, critical, samples>>
    /\ UNCHANGED <<goal, resultWanted, snapshot, fresh, metrics, abort, installVars,
                   windowVars, guardVars>>

\* A freeze that fails takes nothing out of a queue that has something.
DrainFails ==
    /\ \/ At("drain") /\ critical + samples > 0
       \/ At("corrections") /\ feedback > 0
    /\ at' = "undrained"
    /\ UNCHANGED <<goal, resultWanted, snapshot, fresh, metrics, abort, queueVars,
                   installVars, windowVars, guardVars>>

Undrained(for) == At("undrained") /\ goal = for
Drained(for)   == At("drained") /\ goal = for

Arm == guarding' = TRUE /\ missed' = FALSE

-----------------------------------------------------------------------------
(* Worker: a production release, installDesiredRelease.                     *)

Keeps == goal' = "none" /\ UNCHANGED <<resultWanted, queueVars, windowVars>>

\* failProductionRelease; a staged release is taken back.
FailProduction(staged, damaged) ==
    /\ at' = "idle" /\ guarding' = FALSE /\ otaPhase' = "failed"
    /\ Publish(Effective("failed", window))
    /\ pending' = IF staged THEN "none" ELSE pending
    /\ healthy' \in IF damaged THEN {FALSE} ELSE IF staged THEN {healthy, FALSE} ELSE {healthy}
    /\ UNCHANGED <<selected, restarting, missed, harmed>>

BeginInstall ==
    /\ At("idle") /\ healthy /\ pending = "none" /\ ~started /\ Empty("install")
    /\ UNCHANGED <<resultWanted, snapshot, fresh, metrics, abort, queueVars, installVars,
                   windowVars, guardVars>>

InstallBlocked ==
    /\ Undrained("install") /\ FailProduction(FALSE, FALSE)
    /\ UNCHANGED <<metrics, abort>> /\ Keeps

InstallGuarded ==
    /\ Drained("install") /\ at' = "report"
    /\ metrics' = "none" /\ abort' = FALSE /\ Arm
    /\ otaPhase' = "downloading" /\ Publish("downloading")
    /\ UNCHANGED <<pending, selected, healthy, restarting, harmed>> /\ Keeps

\* A status report the server does not answer ends the attempt without one.
ReportUnanswered ==
    /\ At("report") \/ At("verify")
    /\ at' = "idle" /\ guarding' = FALSE /\ otaPhase' = "failed"
    /\ UNCHANGED <<snapshot, fresh, metrics, abort, pending, selected, healthy, restarting,
                   missed, harmed>> /\ Keeps

\* Something waits or was dropped, or the manifest is not there or not good.
RequestFails ==
    /\ \/ At("report") /\ ~QueuesSafe
       \/ At("manifest")
    /\ FailProduction(FALSE, FALSE)
    /\ UNCHANGED <<metrics, abort>> /\ Keeps

Reported ==
    /\ At("report") /\ QueuesSafe /\ at' = "manifest"
    /\ UNCHANGED <<snapshot, fresh, metrics, abort, installVars, guardVars>> /\ Keeps

ManifestVerified ==
    /\ At("manifest") /\ QueuesSafe /\ at' = "verify"
    /\ otaPhase' = "verifying" /\ Publish("verifying")
    /\ UNCHANGED <<metrics, abort, pending, selected, healthy, restarting, guardVars>> /\ Keeps

StageFails ==
    /\ At("verify") /\ FailProduction(FALSE, TRUE)
    /\ UNCHANGED <<metrics, abort>> /\ Keeps

Stage ==
    /\ At("verify") /\ pending' = "production" /\ Empty("stream")
    /\ UNCHANGED <<resultWanted, snapshot, fresh, metrics, abort, queueVars, otaPhase,
                   selected, healthy, restarting, windowVars, guardVars>>

StreamBlocked ==
    /\ Undrained("stream") /\ FailProduction(TRUE, FALSE)
    /\ UNCHANGED <<metrics, abort>> /\ Keeps

\* A fresh baseline: what was lost during the requests is not looked at again.
BeginStream ==
    /\ Drained("stream") /\ at' = "stream" /\ Arm /\ harmed' = FALSE
    /\ otaPhase' = "downloading" /\ Publish("downloading")
    /\ UNCHANGED <<metrics, abort, pending, selected, healthy, restarting>> /\ Keeps

\* streamProductionImage: before every chunk, and once more after the last.
Chunk ==
    /\ At("stream") /\ Undisturbed /\ at' \in {"stream", "written"}
    /\ UNCHANGED <<snapshot, fresh, metrics, abort, installVars, guarding, missed, harmed>> /\ Keeps

\* consumeSafetyAbort; what it leaves in lastSafetyMetrics_ is reset before
\* anything reads it.
ConsumeAbort == abort' = FALSE

\* Given up at a check, or between two for the network's or flash's sake.
GivesUp == abort' \in {FALSE, abort}

StreamFails ==
    /\ At("stream") /\ GivesUp /\ FailProduction(TRUE, FALSE) /\ UNCHANGED metrics /\ Keeps

\* The measurements an image is accepted on: after its last byte, after it is
\* complete, and after its acceptance was written to flash.
\* A faulty variant that goes by the metrics only; no action uses it.
MutPasses == QueuesSafe /\ Acceptable

Passes == Undisturbed /\ Acceptable

Gate ==
    /\ \/ At("written") /\ at' = "finished"
       \/ At("finished") /\ at' = "accepted"
       \/ At("accepted") /\ at' = "select"
    /\ Passes
    /\ UNCHANGED <<snapshot, fresh, metrics, abort, installVars, guarding, missed, harmed>> /\ Keeps

\* A gate that is not passed, an image that is incomplete or another one.
GateFails ==
    /\ At("written") \/ At("finished") \/ (At("accepted") /\ ~Passes)
    /\ ConsumeAbort /\ FailProduction(TRUE, FALSE) /\ UNCHANGED metrics /\ Keeps

\* The accepted journal cannot be written, or the slot cannot be selected.
AcceptFails ==
    /\ (At("finished") /\ Passes) \/ At("select")
    /\ FailProduction(FALSE, TRUE)
    /\ UNCHANGED <<metrics, abort>> /\ Keeps

Select ==
    /\ At("select") /\ selected' = TRUE /\ restarting' = TRUE
    /\ otaPhase' = "reboot" /\ Publish("reboot") /\ Empty("restart")
    /\ UNCHANGED <<resultWanted, metrics, abort, queueVars, pending, healthy, windowVars,
                   guardVars>>

-----------------------------------------------------------------------------
(* Worker: the development window.                                          *)

KeepsQueues == UNCHANGED <<queueVars, selected, restarting>>

KeepsRest == goal' = "none" /\ KeepsQueues

\* The guards of openDevelopmentWindow: no pending image, flash that works.
MayOpen == healthy /\ pending = "none" /\ window # "uploading"

Opens(for) ==
    /\ MayOpen /\ window' = "open" /\ Empty(for)
    /\ UNCHANGED <<otaPhase, guardVars>>

\* Refused, or no network to open it on.
OpenRefused(phase) ==
    otaPhase' = phase /\ UNCHANGED <<window, at, goal, guardVars>>

\* takePhysicallyConfirmedDevelopmentOpen.
TakeGesture ==
    /\ at = "idle" /\ ~restarting /\ openWanted /\ openWanted' = FALSE
    /\ Opens("open") \/ OpenRefused("failed")
    /\ UNCHANGED <<mainVars, resultWanted, snapshot, fresh, metrics, abort, pending, healthy,
                   started>> /\ KeepsQueues

\* serviceMainControlResult: the confirmed command opens the window again.
TakeResult ==
    /\ At("idle") /\ resultWanted /\ resultWanted' = FALSE
    /\ Opens("reopen") \/ OpenRefused(otaPhase)
    /\ UNCHANGED <<snapshot, fresh, metrics, abort, pending, healthy, started>> /\ KeepsQueues

OpenBlocked ==
    /\ Undrained("open") \/ Undrained("reopen")
    /\ at' = "idle" /\ window' = "closed"
    /\ otaPhase' = IF goal = "open" THEN "failed" ELSE otaPhase
    /\ UNCHANGED <<resultWanted, snapshot, fresh, metrics, abort, pending, healthy, started,
                   guardVars>> /\ KeepsRest

StartService ==
    /\ Drained("open") \/ Drained("reopen")
    /\ at' = "idle" /\ started' = TRUE /\ ResetMetrics
    /\ UNCHANGED <<resultWanted, snapshot, fresh, otaPhase, pending, healthy, window, harmed>>
    /\ KeepsRest

\* ArduinoOTA.handle() answers an invitation; it returns after the upload.
Invited ==
    /\ At("idle") /\ started /\ window = "open" /\ ~restarting /\ Empty("upload")
    /\ UNCHANGED <<resultWanted, snapshot, fresh, metrics, abort, queueVars, installVars,
                   windowVars, guardVars>>

FailUpload ==
    at' = "failing" /\ window' = "failed"

UploadBlocked ==
    /\ Undrained("upload") /\ FailUpload
    /\ UNCHANGED <<resultWanted, snapshot, fresh, metrics, abort, otaPhase, pending, healthy,
                   started, guardVars>> /\ KeepsRest

\* developmentSafetyAbortCheck, the first time: the journal, then the guard.
JournalUpload ==
    /\ Drained("upload")
    /\ \/ FailUpload /\ healthy' = FALSE /\ UNCHANGED <<pending, guarding, missed, harmed>>
       \/ /\ at' = "guarded" /\ pending' = "development" /\ Arm /\ harmed' = FALSE
          /\ UNCHANGED <<window, healthy>>
    /\ UNCHANGED <<resultWanted, snapshot, fresh, metrics, abort, otaPhase, started>> /\ KeepsRest

\* handleStart and handleProgress: the abort, the queues, the progress itself.
UploadContinues ==
    /\ At("guarded") \/ At("upload")
    /\ Undisturbed /\ at' = "upload" /\ window' = "uploading"
    /\ Publish(Effective(otaPhase, "uploading"))
    /\ UNCHANGED <<resultWanted, metrics, abort, otaPhase, pending, healthy, started, guarding,
                   missed, harmed>> /\ KeepsRest

UploadFails ==
    /\ \/ At("guarded") /\ ~Undisturbed /\ ConsumeAbort
       \/ At("upload") /\ GivesUp
    /\ FailUpload
    /\ UNCHANGED <<resultWanted, snapshot, fresh, metrics, otaPhase, pending, healthy, started,
                   guarding, missed, harmed>> /\ KeepsRest

\* The library reports progress once more after a failed start: the check runs
\* again, and may arm the guard, before the progress is refused.
ReportsAgain ==
    /\ At("failing") /\ ~guarding /\ Empty("late")
    /\ UNCHANGED <<resultWanted, snapshot, fresh, metrics, abort, queueVars, installVars,
                   windowVars, guardVars>>

ArmedTooLate ==
    /\ at' = "failing" /\ UNCHANGED mainVars /\ UNCHANGED openWanted
    /\ \/ /\ at = "undrained" /\ goal = "late"
          /\ UNCHANGED <<pending, healthy, guarding, missed>>
       \/ /\ at = "drained" /\ goal = "late"
          /\ \/ pending # "development" /\ healthy' = FALSE
                /\ UNCHANGED <<pending, guarding, missed>>
             \/ pending' = "development" /\ Arm /\ UNCHANGED healthy
    /\ UNCHANGED <<resultWanted, snapshot, fresh, metrics, abort, otaPhase, windowVars,
                   harmed>> /\ KeepsRest

\* Update.end() selects the image; only then is it judged.
UploadEnds ==
    /\ At("upload") /\ at' = "complete" /\ selected' = TRUE
    /\ UNCHANGED <<resultWanted, snapshot, fresh, metrics, abort, queueVars, otaPhase, pending,
                   healthy, restarting, windowVars, guardVars>>
    /\ goal' = "none"

\* developmentCompletionCheck.
CompletionPasses ==
    /\ At("complete") /\ Passes /\ at' = "closing" /\ window' = "succeeded"
    /\ UNCHANGED <<resultWanted, snapshot, fresh, metrics, abort, otaPhase, pending, healthy, started,
                   guarding, missed, harmed>> /\ KeepsRest

CompletionRejects ==
    /\ At("complete") /\ at' = "closing" /\ window' = "failed"
    /\ ConsumeAbort /\ guarding' = FALSE
    /\ UNCHANGED <<resultWanted, snapshot, fresh, metrics, otaPhase, pending, healthy, started,
                   missed, harmed>> /\ KeepsRest

\* A faulty variant that forgets the guard; no action uses it.
MutStopService == started' = FALSE /\ UNCHANGED guarding

StopService == started' = FALSE /\ guarding' = FALSE

\* serviceDevelopmentOta after a failed upload: the journal is cleared unless
\* the image is selected already.
CloseFailed ==
    /\ At("failing") \/ (At("closing") /\ window = "failed")
    /\ at' = "idle" /\ otaPhase' = "failed" /\ StopService
    /\ IF pending = "development" /\ ~selected
       THEN \/ pending' = "none" /\ UNCHANGED healthy
            \/ healthy' = FALSE /\ UNCHANGED pending
       ELSE UNCHANGED <<pending, healthy>>
    /\ UNCHANGED <<resultWanted, snapshot, fresh, metrics, abort, queueVars, selected,
                   restarting, window, missed, harmed>>
    /\ goal' = "none"

CloseSucceeded ==
    /\ At("closing") /\ window = "succeeded"
    /\ started' = FALSE /\ restarting' = TRUE
    /\ otaPhase' = "reboot" /\ Publish("reboot") /\ Empty("restart")
    /\ UNCHANGED <<resultWanted, metrics, abort, queueVars, pending, selected, healthy, window,
                   guardVars>>

\* The deadline, or a second opening that did not succeed.
CloseWindow ==
    /\ At("idle") /\ started /\ ~restarting /\ window \in {"open", "closed"}
    /\ window' = "closed" /\ StopService
    /\ UNCHANGED <<resultWanted, snapshot, fresh, metrics, abort, queueVars, installVars,
                   missed, harmed, at, goal>>

LoseNetwork ==
    /\ At("idle") /\ started /\ ~restarting
    /\ window' = "closed" /\ StopService /\ otaPhase' = "failed"
    /\ UNCHANGED <<resultWanted, snapshot, fresh, metrics, abort, queueVars, pending, selected,
                   healthy, restarting, missed, harmed, at, goal>>

\* serviceOtaRuntime consumes an abort that no transfer consumed.
ServiceAbort ==
    /\ At("idle") /\ ~restarting /\ abort /\ ConsumeAbort
    /\ otaPhase' = "failed"
    /\ IF started THEN window' = "failed" /\ StopService
       ELSE UNCHANGED <<window, started, guarding>>
    /\ UNCHANGED <<resultWanted, snapshot, fresh, metrics, queueVars, pending, selected, healthy,
                   restarting, missed, harmed, at, goal>>

-----------------------------------------------------------------------------
(* Worker: the rest of its loop.                                            *)

\* freezeQueueIfNeeded and freezeFeedbackQueueIfNeeded.
Freeze ==
    /\ At("idle") /\ critical + samples + feedback > 0
    /\ critical' \in 0..critical /\ samples' \in 0..samples /\ feedback' \in 0..feedback
    /\ UNCHANGED <<resultWanted, snapshot, fresh, metrics, abort, installVars, windowVars,
                   guardVars, at, goal>>

PublishActivity ==
    /\ At("idle") /\ Publish(Effective(otaPhase, window))
    /\ UNCHANGED <<resultWanted, metrics, abort, queueVars, installVars, windowVars, guardVars,
                   at, goal>>

TryRestart ==
    /\ At("idle") /\ restarting /\ Empty("restart")
    /\ UNCHANGED <<resultWanted, snapshot, fresh, metrics, abort, queueVars, installVars,
                   windowVars, guardVars>>

RestartBlocked ==
    /\ Undrained("restart") /\ at' = "idle"
    /\ UNCHANGED <<resultWanted, snapshot, fresh, metrics, abort, queueVars, installVars,
                   windowVars, guardVars>>
    /\ goal' = "none"

\* What main puts into a queue between the last look and this is lost.
Restart ==
    /\ Drained("restart") /\ at' = "restarted"
    /\ UNCHANGED <<resultWanted, snapshot, fresh, metrics, abort, queueVars, installVars,
                   windowVars, guardVars>>
    /\ goal' = "none"

Draining == DrainTelemetry \/ DrainCorrections \/ DrainFails

Production ==
    \/ BeginInstall \/ InstallBlocked \/ InstallGuarded \/ ReportUnanswered \/ RequestFails
    \/ Reported \/ ManifestVerified \/ StageFails \/ Stage \/ StreamBlocked \/ BeginStream
    \/ Chunk \/ StreamFails \/ Gate \/ GateFails \/ AcceptFails \/ Select

Development ==
    \/ TakeGesture \/ TakeResult \/ OpenBlocked \/ StartService \/ Invited \/ UploadBlocked
    \/ JournalUpload \/ UploadContinues \/ UploadFails \/ ReportsAgain \/ ArmedTooLate
    \/ UploadEnds \/ CompletionPasses \/ CompletionRejects \/ CloseFailed \/ CloseSucceeded
    \/ CloseWindow \/ LoseNetwork \/ ServiceAbort

Loop == Freeze \/ PublishActivity \/ TryRestart \/ RestartBlocked \/ Restart

GuardNext == Main \/ Draining \/ Production \/ Development \/ Loop

GuardSpec == GuardInit /\ [][GuardNext]_transferVars

-----------------------------------------------------------------------------

GuardTypeOK ==
    /\ mainAt \in {"loop", "sense", "publish"} /\ quality \in {"none", "good", "share", "bad"}
    /\ metrics \in {"none", "good", "share", "bad"}
    /\ critical + samples \in 0..Capacity /\ feedback \in 0..FeedbackCapacity
    /\ pending \in {"none", "production", "development"}
    /\ window \in {"closed", "open", "uploading", "failed", "succeeded"}

\* An image passes a gate only if, since the baseline of its transfer, main
\* dropped no critical record and no correction, asked for no abort and
\* published no gap over the limit; whatever main and the worker did in between,
\* and also when another transfer or window went before.
AcceptedUnharmed ==
    [][(at' # at /\ at' \in {"finished", "accepted", "select"})
            \/ (window' = "succeeded" /\ window # "succeeded")
       => ~harmed]_transferVars

\* No way out of a transfer leaves samples refused, and no window is shown open
\* that nothing listens on: between two of its tasks the worker guards the
\* queues only if it is about to restart into an accepted image.
NothingLeftOn ==
    at = "idle" => /\ guarding => restarting
                   /\ window \in {"open", "uploading"} => started

\* "Instrumentation records the maximum main-loop gap and invalid microphone
\* windows during both production and development updates": once main has read
\* what the worker published during an upload, it measures.
UploadsMeasured == at = "upload" /\ ~fresh => measuring

=============================================================================
