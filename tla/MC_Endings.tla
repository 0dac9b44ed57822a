----------------------------- MODULE MC_Endings -----------------------------
(* Liveness of three components, each in an instance small enough for TLC:  *)
(* the spool and the configuration, the queue of commands, the selected     *)
(* release under two power losses and two failing flash writes.  They share *)
(* no state, so a behaviour is one of a single component, chosen at its     *)
(* start, while the others stay as they were.                               *)
EXTENDS TelemetryPipeline

CONSTANTS Factory, Development, Torn, NoRelease, r1, s1, s2

VARIABLES
    part,
    row, acks, record, step, stopped, restartAfter, call, reply, journal,
    acksUnderWay, slot, mainActive, reboots, effects,
    image, otadata, selected, install, running, validator, noticed, notice,
    snapshot, at, installState, healthy, pendingRun, due, desired, outcome,
    staged, server, rows, used, passed, answered

spoolVars ==
    <<boot, usedBoots, queue, recordSeq, mainConfig, box, ackedRevision, work,
      prefix, post, answer, active, pending, anchor, probe, halted, stored, spool,
      dead, wire, db, backup, restores, frozen, delivered, evicted>>
commandVars ==
    <<row, acks, record, step, stopped, restartAfter, call, reply, journal,
      acksUnderWay, slot, mainActive, reboots, effects>>
releaseVars ==
    <<image, otadata, selected, install, running, validator, noticed, notice,
      snapshot, at, installState, healthy, pendingRun, due, desired, outcome,
      staged, server, rows, used, passed, answered>>
all == <<part, spoolVars, commandVars, releaseVars>>

\* Commands of the main loop, of which one may find the mailbox taken, and
\* commands of the worker alone.
ForMain == INSTANCE ControlCommand WITH
    MaxCommands <- 2, MaxLeases <- 1, MaxReboots <- 0,
    StorageFaults <- FALSE, ActionOf <- <<"recalibrate", "open_dev_ota">>,
    halted <- stopped, wire <- acksUnderWay

ForWorker == INSTANCE ControlCommand WITH
    MaxCommands <- 2, MaxLeases <- 1, MaxReboots <- 0,
    StorageFaults <- FALSE, ActionOf <- <<"local", "reboot">>,
    halted <- stopped, wire <- acksUnderWay

Manifest(signed) == [of |-> r1, parses |-> TRUE, trusted |-> TRUE, signed |-> signed]

Release == INSTANCE OtaInstall WITH
    Releases <- {r1}, CounterOf <- [r \in {r1} |-> 1],
    Slots <- {s1, s2},
    MaxPowerLosses <- 2, MaxFaults <- 2, MaxSelections <- 1, MaxDevelopment <- 0,
    Manifests <- {Manifest(TRUE), Manifest(FALSE)},
    boot <- selected, journal <- install, install <- installState,
    main <- validator, step <- at

SumInit ==
    /\ part \in {"spool", "main command", "worker command", "release"}
    /\ Init /\ ForMain!Init /\ Release!Init

InSpool(A)   == part = "spool"   /\ A /\ UNCHANGED <<part, commandVars, releaseVars>>
InRelease(A) == part = "release" /\ A /\ UNCHANGED <<part, spoolVars, commandVars>>
InCommand(A, B) ==
    /\ \/ part = "main command" /\ A
       \/ part = "worker command" /\ B
    /\ UNCHANGED <<part, spoolVars, releaseVars>>

SumNext ==
    InSpool(Next) \/ InCommand(ForMain!Next, ForWorker!Next) \/ InRelease(Release!Next)

(* Both loops of the device run for ever and time passes: a step that stays *)
(* possible is taken.  Flash and network fail, but not for ever: a step     *)
(* that can be tried again and again succeeds one day.  No download has to  *)
(* succeed and no image has to work.  The strong conditions of the three    *)
(* components are written as one each, because part never changes and TLC's *)
(* work doubles with every one of them.                                     *)
SumFairSpec ==
    /\ SumInit /\ [][SumNext]_all
    /\ WF_all(InSpool(ApplyPendingConfig))
    /\ WF_all(InSpool(SynchronizeAppliedConfig))
    /\ WF_all(InSpool(CommitPrefix))
    /\ WF_all(InSpool(BeginFreeze))
    /\ WF_all(InSpool(BeginConflictProbe))
    /\ WF_all(InSpool(GiveUp))
    /\ WF_all(InSpool(AnyIngest))
    /\ WF_all(InCommand(ForMain!LeaseLapses, ForWorker!LeaseLapses))
    /\ WF_all(InCommand(ForMain!CommandFallsDue, ForWorker!CommandFallsDue))
    /\ WF_all(InCommand(ForMain!HandlePolledCommand, ForWorker!HandlePolledCommand))
    /\ WF_all(InCommand(ForMain!PostAck, ForWorker!PostAck))
    /\ WF_all(InCommand(ForMain!Answered, ForWorker!Answered))
    /\ WF_all(InCommand(ForMain!GiveUp, ForWorker!GiveUp))
    /\ WF_all(InCommand(ForMain!AcceptedAcknowledged, ForWorker!AcceptedAcknowledged))
    /\ WF_all(InCommand(ForMain!FinalAcknowledged, ForWorker!FinalAcknowledged))
    /\ WF_all(InCommand(ForMain!ExecuteInWorker, ForWorker!ExecuteInWorker))
    /\ WF_all(InCommand(ForMain!ExecuteInMain, ForWorker!ExecuteInMain))
    /\ WF_all(InCommand(ForMain!ServiceMainControlResult, ForWorker!ServiceMainControlResult))
    /\ WF_all(InCommand(ForMain!TakeRequest, ForWorker!TakeRequest))
    /\ WF_all(InCommand(ForMain!ConfirmationTimesOut, ForWorker!ConfirmationTimesOut))
    /\ WF_all(InRelease(Release!Start))
    /\ WF_all(InRelease(Release!PublishSnapshot))
    /\ WF_all(InRelease(Release!Notices))
    /\ WF_all(InRelease(Release!ValidatorPolls))
    /\ WF_all(InRelease(Release!Reports))
    /\ WF_all(InRelease(Release!Production))
    /\ WF_all(InRelease(Release!Restart))
    /\ WF_all(InRelease(Release!UploadCloses))
    /\ SF_all(InSpool(RenameEnvelope)
              \/ InCommand(ForMain!Poll, ForWorker!Poll)
              \/ InRelease(Release!BeginsRelease))
    /\ SF_all(InSpool(PostEnvelope)
              \/ InCommand(ForMain!PollControl, ForWorker!PollControl)
              \/ InRelease(Release!StagesRelease))
    /\ SF_all(InSpool(IngestAnswered)
              \/ InRelease(Release!EndStored))
    /\ SF_all(InSpool(RemoveAcked))
    /\ SF_all(InSpool(PollRemoteConfig))
    /\ SF_all(InSpool(GetConfig))
    /\ SF_all(InSpool(AdoptsConfig))

-----------------------------------------------------------------------------

\* SpoolDrains and ConfigConverges are TelemetryPipeline's own.

\* The console never waits for ever for a command to be picked up or expire.
CommandLeavesQueue == ForMain!CommandLeavesQueue

\* A selected release is reported as running, failed, rejected or rolled back,
\* unless the device can no longer write its install state.
SelectionEnds == Release!SelectionEnds

=============================================================================
