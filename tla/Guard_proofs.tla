---------------------------- MODULE Guard_proofs ----------------------------
(***************************************************************************)
(* The two-slot store implements the atomic store, for every set of values, *)
(* every assignment of stamps to them and either treatment of equal values. *)
(* StoreInv is inductive as it stands; the refinement needs of it that the  *)
(* slot being written is never one a load would have to rely on.            *)
(*                                                                         *)
(* Around the transfer of an image, for every capacity of the queues: no    *)
(* ending leaves the guard or the window on, because each step of a task    *)
(* still has what its ending relies on; and no gate lets an image pass that *)
(* main was harmed by, because each harm leaves a mark (an abort, a drop, a *)
(* gap in the metrics) that lasts until the next transfer.                  *)
(***************************************************************************)
EXTENDS TwoSlotStore, OtaGuard, TLAPS

-----------------------------------------------------------------------------
(* The store.                                                              *)

\* What a load returns depends on nothing but flash.
LEMMA LoadedFromFlash ==
    ASSUME UNCHANGED <<slots, marker>>
    PROVE  Loaded' = Loaded /\ Target' = Target
BY DEF Loaded, Selected, NewestSlot, MarkedSlot, Readable, Target

-----------------------------------------------------------------------------
(* StoreInv is an invariant.                                               *)

\* Nothing is stored and nothing is under way at first.
LEMMA StoreInit == Init => StoreInv
BY TwoSlotAssumption DEF Init, StoreInv, NoSlot, Readable

\* Every step keeps it.
LEMMA StoreNext == StoreInv /\ [Next]_vars => StoreInv'
<1> SUFFICES ASSUME StoreInv, [Next]_vars PROVE StoreInv'
    OBVIOUS
<1> USE TwoSlotAssumption DEF StoreInv, NoSlot, Readable
<1>1. CASE BeginSave
    <2>1. Target' = Target
        BY <1>1, LoadedFromFlash DEF BeginSave
    <2>2. Target \in {0, 1}
        BY DEF Target
    <2> QED BY <1>1, <2>1, <2>2 DEF BeginSave
<1>2. CASE WriteSlot
    <2>1. marker # target
        BY <1>2 DEF WriteSlot, Target, Selected, MarkedSlot, NewestSlot
    <2> QED BY <1>2, <2>1 DEF WriteSlot
<1>3. CASE Verify
    BY <1>3 DEF Verify
<1>4. CASE WriteMarker
    BY <1>4 DEF WriteMarker
<1>5. CASE ReturnOk
    BY <1>5 DEF ReturnOk
<1>6. CASE Interrupt
    <2>1. CASE UNCHANGED <<slots, marker>>
        BY <1>6, <2>1 DEF Interrupt
    <2>2. CASE step = "write"
        <3>1. marker # target
            BY <2>2 DEF Target, Selected, MarkedSlot, NewestSlot
        <3> QED BY <1>6, <2>2, <3>1 DEF Interrupt
    <2>3. CASE step = "mark" /\ marker' = target /\ UNCHANGED slots
        BY <1>6, <2>3 DEF Interrupt
    <2> QED BY <1>6, <2>1, <2>2, <2>3 DEF Interrupt
<1>7. CASE UNCHANGED vars
    <2>1. Target' = Target
        BY <1>7, LoadedFromFlash DEF vars
    <2> QED BY <1>7, <2>1 DEF vars
<1> QED BY <1>1, <1>2, <1>3, <1>4, <1>5, <1>6, <1>7 DEF Next

\* At every moment of every save the marker points at a readable slot which is
\* not the one being written (saveStoredDeviceConfig, saveCommandJournalRecord).
THEOREM StoreCorrect == Spec => []StoreInv
BY StoreInit, StoreNext, PTL DEF Spec

-----------------------------------------------------------------------------
(* The refinement.                                                         *)

\* Writing the target slot shows a load the old value or the new one.
LEMMA WriteShowsOldOrNew ==
    ASSUME StoreInv, step = "write", UNCHANGED marker,
           NEW blob \in {saving, Torn}, slots' = [slots EXCEPT ![target] = blob]
    PROVE  Loaded' \in {Loaded, saving}
<1> USE TwoSlotAssumption DEF StoreInv, NoSlot, Readable
<1>1. saving \in Values
    OBVIOUS
<1>2. CASE marker # NoSlot
    BY <1>2 DEF Loaded, Selected, MarkedSlot, Target
<1>3. CASE marker = NoSlot /\ Selected = 0
    BY <1>1, <1>3 DEF Loaded, Selected, NewestSlot, Target
<1>4. CASE marker = NoSlot /\ Selected # 0
    BY <1>1, <1>4 DEF Loaded, Selected, NewestSlot, Target
<1> QED BY <1>2, <1>3, <1>4

\* Marking the verified slot shows a load the new value.
LEMMA MarkShowsNew ==
    ASSUME StoreInv, step = "mark", marker' = target, UNCHANGED slots
    PROVE  Loaded' = saving
BY TwoSlotAssumption
   DEF StoreInv, NoSlot, Readable, Loaded, Selected, MarkedSlot

\* A marked and verified slot is what a load returns.
LEMMA DoneShowsNew == StoreInv /\ step = "done" => Loaded = saving
BY TwoSlotAssumption
   DEF StoreInv, NoSlot, Readable, Loaded, Selected, MarkedSlot

\* The empty store maps to the empty store.
LEMMA InitAtomic == Init => Atomic!Init
BY TwoSlotAssumption
   DEF Init, Atomic!Init, Loaded, Selected, NewestSlot, Readable, NoSlot

\* Every step maps to a step of the atomic store or to a stutter.
LEMMA NextAtomic == StoreInv /\ [Next]_vars => [Atomic!Next]_(Atomic!vars)
<1> SUFFICES ASSUME StoreInv, [Next]_vars
             PROVE  [Atomic!Next]_(Atomic!vars)
    OBVIOUS
<1> USE DEF Atomic!Next, Atomic!vars
<1>1. CASE BeginSave
    <2>1. Loaded' = Loaded
        BY <1>1, LoadedFromFlash DEF BeginSave
    <2>2. Atomic!Begin
        BY <1>1, <2>1 DEF BeginSave, Atomic!Begin, StoreInv
    <2> QED BY <2>2
<1>2. CASE WriteSlot
    <2>1. Loaded' \in {Loaded, saving}
        BY <1>2, WriteShowsOldOrNew DEF WriteSlot
    <2>2. saving # None /\ saving' = saving
        BY <1>2 DEF WriteSlot, StoreInv
    <2> QED BY <2>1, <2>2 DEF Atomic!TakeEffect
<1>3. CASE Verify
    BY <1>3, LoadedFromFlash DEF Verify
<1>4. CASE WriteMarker
    <2>1. Loaded' = saving
        BY <1>4, MarkShowsNew DEF WriteMarker
    <2>2. saving # None /\ saving' = saving
        BY <1>4 DEF WriteMarker, StoreInv
    <2> QED BY <2>1, <2>2 DEF Atomic!TakeEffect
<1>5. CASE ReturnOk
    <2>1. Loaded' = Loaded /\ Loaded = saving
        BY <1>5, LoadedFromFlash, DoneShowsNew DEF ReturnOk
    <2>2. saving # None /\ saving' = None
        BY <1>5 DEF ReturnOk, StoreInv
    <2> QED BY <2>1, <2>2 DEF Atomic!Succeed
<1>6. CASE Interrupt
    <2>1. saving # None /\ saving' = None
        BY <1>6 DEF Interrupt, StoreInv
    <2>2. Loaded' \in {Loaded, saving}
        <3>1. CASE UNCHANGED <<slots, marker>>
            BY <3>1, LoadedFromFlash
        <3>2. CASE /\ step = "write" /\ UNCHANGED marker
                   /\ \E blob \in {saving, Torn} :
                          slots' = [slots EXCEPT ![target] = blob]
            BY <3>2, WriteShowsOldOrNew
        <3>3. CASE step = "mark" /\ marker' = target /\ UNCHANGED slots
            BY <3>3, MarkShowsNew
        <3> QED BY <1>6, <3>1, <3>2, <3>3 DEF Interrupt
    <2> QED BY <2>1, <2>2 DEF Atomic!Interrupt
<1>7. CASE UNCHANGED vars
    BY <1>7, LoadedFromFlash DEF vars
<1> QED BY <1>1, <1>2, <1>3, <1>4, <1>5, <1>6, <1>7 DEF Next

\* The store of configurations and that of journal records are atomic: an
\* interrupted save is entirely there after a restart or not at all, a save
\* that returned kOk is, and no load changes without a save.
THEOREM StoreIsAtomic == Spec => ImplementsAtomicStore
BY InitAtomic, NextAtomic, StoreCorrect, PTL
   DEF Spec, ImplementsAtomicStore, Atomic!Spec

-----------------------------------------------------------------------------
(* The transfer: the inductive invariant.                                  *)

Emptying == {"drain", "corrections", "drained", "undrained"}
Showing == {"open", "uploading"}
OfProduction == {"report", "manifest", "verify", "stream", "written", "finished", "accepted",
                 "select"}
Staged == {"stream", "written", "finished", "accepted", "select"}
OfUpload == {"guarded", "upload", "complete"}

\* The types; what waits in the queues is within their capacities.
GuardTypes ==
    /\ mainAt \in {"loop", "sense", "publish"} /\ quality \in {"none", "good", "share", "bad"}
    /\ metrics \in {"none", "good", "share", "bad"}
    /\ critical \in Nat /\ samples \in Nat /\ critical + samples <= Capacity
    /\ feedback \in 0..FeedbackCapacity
    /\ pending \in {"none", "production", "development"}
    /\ window \in {"closed", "open", "uploading", "failed", "succeeded"}

\* What the worker's tasks have left to end well.
Ended ==
    /\ guarding => restarting
    /\ window \in Showing => started

\* Once the restart is due, nothing but it is under way, and each step of a task
\* still has what its ending relies on.
EndingInv ==
    /\ restarting => /\ pending # "none"
                     /\ at \in {"idle", "restarted"} \/ (at \in Emptying /\ goal = "restart")
    /\ at = "idle" \/ (at \in Emptying /\ goal = "restart") => Ended
    /\ at \in Emptying =>
           /\ goal \in {"install", "stream"} => window \notin Showing
           /\ goal = "stream" => pending = "production"
           /\ goal \in {"open", "reopen", "upload"} => ~guarding
           /\ goal = "late" => window = "failed"
    /\ at \in OfProduction => window \notin Showing
    /\ at \in Staged => pending = "production"
    /\ at = "failing" => window = "failed"
    /\ at \in OfUpload => pending = "development"
    /\ at = "closing" => pending = "development" /\ window \in {"failed", "succeeded"}

\* A gap over the limit was measured, and main cannot start its counters anew.
GapKept ==
    /\ metrics = "bad" /\ (measuring => quality = "bad")
    /\ measuring \/ snapshot \notin Transfer

\* Of what was lost or measured since the stream began one mark is left which no
\* gate passes: an abort, a drop, or the gap.
HarmInv ==
    /\ at = "guarded" /\ harmed => abort \/ missed
    /\ at \in Streaming /\ harmed => abort \/ missed \/ GapKept
    /\ at \in {"upload", "complete"} => snapshot = Effective(otaPhase, "uploading")

GuardInv == GuardTypes /\ EndingInv /\ HarmInv

-----------------------------------------------------------------------------
(* The transfer: every task ends well.                                     *)

LEMMA MainKeepsEnding ==
    ASSUME EndingInv, Main
    PROVE  EndingInv'
BY DEF EndingInv, Main, WatchLoop, Sense, PublishMetrics, Gesture, installVars, windowVars,
       guardVars, Ended, Emptying, Showing, OfProduction, Staged, OfUpload

\* Emptying the queues, and the worker's loop between its tasks.
LEMMA LoopKeepsEnding ==
    ASSUME EndingInv, Draining \/ Loop
    PROVE  EndingInv'
<1> USE DEF EndingInv, Ended, Emptying, Showing, OfProduction, Staged, OfUpload, At,
            Undrained, Drained, Empty
<1>1. CASE DrainTelemetry
    BY <1>1 DEF DrainTelemetry, installVars, windowVars, guardVars
<1>2. CASE DrainCorrections
    BY <1>2 DEF DrainCorrections, installVars, windowVars, guardVars
<1>3. CASE DrainFails
    BY <1>3 DEF DrainFails, installVars, windowVars, guardVars
<1>4. CASE Freeze \/ PublishActivity
    BY <1>4 DEF Freeze, PublishActivity, installVars, windowVars, guardVars
<1>5. CASE TryRestart
    BY <1>5 DEF TryRestart, installVars, windowVars, guardVars
<1>6. CASE RestartBlocked \/ Restart
    BY <1>6 DEF RestartBlocked, Restart, installVars, windowVars, guardVars
<1> QED BY <1>1, <1>2, <1>3, <1>4, <1>5, <1>6 DEF Draining, Loop

LEMMA ProductionKeepsEnding ==
    ASSUME EndingInv, Production
    PROVE  EndingInv'
<1> USE DEF EndingInv, Ended, Emptying, Showing, OfProduction, Staged, OfUpload, At,
            Undrained, Drained, Empty, Keeps, windowVars
<1>1. CASE BeginInstall
    BY <1>1 DEF BeginInstall, installVars, guardVars
<1>2. CASE InstallBlocked
    BY <1>2 DEF InstallBlocked, FailProduction
<1>3. CASE InstallGuarded
    BY <1>3 DEF InstallGuarded
<1>4. CASE ReportUnanswered
    BY <1>4 DEF ReportUnanswered
<1>5. CASE RequestFails
    BY <1>5 DEF RequestFails, FailProduction
<1>6. CASE Reported
    BY <1>6 DEF Reported, installVars
<1>7. CASE ManifestVerified
    BY <1>7 DEF ManifestVerified
<1>8. CASE StageFails
    BY <1>8 DEF StageFails, FailProduction
<1>9. CASE Stage
    BY <1>9 DEF Stage
<1>10. CASE StreamBlocked
    BY <1>10 DEF StreamBlocked, FailProduction
<1>11. CASE BeginStream
    BY <1>11 DEF BeginStream
<1>12. CASE Chunk
    BY <1>12 DEF Chunk, installVars
<1>13. CASE StreamFails
    BY <1>13 DEF StreamFails, FailProduction
<1>14. CASE Gate
    BY <1>14 DEF Gate, installVars
<1>15. CASE GateFails
    BY <1>15 DEF GateFails, FailProduction
<1>16. CASE AcceptFails
    BY <1>16 DEF AcceptFails, FailProduction
<1>17. CASE Select
    BY <1>17 DEF Select
<1> QED BY <1>1, <1>2, <1>3, <1>4, <1>5, <1>6, <1>7, <1>8, <1>9, <1>10, <1>11, <1>12, <1>13,
           <1>14, <1>15, <1>16, <1>17 DEF Production

LEMMA DevelopmentKeepsEnding ==
    ASSUME EndingInv, Development
    PROVE  EndingInv'
<1> USE DEF EndingInv, Ended, Emptying, Showing, OfProduction, Staged, OfUpload, At,
            Undrained, Drained, Empty, KeepsRest, KeepsQueues
<1>1. CASE TakeGesture
    BY <1>1 DEF TakeGesture, Opens, OpenRefused, MayOpen, guardVars
<1>2. CASE TakeResult
    BY <1>2 DEF TakeResult, Opens, OpenRefused, MayOpen, guardVars
<1>3. CASE OpenBlocked
    BY <1>3 DEF OpenBlocked, guardVars
<1>4. CASE StartService
    BY <1>4 DEF StartService, ResetMetrics
<1>5. CASE Invited
    BY <1>5 DEF Invited, installVars, windowVars, guardVars
<1>6. CASE UploadBlocked
    BY <1>6 DEF UploadBlocked, FailUpload, guardVars
<1>7. CASE JournalUpload
    BY <1>7 DEF JournalUpload, FailUpload
<1>8. CASE UploadContinues
    BY <1>8 DEF UploadContinues
<1>9. CASE UploadFails
    BY <1>9 DEF UploadFails, FailUpload
<1>10. CASE ReportsAgain
    BY <1>10 DEF ReportsAgain, installVars, windowVars, guardVars
<1>11. CASE ArmedTooLate
    BY <1>11 DEF ArmedTooLate, windowVars
<1>12. CASE UploadEnds
    BY <1>12 DEF UploadEnds, windowVars, guardVars
<1>13. CASE CompletionPasses
    BY <1>13 DEF CompletionPasses
<1>14. CASE CompletionRejects
    BY <1>14 DEF CompletionRejects
<1>15. CASE CloseFailed
    BY <1>15 DEF CloseFailed, StopService
<1>16. CASE CloseSucceeded
    BY <1>16 DEF CloseSucceeded, guardVars
<1>17. CASE CloseWindow \/ LoseNetwork
    BY <1>17 DEF CloseWindow, LoseNetwork, StopService, installVars
<1>18. CASE ServiceAbort
    BY <1>18 DEF ServiceAbort, StopService
<1> QED BY <1>1, <1>2, <1>3, <1>4, <1>5, <1>6, <1>7, <1>8, <1>9, <1>10, <1>11, <1>12, <1>13,
           <1>14, <1>15, <1>16, <1>17, <1>18 DEF Development


-----------------------------------------------------------------------------
(* The transfer: what main lost or measured is not forgotten.              *)

\* While a transfer is watched, a gap over the limit stays in main's counters.
LEMMA ListenKeepsGap ==
    ASSUME Listen, measuring, quality = "bad", metrics = "bad"
    PROVE  quality' = "bad" /\ metrics' = "bad"
BY DEF Listen, NoAbort, RequestAbort

\* What main does leaves the marks, and a mark for each loss.
LEMMA MainMarks ==
    ASSUME Main
    PROVE  /\ UNCHANGED <<at, otaPhase, snapshot>>
           /\ (abort => abort') /\ (missed => missed')
           /\ GapKept => GapKept'
           /\ harmed' => harmed \/ abort' \/ missed' \/ (at \in Streaming /\ GapKept')
<1>1. CASE WatchLoop
    <2>1. UNCHANGED <<at, otaPhase, snapshot, missed>>
        BY <1>1 DEF WatchLoop, installVars
    <2>2. abort => abort'
        BY <1>1 DEF WatchLoop, RequestAbort, NoAbort
    <2>3. harmed' => harmed \/ abort'
        BY <1>1 DEF WatchLoop
    <2>4. GapKept => GapKept'
        <3>1. CASE snapshot \notin Transfer
            BY <1>1, <2>1, <3>1 DEF WatchLoop, GapKept
        <3>2. CASE snapshot \in Transfer /\ ~measuring
            BY <3>2 DEF GapKept
        <3>3. CASE snapshot \in Transfer /\ measuring
            BY <1>1, <2>1, <3>3 DEF WatchLoop, GapKept, NoAbort, RequestAbort
        <3> QED BY <3>1, <3>2, <3>3
    <2> QED BY <2>1, <2>2, <2>3, <2>4
<1>2. CASE Sense
    <2>1. UNCHANGED <<at, otaPhase, snapshot, measuring>>
        BY <1>2 DEF Sense, installVars
    <2>2. abort => abort'
        BY <1>2 DEF Sense, Listen, RequestAbort, NoAbort
    <2>3. missed => missed'
        BY <1>2 DEF Sense, Record
    <2>4. harmed' => harmed \/ abort' \/ missed'
        BY <1>2 DEF Sense
    <2>5. GapKept => GapKept'
        <3>1. CASE measuring
            BY <1>2, <2>1, <3>1, ListenKeepsGap DEF Sense, GapKept
        <3>2. CASE ~measuring
            BY <1>2, <2>1, <3>2 DEF Sense, Listen, NoAbort, GapKept
        <3> QED BY <3>1, <3>2
    <2> QED BY <2>1, <2>2, <2>3, <2>4, <2>5
<1>3. CASE PublishMetrics
    <2>1. UNCHANGED <<at, otaPhase, snapshot, measuring, quality, abort, missed>>
        BY <1>3 DEF PublishMetrics, installVars
    <2>2. /\ metrics' = IF measuring THEN quality ELSE metrics
          /\ harmed' => harmed \/ (measuring /\ quality = "bad" /\ at \in Streaming)
        BY <1>3 DEF PublishMetrics
    <2> QED BY <2>1, <2>2 DEF GapKept
<1>4. CASE Gesture
    BY <1>4 DEF Gesture, mainVars, installVars, guardVars, GapKept
<1> QED BY <1>1, <1>2, <1>3, <1>4 DEF Main

LEMMA MainKeepsHarm ==
    ASSUME HarmInv, Main
    PROVE  HarmInv'
<1>1. "guarded" \notin Streaming
    BY DEF Streaming
<1> QED BY <1>1, MainMarks DEF HarmInv, Streaming, Effective

\* A task that is not at such a step has nothing to keep.
LEMMA NothingStreams ==
    ASSUME at' \notin Streaming, at' # "guarded"
    PROVE  HarmInv'
BY DEF HarmInv, Streaming

LEMMA WorkerKeepsHarm ==
    ASSUME HarmInv, Draining \/ Production \/ Development \/ Loop
    PROVE  HarmInv'
<1>1. CASE Draining
    <2>1. at' \in {"drain", "corrections", "drained", "undrained"}
        BY <1>1 DEF Draining, DrainTelemetry, DrainCorrections, DrainFails, At
    <2> QED BY <2>1, NothingStreams DEF Streaming
<1>2. CASE Loop
    <2>1. at' \in {"idle", "drain", "restarted"}
        BY <1>2 DEF Loop, Freeze, PublishActivity, TryRestart, RestartBlocked, Restart, At, Empty
    <2> QED BY <2>1, NothingStreams DEF Streaming
<1>3. CASE BeginStream
    BY <1>3 DEF BeginStream, HarmInv, Streaming
<1>4. CASE Chunk
    BY <1>4 DEF Chunk, HarmInv, GapKept, Streaming, At, Undisturbed, QueuesSafe, mainVars
<1>5. CASE Gate
    BY <1>5 DEF Gate, HarmInv, GapKept, Streaming, At, Passes, Undisturbed, QueuesSafe, mainVars
<1>6. CASE Production /\ ~(BeginStream \/ Chunk \/ Gate)
    <2>1. at' \in {"idle", "drain", "report", "manifest", "verify"}
        BY <1>6 DEF Production, BeginInstall, InstallBlocked, InstallGuarded, ReportUnanswered,
               RequestFails, Reported, ManifestVerified, StageFails, Stage, StreamBlocked,
               StreamFails, GateFails, AcceptFails, Select, FailProduction, Empty
    <2> QED BY <2>1, NothingStreams DEF Streaming
<1>7. CASE JournalUpload
    BY <1>7 DEF JournalUpload, FailUpload, HarmInv, Streaming
<1>8. CASE UploadContinues
    BY <1>8 DEF UploadContinues, HarmInv, GapKept, Streaming, At, Undisturbed, QueuesSafe, mainVars,
           Publish, Effective
<1>9. CASE UploadEnds
    BY <1>9 DEF UploadEnds, HarmInv, GapKept, Streaming, At, guardVars, mainVars, Effective
<1>10. CASE Development /\ ~(JournalUpload \/ UploadContinues \/ UploadEnds)
    <2>1. at' \in {"idle", "drain", "failing", "closing"}
        BY <1>10 DEF Development, TakeGesture, TakeResult, Opens, OpenRefused, OpenBlocked, At,
               StartService, Invited, UploadBlocked, FailUpload, UploadFails, ReportsAgain,
               ArmedTooLate, CompletionPasses, CompletionRejects, CloseFailed, CloseSucceeded,
               CloseWindow, LoseNetwork, ServiceAbort, Empty
    <2> QED BY <2>1, NothingStreams DEF Streaming
<1> QED BY <1>1, <1>2, <1>3, <1>4, <1>5, <1>6, <1>7, <1>8, <1>9, <1>10

-----------------------------------------------------------------------------
(* The transfer: the types.                                                *)

\* Fewer records than fitted fit, and one more where there was room.
LEMMA FewerFit ==
    ASSUME NEW limit \in Nat, NEW a \in Nat, NEW b \in Nat, a + b <= limit,
           NEW c \in Nat, NEW d \in Nat, c <= a, d <= b
    PROVE  c + d <= limit
OBVIOUS

LEMMA OneMoreFits ==
    ASSUME NEW limit \in Nat, NEW a \in Nat, NEW b \in Nat, a + b < limit
    PROVE  (a + 1) + b <= limit /\ a + (b + 1) <= limit
OBVIOUS

\* What is taken out of a queue leaves no more than was in it.
LEMMA QueuesShrink ==
    ASSUME GuardTypes, critical' \in 0..critical, samples' \in 0..samples,
           feedback' \in 0..feedback
    PROVE  /\ critical' \in Nat /\ samples' \in Nat /\ critical' + samples' <= Capacity
           /\ feedback' \in 0..FeedbackCapacity
<1>1. /\ critical \in Nat /\ samples \in Nat /\ critical + samples <= Capacity
      /\ feedback \in 0..FeedbackCapacity /\ Capacity \in Nat /\ FeedbackCapacity \in Nat
    BY GuardAssumption DEF GuardTypes
<1>2. /\ critical' \in Nat /\ samples' \in Nat /\ feedback' \in Nat
      /\ critical' <= critical /\ samples' <= samples /\ feedback' <= feedback
    BY <1>1
<1>3. critical' + samples' <= Capacity
    BY <1>1, <1>2, FewerFit
<1>4. feedback' \in 0..FeedbackCapacity
    BY <1>1, <1>2
<1> QED BY <1>2, <1>3, <1>4

LEMMA MainKeepsGuardTypes ==
    ASSUME GuardTypes, Main
    PROVE  GuardTypes'
<1> USE GuardAssumption DEF GuardTypes
<1>1. CASE WatchLoop
    BY <1>1 DEF WatchLoop, RequestAbort, NoAbort, queueVars, installVars, windowVars
<1>2. CASE Sense
    <2>1. /\ critical' \in Nat /\ samples' \in Nat /\ critical' + samples' <= Capacity
          /\ feedback' \in 0..FeedbackCapacity
        <3>0. /\ critical \in Nat /\ samples \in Nat /\ critical + samples <= Capacity
              /\ feedback \in 0..FeedbackCapacity /\ Capacity \in Nat /\ FeedbackCapacity \in Nat
              /\ Reserve \in Nat
            OBVIOUS
        <3>1. Record
            BY <1>2 DEF Sense
        <3> HIDE DEF GuardTypes
        <3>2. CASE critical' = critical /\ samples' = samples /\ feedback' = feedback
            BY <3>0, <3>2
        <3>3. CASE /\ critical + samples < Capacity
                   /\ critical' = critical + 1 /\ samples' = samples /\ feedback' = feedback
            <4>1. (critical + 1) + samples <= Capacity
                BY <3>0, <3>3, OneMoreFits
            <4> QED BY <3>0, <3>3, <4>1
        <3>4. CASE /\ critical + samples < Capacity - Reserve
                   /\ samples' = samples + 1 /\ critical' = critical /\ feedback' = feedback
            <4>1. critical + (samples + 1) <= Capacity
                BY <3>0, <3>4, OneMoreFits
            <4> QED BY <3>0, <3>4, <4>1
        <3>5. CASE /\ feedback < FeedbackCapacity
                   /\ feedback' = feedback + 1 /\ critical' = critical /\ samples' = samples
            <4>1. feedback' \in 0..FeedbackCapacity
                BY <3>0, <3>5
            <4> QED BY <3>0, <3>5, <4>1
        <3> QED BY <3>1, <3>2, <3>3, <3>4, <3>5 DEF Record, queueVars
    <2>2. /\ quality' \in {"none", "good", "share", "bad"}
          /\ metrics' \in {"none", "good", "share", "bad"}
        BY <1>2 DEF Sense, Listen, RequestAbort, NoAbort
    <2> QED BY <1>2, <2>1, <2>2 DEF Sense, installVars, windowVars
<1>3. CASE PublishMetrics
    BY <1>3 DEF PublishMetrics, queueVars, installVars, windowVars
<1>4. CASE Gesture
    BY <1>4 DEF Gesture, mainVars, queueVars, installVars, windowVars
<1> QED BY <1>1, <1>2, <1>3, <1>4 DEF Main


LEMMA LoopKeepsGuardTypes ==
    ASSUME GuardTypes, Draining \/ Loop
    PROVE  GuardTypes'
<1>0. /\ critical \in 0..critical /\ samples \in 0..samples /\ feedback \in 0..feedback
      /\ critical \in Nat /\ samples \in Nat /\ feedback \in Nat
    BY GuardAssumption DEF GuardTypes
<1>1. ASSUME UNCHANGED <<mainVars, metrics, pending, window>>,
             critical' \in 0..critical, samples' \in 0..samples, feedback' \in 0..feedback
      PROVE  GuardTypes'
    BY <1>1, QueuesShrink DEF GuardTypes, mainVars
<1>2. CASE DrainTelemetry
    BY <1>0, <1>1, <1>2 DEF DrainTelemetry, At, queueVars, installVars, windowVars
<1>3. CASE DrainCorrections
    <2>1. feedback' \in 0..feedback
        BY <1>0, <1>3 DEF DrainCorrections, queueVars
    <2> QED BY <1>0, <1>1, <1>3, <2>1 DEF DrainCorrections, At, queueVars, installVars, windowVars
<1>4. CASE DrainFails
    BY <1>0, <1>1, <1>4 DEF DrainFails, At, queueVars, installVars, windowVars
<1>5. CASE Freeze
    BY <1>1, <1>5 DEF Freeze, At, installVars, windowVars
<1>6. CASE PublishActivity \/ TryRestart \/ RestartBlocked \/ Restart
    BY <1>0, <1>1, <1>6 DEF PublishActivity, TryRestart, RestartBlocked, Restart, Undrained,
           Drained, At, queueVars, installVars, windowVars
<1> QED BY <1>2, <1>3, <1>4, <1>5, <1>6 DEF Draining, Loop

LEMMA ProductionKeepsGuardTypes ==
    ASSUME GuardTypes, Production
    PROVE  GuardTypes'
<1>1. ASSUME UNCHANGED <<mainVars, critical, samples, feedback, window>>,
             metrics' \in {metrics, "none"}, pending' \in {pending, "none", "production"}
      PROVE  GuardTypes'
    BY <1>1 DEF GuardTypes, mainVars
<1> USE DEF At, Undrained, Drained, Keeps, FailProduction, queueVars, windowVars, installVars
<1>2. CASE BeginInstall \/ InstallBlocked \/ InstallGuarded \/ ReportUnanswered \/ RequestFails
    BY <1>1, <1>2 DEF BeginInstall, InstallBlocked, InstallGuarded, ReportUnanswered, RequestFails
<1>3. CASE Reported \/ ManifestVerified \/ StageFails \/ Stage \/ StreamBlocked \/ BeginStream
    BY <1>1, <1>3 DEF Reported, ManifestVerified, StageFails, Stage, StreamBlocked, BeginStream
<1>4. CASE Chunk \/ StreamFails \/ Gate \/ GateFails \/ AcceptFails \/ Select
    BY <1>1, <1>4 DEF Chunk, StreamFails, Gate, GateFails, AcceptFails, Select
<1> QED BY <1>2, <1>3, <1>4 DEF Production

LEMMA DevelopmentKeepsGuardTypes ==
    ASSUME GuardTypes, Development
    PROVE  GuardTypes'
<1>1. ASSUME UNCHANGED <<mainVars, critical, samples, feedback>>,
             metrics' \in {metrics, "none"}, pending' \in {pending, "none", "development"},
             window' \in {window, "closed", "open", "uploading", "failed", "succeeded"}
      PROVE  GuardTypes'
    BY <1>1 DEF GuardTypes, mainVars
<1> USE DEF At, Undrained, Drained, KeepsRest, KeepsQueues, FailUpload, StopService, queueVars,
            windowVars, installVars
<1>2. CASE TakeGesture
    BY <1>1, <1>2 DEF TakeGesture, Opens, OpenRefused, mainVars
<1>3. CASE TakeResult \/ OpenBlocked \/ StartService \/ Invited \/ UploadBlocked
    BY <1>1, <1>3 DEF TakeResult, Opens, OpenRefused, OpenBlocked, StartService, ResetMetrics,
           Invited, UploadBlocked
<1>4. CASE JournalUpload \/ UploadContinues \/ UploadFails \/ ReportsAgain \/ ArmedTooLate
    BY <1>1, <1>4 DEF JournalUpload, UploadContinues, UploadFails, ReportsAgain, ArmedTooLate
<1>5. CASE UploadEnds \/ CompletionPasses \/ CompletionRejects \/ CloseFailed \/ CloseSucceeded
    BY <1>1, <1>5 DEF UploadEnds, CompletionPasses, CompletionRejects, CloseFailed, CloseSucceeded
<1>6. CASE CloseWindow \/ LoseNetwork \/ ServiceAbort
    BY <1>1, <1>6 DEF CloseWindow, LoseNetwork, ServiceAbort
<1> QED BY <1>2, <1>3, <1>4, <1>5, <1>6 DEF Development

-----------------------------------------------------------------------------
(* The transfer: the theorems.                                             *)

LEMMA GuardInvInitial ==
    ASSUME GuardInit
    PROVE  GuardInv
<1>1. GuardTypes
    BY GuardAssumption DEF GuardInit, GuardTypes
<1>2. EndingInv
    BY DEF GuardInit, EndingInv, Ended, Emptying, Showing, OfProduction, Staged, OfUpload
<1>3. HarmInv
    BY DEF GuardInit, HarmInv, Streaming
<1> QED BY <1>1, <1>2, <1>3 DEF GuardInv

LEMMA GuardInvKept ==
    ASSUME GuardInv, [GuardNext]_transferVars
    PROVE  GuardInv'
<1>0. GuardTypes /\ EndingInv /\ HarmInv
    BY DEF GuardInv
<1>1. CASE GuardNext
    <2>1. GuardTypes'
        BY <1>0, <1>1, MainKeepsGuardTypes, LoopKeepsGuardTypes, ProductionKeepsGuardTypes,
           DevelopmentKeepsGuardTypes DEF GuardNext
    <2>2. EndingInv'
        BY <1>0, <1>1, MainKeepsEnding, LoopKeepsEnding, ProductionKeepsEnding,
           DevelopmentKeepsEnding DEF GuardNext
    <2>3. HarmInv'
        BY <1>0, <1>1, MainKeepsHarm, WorkerKeepsHarm DEF GuardNext
    <2> QED BY <2>1, <2>2, <2>3 DEF GuardInv
<1>2. CASE UNCHANGED transferVars
    BY <1>0, <1>2 DEF transferVars, mainVars, mailVars, queueVars, installVars, windowVars, guardVars,
           GuardInv, GuardTypes, EndingInv, Ended, HarmInv, GapKept, Effective
<1> QED BY <1>1, <1>2

\* What holds around the transfer of an image at every step of both cores.
THEOREM GuardInvariance == GuardSpec => []GuardInv
BY GuardInvInitial, GuardInvKept, PTL DEF GuardSpec

\* Every variable has its type, the queues keep their capacities.
THEOREM GuardTypeCorrect == GuardSpec => []GuardTypeOK
<1>1. GuardInv => GuardTypeOK
    <2> SUFFICES ASSUME GuardInv PROVE GuardTypeOK
        OBVIOUS
    <2>1. critical \in Nat /\ samples \in Nat /\ critical + samples <= Capacity
        BY DEF GuardInv, GuardTypes
    <2>2. critical + samples \in 0..Capacity
        BY <2>1, GuardAssumption
    <2> QED BY <2>2 DEF GuardInv, GuardTypes, GuardTypeOK
<1> QED BY <1>1, GuardInvariance, PTL

\* No ending of a transfer or a window leaves samples refused or a window shown
\* that nothing listens on (failProductionRelease, stopDevelopmentService).
THEOREM EndingsLeaveNothing == GuardSpec => []NothingLeftOn
<1>1. GuardInv => NothingLeftOn
    BY DEF GuardInv, EndingInv, Ended, Showing, NothingLeftOn
<1> QED BY <1>1, GuardInvariance, PTL

\* No image passes a gate after main lost a record, asked for an abort or
\* published a gap, whatever the cores did in between.
THEOREM GatesRefuseHarm == GuardSpec => AcceptedUnharmed
<1>1. ASSUME GuardInv, [GuardNext]_transferVars
      PROVE  [(at' # at /\ at' \in {"finished", "accepted", "select"})
                  \/ (window' = "succeeded" /\ window # "succeeded")
              => ~harmed]_transferVars
    <2>1. ASSUME Passes, at \in Streaming
          PROVE  ~harmed
        BY <1>1, <2>1 DEF GuardInv, HarmInv, GapKept, Passes, Undisturbed, QueuesSafe, Acceptable
    <2>2. CASE Gate \/ CompletionPasses
        BY <2>1, <2>2 DEF Gate, CompletionPasses, At, Streaming
    <2>3. CASE Main \/ Draining \/ Loop
        <3>1. at' = at \/ at' \in {"idle", "drain", "corrections", "drained", "undrained", "restarted"}
            BY <2>3 DEF Main, WatchLoop, Sense, PublishMetrics, Gesture, Draining, DrainTelemetry,
                   DrainCorrections, DrainFails, Loop, Freeze, PublishActivity, TryRestart,
                   RestartBlocked, Restart, Empty
        <3>2. window' = window
            BY <2>3 DEF Main, WatchLoop, Sense, PublishMetrics, Gesture, Draining, DrainTelemetry,
                   DrainCorrections, DrainFails, Loop, Freeze, PublishActivity, TryRestart,
                   RestartBlocked, Restart, windowVars
        <3> QED BY <3>1, <3>2
    <2>4. CASE Production /\ ~Gate
        <3>1. at' = at \/ at' \notin {"finished", "accepted", "select"}
            BY <2>4 DEF Production, BeginInstall, InstallBlocked, InstallGuarded, ReportUnanswered,
                   RequestFails, Reported, ManifestVerified, StageFails, Stage, StreamBlocked,
                   BeginStream, Chunk, StreamFails, GateFails, AcceptFails, Select,
                   FailProduction, Empty
        <3>2. window' = window
            BY <2>4 DEF Production, BeginInstall, InstallBlocked, InstallGuarded, ReportUnanswered,
                   RequestFails, Reported, ManifestVerified, StageFails, Stage, StreamBlocked,
                   BeginStream, Chunk, StreamFails, GateFails, AcceptFails, Select, Keeps, windowVars
        <3> QED BY <3>1, <3>2
    <2>5. CASE Development /\ ~CompletionPasses
        <3>1. at' = at \/ at' \notin {"finished", "accepted", "select"}
            BY <2>5 DEF Development, TakeGesture, TakeResult, Opens, OpenRefused, OpenBlocked,
                   StartService, Invited, UploadBlocked, FailUpload, JournalUpload,
                   UploadContinues, UploadFails, ReportsAgain, ArmedTooLate, UploadEnds,
                   CompletionRejects, CloseFailed, CloseSucceeded, CloseWindow, LoseNetwork,
                   ServiceAbort, Empty
        <3>2. window' = window \/ window' # "succeeded"
            BY <2>5 DEF Development, TakeGesture, TakeResult, Opens, OpenRefused, OpenBlocked,
                   StartService, Invited, UploadBlocked, FailUpload, JournalUpload,
                   UploadContinues, UploadFails, ReportsAgain, ArmedTooLate, UploadEnds,
                   CompletionRejects, CloseFailed, CloseSucceeded, CloseWindow, LoseNetwork,
                   ServiceAbort, windowVars
        <3> QED BY <3>1, <3>2
    <2> QED BY <1>1, <2>2, <2>3, <2>4, <2>5 DEF GuardNext
<1> QED BY <1>1, GuardInvariance, PTL DEF GuardSpec, AcceptedUnharmed

=============================================================================
