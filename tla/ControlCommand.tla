-------------------------- MODULE ControlCommand --------------------------
(***************************************************************************)
(* Remote commands, end to end: the console creates one on the server, the  *)
(* device's worker polls it under a lease, journals it in flash, reports    *)
(* accepted and running, has it carried out (by itself, or by the main loop *)
(* through the single-flight ControlMailbox), journals the outcome and      *)
(* reports that.  Any report or answer may be lost or late, a journal write *)
(* may fail, leases and commands expire, and the device may lose power      *)
(* between any two steps.                                                   *)
(***************************************************************************)
EXTENDS ControlProperties

serverVars  == <<row, acks>>
recordVars  == <<record, journal, halted>>
callVars    == <<call, reply>>
workerVars  == <<recordVars, step, restartAfter, callVars>>
mainVars    == <<slot, mainActive>>
boundVars   == <<reboots, effects>>
vars        == <<serverVars, workerVars, wire, mainVars, boundVars>>

-----------------------------------------------------------------------------

Terminal    == {"succeeded", "failed", "expired", "rejected"}
Outstanding == {"queued", "leased"}
Rank == [s \in {"queued", "leased", "accepted", "running"} \cup Terminal |->
            CASE s \in Outstanding -> 0
              [] s = "accepted"    -> 1
              [] s = "running"     -> 2
              [] OTHER             -> 3]

NoRecord  == [cmd |-> NoCommand, lease |-> 0, status |-> "none"]
NoReply   == [kind |-> "none"]
Empty     == [state |-> "empty", cmd |-> NoCommand, code |-> "none"]

NoRow == [status |-> "none", lease |-> 0, live |-> FALSE, due |-> FALSE]

Init ==
    /\ row = [c \in Commands |-> NoRow] /\ acks = {}
    /\ record = NoRecord /\ journal = NoRecord /\ halted = FALSE
    /\ step = "idle" /\ restartAfter = NoCommand
    /\ call = "none" /\ reply = NoReply
    /\ wire = {}
    /\ slot = Empty /\ mainActive = NoCommand
    /\ reboots = 0 /\ effects = [c \in Commands |-> 0]

-----------------------------------------------------------------------------
(* The server.  Times are kept as two marks of a row: live while the lease  *)
(* runs, due once the command itself has expired.                           *)

\* Rows that fell due while still outstanding.
Stale == {c \in Commands : row[c].status \in Outstanding /\ row[c].due}

Swept(stale) ==
    [c \in Commands |-> IF c \in stale THEN [row[c] EXCEPT !.status = "expired"]
                       ELSE row[c]]

\* create_command expires every stale row of the device as well.
CreateCommand ==
    /\ \E c \in Commands :
           /\ row[c].status = "none"
           /\ \A b \in 1..(c - 1) : row[b].status # "none"
           /\ row' = [Swept(Stale) EXCEPT ![c].status = "queued"]
    /\ UNCHANGED <<acks, workerVars, wire, mainVars, boundVars>>

LeaseLapses ==
    /\ \E c \in Commands : /\ row[c].live
                           /\ row' = [row EXCEPT ![c].live = FALSE]
    /\ UNCHANGED <<acks, workerVars, wire, mainVars, boundVars>>

CommandFallsDue ==
    /\ \E c \in Commands :
           /\ row[c].status # "none" /\ ~row[c].due
           /\ row' = [row EXCEPT ![c].due = TRUE, ![c].live = FALSE]
    /\ UNCHANGED <<acks, workerVars, wire, mainVars, boundVars>>

\* A faulty variant that never looks at a leased row again; nothing uses it.
MutOnlyQueued == {c \in Commands : row[c].status = "queued"}

Candidates == {c \in Commands : row[c].status \in Outstanding}

\* poll_control: rows that fell due before the first live one expire; that one
\* keeps a live lease or gets a fresh one.
PollControl ==
    /\ call = "poll" /\ reply = NoReply
    /\ LET open  == {c \in Candidates : ~row[c].due}
           first == CHOOSE c \in open : \A d \in open : c <= d
           fresh == ~row[first].live
           swept == Swept({c \in Candidates \cap Stale :
                               open # {} => c < first})
       IN  \/ /\ open = {}
              /\ row' = swept
              /\ reply' = [kind |-> "nothing"]
           \/ /\ open # {}
              /\ fresh => row[first].lease < MaxLeases
              /\ row' = [swept EXCEPT ![first].status = "leased",
                                      ![first].live = TRUE,
                                      ![first].lease = IF fresh THEN @ + 1 ELSE @]
              /\ reply' = [kind |-> "command", cmd |-> first,
                           lease |-> row'[first].lease]
    /\ UNCHANGED <<acks, recordVars, step, restartAfter, call, wire, mainVars,
                   boundVars>>

\* acknowledge_command, refusal by refusal.
LeaseHasRunOut(a) ==
    /\ a.lease = row[a.cmd].lease
    /\ row[a.cmd].status \in Outstanding
    /\ ~row[a.cmd].live

Refused(a) ==
    \/ a.lease # row[a.cmd].lease
    \/ LeaseHasRunOut(a)
    \/ \E b \in acks : b.cmd = a.cmd /\ b.status = a.status
    \/ Rank[a.status] < Rank[row[a.cmd].status]
    \/ row[a.cmd].status \in Terminal /\ a.status # row[a.cmd].status

AcknowledgeCommand ==
    \E a \in wire :
        /\ wire' = wire \ {a}
        /\ \/ a \in acks /\ UNCHANGED serverVars
           \/ /\ a \notin acks /\ Refused(a)
              /\ row' = IF LeaseHasRunOut(a)
                        THEN [row EXCEPT ![a.cmd].status = "expired"] ELSE row
              /\ UNCHANGED acks
           \/ /\ a \notin acks /\ ~Refused(a)
              /\ row' = [row EXCEPT ![a.cmd].status = a.status]
              /\ acks' = acks \cup {a}
        /\ reply' = IF call = "ack" /\ a = record
                    THEN [kind |-> IF a \in acks \/ ~Refused(a)
                                   THEN "ok" ELSE "conflict",
                          status |-> row'[a.cmd].status]
                    ELSE reply
        /\ UNCHANGED <<recordVars, step, restartAfter, call, mainVars,
                       boundVars>>

LoseAck ==
    /\ \E a \in wire : wire' = wire \ {a}
    /\ UNCHANGED <<serverVars, workerVars, mainVars, boundVars>>

-----------------------------------------------------------------------------
(* The journal.                                                            *)

\* A faulty variant that stays in RAM; no action uses it.
MutRamOnly(rec) == record' = rec /\ UNCHANGED <<journal, halted>>

Journaled(rec) == record' = rec /\ journal' = rec /\ UNCHANGED halted

\* persistCommandJournal returned false: RAM is ahead of flash, or the write
\* did happen; polling stops.
NotJournaled(rec) ==
    /\ StorageFaults
    /\ record' = rec
    /\ journal' \in {journal, rec}
    /\ halted' = TRUE

\* setCommandTerminal: transition() refuses to leave a terminal status.
SetCommandTerminal(status) ==
    LET rec == [record EXCEPT !.status = status]
    IN  \/ Journaled(rec) /\ step' = "ack_final"
        \/ NotJournaled(rec) /\ step' = "idle"

-----------------------------------------------------------------------------
(* The worker.  restartAfter remembers which command restartAfterFinal-     *)
(* CommandAck_ was set for.  The worker's estimate of the server's clock    *)
(* runs behind it, so it may, but need not yet, see that a command is due.  *)

Poll ==
    /\ call = "none" /\ ~halted
    /\ call' = "poll"
    /\ UNCHANGED <<serverVars, recordVars, step, restartAfter, reply, wire,
                   mainVars, boundVars>>

\* No well-formed answer in time; for a poll and an acknowledgement alike.
GiveUp ==
    /\ call # "none"
    /\ call' = "none" /\ reply' = NoReply
    /\ UNCHANGED <<serverVars, recordVars, step, restartAfter, wire, mainVars,
                   boundVars>>

Accepts(c) == record = NoRecord \/ record.status \in Terminal

\* handlePolledCommand.  The poll never hands out a command or a lease that is
\* already over by the clock of its own answer.
HandlePolledCommand ==
    /\ call = "poll" /\ reply.kind = "command"
    /\ LET c == reply.cmd
           new    == [cmd |-> c, lease |-> reply.lease, status |-> "accepted"]
           replay == [record EXCEPT !.lease = reply.lease]
       IN  \/ /\ record.cmd # c /\ Accepts(c)
              /\ \/ Journaled(new) /\ step' = "ack_accepted"
                 \/ NotJournaled(new) /\ UNCHANGED step
           \/ /\ record.cmd # c /\ ~Accepts(c)    \* kBusy
              /\ UNCHANGED <<recordVars, step>>
           \/ /\ record.cmd = c
              /\ \/ /\ Journaled(replay)
                    /\ step' = IF record.status \in Terminal
                               THEN "ack_final" ELSE step
                 \/ NotJournaled(replay) /\ UNCHANGED step
    /\ call' = "none" /\ reply' = NoReply
    /\ UNCHANGED <<serverVars, restartAfter, wire, mainVars, boundVars>>

ReportDue ==
    step \in {"ack_accepted", "ack_running", "ack_final"} /\ record # NoRecord

\* serviceCommandAcknowledgement, first half: post what RAM holds.
PostAck ==
    /\ call = "none"
    /\ ReportDue
    /\ call' = "ack"
    /\ wire' = wire \cup {record}
    /\ UNCHANGED <<serverVars, recordVars, step, restartAfter, reply, mainVars,
                   boundVars>>

\* A faulty variant that takes any answer; no action uses it.
MutAnyAnswer == call = "ack" /\ reply.kind # "none"

\* The answer repeats the status that was reported.
Acknowledged == call = "ack" /\ reply.kind = "ok" /\ reply.status = record.status

EndCall == call' = "none" /\ reply' = NoReply

AcceptedAcknowledged ==
    /\ Acknowledged /\ step = "ack_accepted"
    /\ LET rec == [record EXCEPT !.status = "running"]
       IN  \/ Journaled(rec) /\ step' = "ack_running"
           \/ NotJournaled(rec) /\ UNCHANGED step
    /\ EndCall
    /\ UNCHANGED <<serverVars, restartAfter, wire, mainVars, boundVars>>

Do(c) == effects' = [effects EXCEPT ![c] = @ + 1]

\* executeCurrentCommand: what the worker does by itself, ...
ExecuteInWorker ==
    /\ Acknowledged /\ step = "ack_running"
    /\ \/ /\ ActionOf[record.cmd] = "local"
          /\ Do(record.cmd) /\ UNCHANGED restartAfter
          /\ SetCommandTerminal("succeeded")
       \/ /\ ActionOf[record.cmd] = "local"    \* the log session was refused
          /\ UNCHANGED <<effects, restartAfter>>
          /\ SetCommandTerminal("failed")
       \/ /\ ActionOf[record.cmd] = "reboot"
          /\ restartAfter' = record.cmd /\ UNCHANGED effects
          /\ SetCommandTerminal("succeeded")
    /\ EndCall
    /\ UNCHANGED <<serverVars, wire, mainVars, reboots>>

\* ... and what it hands to the main loop.
ExecuteInMain ==
    /\ Acknowledged /\ step = "ack_running"
    /\ ActionOf[record.cmd] \in {"recalibrate", "open_dev_ota"}
    /\ \/ /\ row[record.cmd].due
          /\ SetCommandTerminal("expired") /\ UNCHANGED slot
       \/ /\ slot # Empty
          /\ SetCommandTerminal("failed") /\ UNCHANGED slot
       \/ /\ slot = Empty
          /\ slot' = [state |-> "pending", cmd |-> record.cmd, code |-> "none"]
          /\ step' = "waiting_main" /\ UNCHANGED recordVars
    /\ EndCall
    /\ UNCHANGED <<serverVars, restartAfter, wire, mainActive, boundVars>>

\* A faulty variant that keeps the mark across the restart; no action uses it.
MutRestarted ==
    /\ slot' = Empty /\ mainActive' = NoCommand
    /\ call' = "none" /\ reply' = NoReply
    /\ UNCHANGED restartAfter

Restarted ==
    /\ slot' = Empty /\ mainActive' = NoCommand
    /\ call' = "none" /\ reply' = NoReply
    /\ restartAfter' = NoCommand

\* A faulty variant that assumes the best; no action uses it.
MutRecovered(rec) ==
    IF rec.status \in Terminal THEN rec ELSE [rec EXCEPT !.status = "succeeded"]

Recovered(rec) ==
    IF rec.status \in Terminal THEN rec ELSE [rec EXCEPT !.status = "failed"]

\* initializeCommandJournal: an interrupted command is failed, not repeated.
RecoverJournal ==
    LET rec == Recovered(journal)
    IN  \/ /\ journal = NoRecord
           /\ record' = NoRecord /\ step' = "idle" /\ halted' = FALSE
           /\ UNCHANGED journal
        \/ /\ StorageFaults    \* the journal cannot be read
           /\ record' = NoRecord /\ step' = "idle" /\ halted' = TRUE
           /\ UNCHANGED journal
        \/ /\ journal # NoRecord
           /\ record' = rec /\ journal' = rec
           /\ step' = "ack_final" /\ halted' = FALSE
        \/ /\ journal # NoRecord /\ rec # journal
           /\ NotJournaled(rec)
           /\ step' = "idle"

\* The final acknowledgement is answered; a reboot command restarts now.
FinalAcknowledged ==
    /\ Acknowledged /\ step = "ack_final"
    /\ \/ /\ restartAfter = NoCommand
          /\ step' = "idle"
          /\ EndCall
          /\ UNCHANGED <<recordVars, restartAfter, mainVars, effects>>
       \/ /\ restartAfter # NoCommand
          /\ Do(restartAfter)
          /\ Restarted /\ RecoverJournal
    /\ UNCHANGED <<serverVars, wire, reboots>>

\* serviceMainControlResult.
ServiceMainControlResult ==
    /\ call = "none" /\ step = "waiting_main"
    /\ \/ /\ slot.state = "result"
          /\ \/ SetCommandTerminal(IF slot.cmd = record.cmd THEN slot.code
                                   ELSE "failed")
             \/ /\ slot.code = "succeeded"    \* the window did not open
                /\ ActionOf[record.cmd] = "open_dev_ota"
                /\ SetCommandTerminal("failed")
          /\ slot' = Empty
       \/ /\ slot.state # "result"
          /\ row[record.cmd].due
          /\ SetCommandTerminal("expired")
          /\ UNCHANGED slot
    /\ UNCHANGED <<serverVars, restartAfter, callVars, wire, mainActive,
                   boundVars>>

-----------------------------------------------------------------------------
(* The main loop.                                                          *)

\* A faulty variant that keeps its request; no action uses it.
MutPublishResult(code) ==
    /\ slot' = [slot EXCEPT !.state = "result", !.code = code]
    /\ UNCHANGED mainActive

PublishResult(code) ==
    /\ slot' = [slot EXCEPT !.state = "result", !.code = code]
    /\ mainActive' = NoCommand

\* processMainControl takes a request only when it has none of its own.
TakeRequest ==
    /\ mainActive = NoCommand
    /\ slot.state = "pending"
    /\ \/ /\ ActionOf[slot.cmd] = "recalibrate"
          /\ Do(slot.cmd)
          /\ PublishResult("succeeded")
       \/ /\ ActionOf[slot.cmd] = "open_dev_ota"
          /\ slot' = [slot EXCEPT !.state = "in_flight"]
          /\ mainActive' = slot.cmd
          /\ UNCHANGED effects
    /\ UNCHANGED <<serverVars, workerVars, wire, reboots>>

\* pollDiagnosticsOtaGesture while a confirmation is pending.
ConfirmLocally ==
    /\ mainActive # NoCommand
    /\ \/ Do(mainActive) /\ PublishResult("succeeded")
       \/ PublishResult("failed") /\ UNCHANGED effects
    /\ UNCHANGED <<serverVars, workerVars, wire, reboots>>

ConfirmationTimesOut ==
    /\ mainActive # NoCommand
    /\ PublishResult("expired")
    /\ UNCHANGED <<serverVars, workerVars, wire, boundVars>>

-----------------------------------------------------------------------------

PowerLoss ==
    /\ reboots < MaxReboots
    /\ reboots' = reboots + 1
    /\ Restarted /\ RecoverJournal
    /\ UNCHANGED <<serverVars, wire, effects>>

Server == \/ CreateCommand \/ LeaseLapses \/ CommandFallsDue \/ PollControl
          \/ AcknowledgeCommand \/ LoseAck
Worker == \/ Poll \/ GiveUp \/ HandlePolledCommand \/ PostAck
          \/ AcceptedAcknowledged \/ ExecuteInWorker \/ ExecuteInMain
          \/ FinalAcknowledged \/ ServiceMainControlResult
Main   == TakeRequest \/ ConfirmLocally \/ ConfirmationTimesOut

Next == Server \/ Worker \/ Main \/ PowerLoss

Spec == Init /\ [][Next]_vars

\* Both loops run for ever and time passes; the network, tried again and
\* again, lets a request and its answer through one day.
Answered == AcknowledgeCommand /\ reply' # reply
Fairness ==
    /\ WF_vars(LeaseLapses) /\ WF_vars(CommandFallsDue)
    /\ SF_vars(Poll) /\ SF_vars(PollControl) /\ SF_vars(HandlePolledCommand)
    /\ SF_vars(PostAck) /\ SF_vars(Answered) /\ WF_vars(GiveUp)
    /\ SF_vars(AcceptedAcknowledged) /\ SF_vars(FinalAcknowledged)
    /\ SF_vars(ExecuteInWorker) /\ SF_vars(ExecuteInMain)
    /\ SF_vars(ServiceMainControlResult)
    /\ WF_vars(TakeRequest) /\ WF_vars(ConfirmationTimesOut)

FairSpec == Spec /\ Fairness

-----------------------------------------------------------------------------
(* Properties.                                                             *)

Ack == [cmd : Commands, lease : 1..MaxLeases,
        status : {"accepted", "running"} \cup Terminal]

\* The types of the protocol's state.
TypeOK ==
    /\ row \in [Commands -> [status : DOMAIN Rank \cup {"none"},
                             lease : 0..MaxLeases,
                             live : BOOLEAN, due : BOOLEAN]]
    /\ acks \subseteq Ack /\ wire \subseteq Ack
    /\ {record, journal} \subseteq Ack \cup {NoRecord}
    /\ step \in {"idle", "ack_accepted", "ack_running", "waiting_main",
                 "ack_final"}
    /\ halted \in BOOLEAN
    /\ {restartAfter, mainActive} \subseteq Commands \cup {NoCommand}
    /\ call \in {"none", "poll", "ack"}
    /\ slot.state \in {"empty", "pending", "in_flight", "result"}

\* The console never waits for ever for a command to be picked up or expire.
CommandLeavesQueue ==
    \A c \in Commands :
        row[c].status \in Outstanding ~> row[c].status \notin Outstanding

-----------------------------------------------------------------------------
(* Claims of the repository that the code does not keep.                   *)

\* test_control_mailbox.cpp: a command's result is taken and leaves the
\* mailbox free for the next request.
MailboxFreed == slot.state = "result" ~> slot.state # "result"

\* telemetry_uploader.cpp: replaying a final acknowledgement is always safe,
\* so the worker is done with the command some time after a reset.
ReplayEnds == step = "ack_final" ~> step = "idle"

=============================================================================
