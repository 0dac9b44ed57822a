----------------------- MODULE ControlCommand_proofs -----------------------
(* What the command protocol promises, for any number of commands, leases   *)
(* and power losses, whether or not journal writes may fail.                *)
(*                                                                          *)
(* Two marks that nothing takes back carry the argument.  A command is      *)
(* Settled once the server can never offer it again, and all commands       *)
(* before the one under way are, so the worker only ever moves on to later  *)
(* ones.  A command is Started once the server agreed that it runs and      *)
(* neither flash nor RAM would begin it again.  A command has its effect    *)
(* only in a step that finds it without one and leaves it Started; and the  *)
(* worker carries out only what is not Started yet, the restart it owes and *)
(* the request in the mailbox being the two effects that come later.        *)
EXTENDS ControlCommand, TLAPS, WellFoundedInduction

Statuses == {"none", "queued", "leased", "accepted", "running"} \cup Terminal
Rows     == [status : Statuses, lease : 0..MaxLeases, live : BOOLEAN, due : BOOLEAN]
Records  == Ack \cup {NoRecord}
Steps    == {"idle", "ack_accepted", "ack_running", "waiting_main", "ack_final"}

Replies == {NoReply, [kind |-> "nothing"]}
    \cup [kind : {"command"}, cmd : Commands, lease : 1..MaxLeases]
    \cup [kind : {"ok", "conflict"}, status : Statuses]

Slots == [state : {"empty", "pending", "in_flight", "result"},
          cmd : Commands \cup {NoCommand},
          code : {"none", "succeeded", "failed", "expired"}]

\* TypeOK, and the types of what it leaves out.
TypeInv ==
    /\ row \in [Commands -> Rows] /\ acks \subseteq Ack /\ wire \subseteq Ack
    /\ record \in Records /\ journal \in Records /\ step \in Steps /\ halted \in BOOLEAN
    /\ restartAfter \in Commands \cup {NoCommand}
    /\ mainActive \in Commands \cup {NoCommand}
    /\ call \in {"none", "poll", "ack"} /\ reply \in Replies /\ slot \in Slots
    /\ reboots \in Nat /\ effects \in [Commands -> Nat]

\* Commands are created in their order, and leased before they are acknowledged.
RowInv ==
    \A c \in Commands :
        /\ row[c].live => row[c].lease >= 1
        /\ row[c].status = "none" => row[c].lease = 0
        /\ row[c].status # "none" => \A b \in Commands : b < c => row[b].status # "none"

\* What the answer may be of the call under way.
CallInv ==
    /\ call = "none" => reply = NoReply
    /\ call = "poll" => ~halted /\ reply.kind \in {"none", "nothing", "command"}
    /\ call = "ack"  => /\ reply.kind \in {"none", "ok", "conflict"}
                        /\ reply.kind = "ok" => record \in acks

\* RAM and flash agree unless the device halted; a command under way is running
\* in both.
JournalInv ==
    /\ ~halted => record = journal
    /\ record # NoRecord => record.cmd >= journal.cmd
    /\ step # "idle" => record # NoRecord
    /\ step = "ack_accepted" => record.status \in {"accepted", "running"}
    /\ step \in {"ack_running", "waiting_main"} =>
           /\ record.status = "running"
           /\ journal.cmd = record.cmd /\ journal.status = "running"

\* The server will never offer the command again.
Settled(b) ==
    /\ row[b].status # "none"
    /\ row[b].status \in Outstanding => row[b].due

\* All commands before those the worker has seen are settled.
OrderInv ==
    /\ \A b \in Commands :
           (\/ b < record.cmd
            \/ b < journal.cmd
            \/ reply.kind = "command" /\ b < reply.cmd)
               => Settled(b)
    /\ reply.kind = "command" => record.cmd <= reply.cmd

\* Flash is past acceptance, RAM is past carrying it out, the server agreed.
InFlash(c)  == journal.cmd > c \/ (journal.cmd = c /\ journal.status # "accepted")
InRam(c)    == \/ record = NoRecord
               \/ record.cmd > c
               \/ record.cmd = c /\ (record.status \in Terminal \/ step = "waiting_main")
Released(c) == \E a \in acks : a.cmd = c /\ a.status = "running"
Started(c)  == InFlash(c) /\ InRam(c) /\ Released(c)

\* What was carried out was carried out once, and is started.
EffectInv == \A c \in Commands : effects[c] > 0 => effects[c] = 1 /\ Started(c)

\* A restart is owed only for a started command that has not had it.
RestartInv ==
    restartAfter # NoCommand =>
        /\ ActionOf[restartAfter] = "reboot"
        /\ effects[restartAfter] = 0 /\ Started(restartAfter)

Delegated == {"recalibrate", "open_dev_ota"}

\* What the mailbox asks for is started and not done; what it reports is.
MailboxInv ==
    /\ slot.state = "empty" => slot = Empty
    /\ slot.state # "empty" => slot.cmd \in Commands
    /\ slot.state \in {"pending", "in_flight"} =>
           /\ ActionOf[slot.cmd] \in Delegated
           /\ effects[slot.cmd] = 0 /\ Started(slot.cmd)
    /\ slot.state = "in_flight" <=> mainActive # NoCommand
    /\ mainActive # NoCommand => slot.cmd = mainActive
    /\ slot.state = "result" =>
           /\ slot.code # "none"
           /\ slot.code = "succeeded" => effects[slot.cmd] = 1

Done(c) == effects[c] = 1 \/ ActionOf[c] = "reboot"

Honest(rec) == rec.status = "succeeded" => Done(rec.cmd)

\* No success is recorded, journaled or reported of a command that was not done.
SuccessInv ==
    /\ SucceededMeansDone
    /\ Honest(record) /\ Honest(journal)
    /\ \A a \in wire : Honest(a)

ControlInv == TypeInv /\ RowInv /\ CallInv /\ JournalInv /\ OrderInv
              /\ EffectInv /\ RestartInv /\ MailboxInv /\ SuccessInv

-----------------------------------------------------------------------------

\* A set of numbers that is not empty has a least one, so the choice of the
\* first open command is not arbitrary.
LEMMA LeastElement ==
    ASSUME NEW S \in SUBSET Nat, S # {}
    PROVE  LET m == CHOOSE c \in S : \A d \in S : c <= d
           IN  m \in S /\ \A d \in S : m <= d
<1> DEFINE R == {ss \in Nat \X Nat : ss[1] < ss[2]}
<1>1. IsWellFoundedOn(R, Nat)
  BY NatLessThanWellFounded DEF OpToRel
<1>2. PICK x \in S : \A y \in S : <<y, x>> \notin R
  <2> HIDE DEF R
  <2> QED
    BY <1>1, WFMin
<1>3. ASSUME NEW d \in S PROVE x <= d
  <2>1. <<d, x>> \notin R /\ <<d, x>> \in Nat \X Nat
    BY <1>2
  <2>2. ~(<<d, x>>[1] < <<d, x>>[2])
    BY <2>1, Zenon
  <2> QED
    BY <2>2
<1>4. \E c \in S : \A d \in S : c <= d
  BY <1>3
<1> QED
  BY <1>4

USE DEF Records

\* The parameters' types in the form the steps below use.
LEMMA Parameters ==
    /\ MaxLeases \in Nat /\ MaxReboots \in Nat
    /\ Commands \subseteq Nat \ {NoCommand}
    /\ \A c \in Commands : ActionOf[c] \in Actions
BY ControlAssumption DEF Commands, NoCommand

\* No record is a record of no command.
LEMMA NoRecordFields ==
    /\ NoRecord.cmd = NoCommand /\ NoRecord.status = "none" /\ NoRecord \notin Ack
    /\ \A r \in Ack : r # NoRecord /\ r.cmd \in Commands /\ r.cmd # NoCommand
    /\ \A r \in Records : r.cmd \in Nat
<1>1. NoRecord.cmd = NoCommand /\ NoRecord.status = "none"
  BY DEF NoRecord
<1>2. \A r \in Ack : r.cmd \in Commands /\ r.cmd # NoCommand
  BY Parameters DEF Ack
<1>3. NoCommand \in Nat
  BY DEF NoCommand
<1> QED
  BY <1>1, <1>2, <1>3, Parameters

\* Sweeping touches rows that fell due while outstanding, and only their status.
LEMMA SweptRow ==
    ASSUME TypeInv, NEW T \in SUBSET Stale
    PROVE  /\ Swept(T) \in [Commands -> Rows]
           /\ \A c \in Commands :
                  /\ Swept(T)[c].lease = row[c].lease
                  /\ Swept(T)[c].live = row[c].live
                  /\ Swept(T)[c].due = row[c].due
                  /\ Swept(T)[c].status = IF c \in T THEN "expired" ELSE row[c].status
                  /\ c \in T => row[c].status \in Outstanding /\ row[c].due
BY DEF TypeInv, Swept, Stale, Rows, Statuses, Terminal, Outstanding

\* What time does to a row: the lease is over, and the command may be due.
LEMMA MarkOutcome ==
    ASSUME TypeInv, LeaseLapses \/ CommandFallsDue
    PROVE  /\ row' \in [Commands -> Rows]
           /\ \A d \in Commands : /\ row'[d].status = row[d].status
                                  /\ row'[d].lease = row[d].lease
                                  /\ row'[d].live => row[d].live
                                  /\ row[d].due => row'[d].due
<1>1. row \in [Commands -> Rows]
  BY DEF TypeInv
<1>2. \E c \in Commands : \E r \in Rows :
          /\ row' = [row EXCEPT ![c] = r]
          /\ r.status = row[c].status /\ r.lease = row[c].lease
          /\ r.live => row[c].live
          /\ row[c].due => r.due
  <2>1. CASE LeaseLapses
    <3>1. PICK c \in Commands : row' = [row EXCEPT ![c].live = FALSE]
      BY <2>1 DEF LeaseLapses
    <3> DEFINE r == [row[c] EXCEPT !.live = FALSE]
    <3>2. row[c] \in Rows
      BY <1>1
    <3>3. /\ r \in Rows /\ r.status = row[c].status /\ r.lease = row[c].lease
          /\ ~r.live /\ r.due = row[c].due
      BY <3>2 DEF Rows
    <3> QED
      BY <3>1, <3>3
  <2>2. CASE CommandFallsDue
    <3>1. PICK c \in Commands : row' = [row EXCEPT ![c].due = TRUE, ![c].live = FALSE]
      BY <2>2 DEF CommandFallsDue
    <3> DEFINE r == [[row[c] EXCEPT !.due = TRUE] EXCEPT !.live = FALSE]
    <3>2. row[c] \in Rows
      BY <1>1
    <3>3. /\ r \in Rows /\ r.status = row[c].status /\ r.lease = row[c].lease
          /\ ~r.live /\ r.due
      BY <3>2 DEF Rows
    <3>4. row' = [row EXCEPT ![c] = r]
      BY <1>1, <3>1
    <3> QED
      BY <3>3, <3>4
  <2> QED
    BY <2>1, <2>2
<1> QED
  BY <1>1, <1>2

\* What a poll does: it expires rows that fell due, and offers the first open
\* command, if there is one, under a lease.
LEMMA PollOutcome ==
    ASSUME TypeInv, RowInv, PollControl
    PROVE  \E T \in SUBSET Stale :
               \/ row' = Swept(T) /\ reply' = [kind |-> "nothing"]
               \/ \E first \in Commands, n \in 1..MaxLeases :
                      /\ row[first].status \in Outstanding /\ ~row[first].due
                      /\ \A d \in Commands :
                             row[d].status \in Outstanding /\ ~row[d].due => first <= d
                      /\ row' \in [Commands -> Rows]
                      /\ \A d \in Commands \ {first} : row'[d] = Swept(T)[d]
                      /\ row'[first].status = "leased" /\ row'[first].lease = n
                      /\ reply' = [kind |-> "command", cmd |-> first, lease |-> n]
<1> DEFINE open  == {c \in Candidates : ~row[c].due}
           first == CHOOSE c \in open : \A d \in open : c <= d
           fresh == ~row[first].live
           T     == {c \in Candidates \cap Stale : open # {} => c < first}
<1>1. T \in SUBSET Stale /\ open \in SUBSET Nat
  BY Parameters DEF Candidates
<1>2. CASE open = {} /\ row' = Swept(T) /\ reply' = [kind |-> "nothing"]
  BY <1>1, <1>2
<1>3. CASE /\ open # {}
           /\ fresh => row[first].lease < MaxLeases
           /\ row' = [Swept(T) EXCEPT
                        ![first].status = "leased", ![first].live = TRUE,
                        ![first].lease = IF fresh THEN @ + 1 ELSE @]
           /\ reply' = [kind |-> "command", cmd |-> first, lease |-> row'[first].lease]
  <2>1. first \in open /\ \A d \in open : first <= d
    BY <1>1, <1>3, LeastElement
  <2>2. first \in Commands /\ row[first].status \in Outstanding /\ ~row[first].due
    BY <2>1 DEF Candidates
  <2> DEFINE n == IF fresh THEN row[first].lease + 1 ELSE row[first].lease
  <2>3. \A d \in Commands : row[d].status \in Outstanding /\ ~row[d].due => first <= d
    BY <2>1 DEF Candidates
  <2> HIDE DEF first, T
  <2>4. n \in 1..MaxLeases
    BY <1>3, <2>2, Parameters DEF TypeInv, RowInv, Rows
  <2>5. /\ Swept(T) \in [Commands -> Rows]
        /\ Swept(T)[first].lease = row[first].lease
    BY <1>1, <2>2, SweptRow
  <2>6. /\ row' \in [Commands -> Rows]
        /\ \A d \in Commands \ {first} : row'[d] = Swept(T)[d]
        /\ row'[first].status = "leased" /\ row'[first].lease = n
    <3> DEFINE S1 == [Swept(T) EXCEPT ![first].status = "leased"]
               S2 == [S1 EXCEPT ![first].live = TRUE]
    <3>1. /\ S1 \in [Commands -> Rows] /\ \A d \in Commands \ {first} : S1[d] = Swept(T)[d]
          /\ S1[first].status = "leased"
      BY <2>2, <2>5 DEF Rows, Statuses
    <3>2. /\ S2 \in [Commands -> Rows] /\ \A d \in Commands \ {first} : S2[d] = Swept(T)[d]
          /\ S2[first].status = "leased"
      <4> HIDE DEF S1
      <4> QED
        BY <2>2, <3>1 DEF Rows, Statuses
    <3>3. row' = [S2 EXCEPT ![first].lease = n]
      BY <1>3, <2>2, <2>5
    <3> HIDE DEF S2, n
    <3>4. S2[first] \in Rows /\ row'[first] = [S2[first] EXCEPT !.lease = n]
      BY <2>2, <3>2, <3>3
    <3>5. row'[first] \in Rows /\ row'[first].status = "leased" /\ row'[first].lease = n
      BY <2>4, <3>2, <3>4, Parameters DEF Rows
    <3> QED
      BY <2>2, <3>2, <3>3, <3>5
  <2> QED
    BY <1>1, <1>3, <2>2, <2>3, <2>4, <2>6
<1> QED
  BY <1>2, <1>3 DEF PollControl

\* What the server makes of an acknowledgement: it keeps the row, expires it, or
\* takes the status reported, and answers the call that is still waiting.
LEMMA AcknowledgeOutcome ==
    ASSUME TypeInv, RowInv, AcknowledgeCommand
    PROVE  \E a \in wire :
               /\ wire' = wire \ {a}
               /\ row' \in [Commands -> Rows]
               /\ \A d \in Commands : /\ d # a.cmd => row'[d] = row[d]
                                      /\ row'[d].lease = row[d].lease
                                      /\ row'[d].live = row[d].live
                                      /\ row'[d].due = row[d].due
               /\ \/ row'[a.cmd].status = row[a.cmd].status
                  \/ row[a.cmd].status \in Outstanding /\ row'[a.cmd].status = "expired"
                  \/ row[a.cmd].status # "none" /\ row'[a.cmd].status = a.status
               /\ acks' \in {acks, acks \cup {a}}
               /\ \/ reply' = reply
                  \/ /\ call = "ack" /\ a = record
                     /\ \E kind \in {"ok", "conflict"} :
                            /\ reply' = [kind |-> kind, status |-> row'[a.cmd].status]
                            /\ kind = "ok" => a \in acks'
<1>1. PICK a \in wire :
          /\ wire' = wire \ {a}
          /\ \/ a \in acks /\ UNCHANGED serverVars
             \/ /\ a \notin acks /\ Refused(a)
                /\ row' = IF LeaseHasRunOut(a)
                          THEN [row EXCEPT ![a.cmd].status = "expired"] ELSE row
                /\ UNCHANGED acks
             \/ /\ a \notin acks /\ ~Refused(a)
                /\ row' = [row EXCEPT ![a.cmd].status = a.status]
                /\ acks' = acks \cup {a}
          /\ reply' = IF call = "ack" /\ a = record
                      THEN [kind |-> IF a \in acks \/ ~Refused(a)
                                     THEN "ok" ELSE "conflict",
                            status |-> row'[a.cmd].status]
                      ELSE reply
  BY DEF AcknowledgeCommand
<1>2. /\ row \in [Commands -> Rows] /\ a.cmd \in Commands /\ a.lease \in 1..MaxLeases
      /\ a.status \in Statuses
  BY DEF TypeInv, Ack, Statuses
<1>3. ASSUME NEW s \in Statuses, row' = [row EXCEPT ![a.cmd].status = s]
      PROVE  /\ row' \in [Commands -> Rows]
             /\ \A d \in Commands : /\ d # a.cmd => row'[d] = row[d]
                                    /\ row'[d].lease = row[d].lease
                                    /\ row'[d].live = row[d].live
                                    /\ row'[d].due = row[d].due
             /\ row'[a.cmd].status = s
  BY <1>2, <1>3 DEF Rows
<1>4. CASE row' = row /\ acks' = acks /\ (a \in acks \/ Refused(a))
  BY <1>1, <1>2, <1>4
<1>5. CASE /\ a \notin acks /\ Refused(a) /\ LeaseHasRunOut(a) /\ acks' = acks
           /\ row' = [row EXCEPT ![a.cmd].status = "expired"]
  <2>1. row[a.cmd].status \in Outstanding /\ "expired" \in Statuses
    BY <1>5 DEF LeaseHasRunOut, Statuses, Terminal
  <2> QED
    BY <1>1, <1>3, <1>5, <2>1
<1>6. CASE /\ a \notin acks /\ ~Refused(a) /\ acks' = acks \cup {a}
           /\ row' = [row EXCEPT ![a.cmd].status = a.status]
  <2>1. row[a.cmd].status # "none"
    BY <1>2, <1>6, Parameters DEF RowInv, Refused
  <2> QED
    BY <1>1, <1>2, <1>3, <1>6, <2>1
<1> QED
  BY <1>1, <1>4, <1>5, <1>6 DEF serverVars

\* A record of another status is still a record of the same command.
LEMMA RestatedRecord ==
    ASSUME NEW r \in Ack, NEW s \in {"accepted", "running"} \cup Terminal
    PROVE  /\ [r EXCEPT !.status = s] \in Ack /\ [r EXCEPT !.status = s] # NoRecord
           /\ [r EXCEPT !.status = s].cmd = r.cmd
           /\ [r EXCEPT !.status = s].status = s
BY Parameters DEF Ack, NoRecord

\* A record under another lease is still a record of the same command.
LEMMA LeasedRecord ==
    ASSUME NEW r \in Ack, NEW n \in 1..MaxLeases
    PROVE  /\ [r EXCEPT !.lease = n] \in Ack /\ [r EXCEPT !.lease = n] # NoRecord
           /\ [r EXCEPT !.lease = n].cmd = r.cmd
           /\ [r EXCEPT !.lease = n].status = r.status
BY Parameters DEF Ack, NoRecord

\* The end of a command: the same command under a terminal status, in RAM, and in
\* flash unless the device halted.
LEMMA TerminalOutcome ==
    ASSUME record \in Ack, journal \in Records, halted \in BOOLEAN,
           NEW s \in Terminal, SetCommandTerminal(s)
    PROVE  /\ record' \in Ack /\ record'.cmd = record.cmd /\ record'.status = s
           /\ journal' \in {journal, record'} /\ journal' \in Records
           /\ halted' \in BOOLEAN /\ (~halted' => journal' = record')
           /\ step' \in {"ack_final", "idle"}
BY RestatedRecord DEF SetCommandTerminal, Journaled, NotJournaled

\* What a start finds: nothing it can read, or the command of the journal, ended.
LEMMA RecoverOutcome ==
    ASSUME journal \in Records, RecoverJournal
    PROVE  /\ journal' \in Records /\ halted' \in BOOLEAN
           /\ \/ /\ record' = NoRecord /\ journal' = journal /\ step' = "idle"
                 /\ ~halted' => journal = NoRecord
              \/ /\ journal \in Ack /\ record' \in Ack
                 /\ record'.cmd = journal.cmd /\ record'.status \in Terminal
                 /\ record'.status \in {journal.status, "failed"}
                 /\ journal' \in {journal, record'} /\ (~halted' => journal' = record')
                 /\ step' \in {"ack_final", "idle"}
<1> DEFINE rec == Recovered(journal)
<1>1. journal # NoRecord =>
          /\ rec \in Ack /\ rec.cmd = journal.cmd /\ rec.status \in Terminal
          /\ rec.status \in {journal.status, "failed"}
  BY RestatedRecord DEF Recovered, Terminal
<1> HIDE DEF rec
<1>2. CASE /\ journal = NoRecord /\ UNCHANGED journal
           /\ record' = NoRecord /\ step' = "idle" /\ halted' = FALSE
  BY <1>2
<1>3. CASE /\ StorageFaults /\ UNCHANGED journal
           /\ record' = NoRecord /\ step' = "idle" /\ halted' = TRUE
  BY <1>3
<1>4. CASE /\ journal # NoRecord /\ record' = rec /\ journal' = rec
           /\ step' = "ack_final" /\ halted' = FALSE
  BY <1>1, <1>4
<1>5. CASE journal # NoRecord /\ NotJournaled(rec) /\ step' = "idle"
  BY <1>1, <1>5 DEF NotJournaled
<1> QED
  BY <1>2, <1>3, <1>4, <1>5 DEF RecoverJournal, rec

\* What the worker makes of a command it polled: it takes it on, is busy, or takes
\* on the new lease of the one it has.
LEMMA HandleOutcome ==
    ASSUME TypeInv, CallInv, HandlePolledCommand
    PROVE  /\ call = "poll" /\ reply.kind = "command" /\ ~halted
           /\ reply.cmd \in Commands
           /\ journal' \in Records /\ halted' \in BOOLEAN
           /\ \/ /\ record.cmd # reply.cmd /\ Accepts(reply.cmd)
                 /\ record' \in Ack /\ record'.cmd = reply.cmd /\ record'.status = "accepted"
                 /\ journal' \in {journal, record'}
                 /\ \/ ~halted' /\ journal' = record' /\ step' = "ack_accepted"
                    \/ halted' /\ step' = step
              \/ UNCHANGED <<record, journal, halted, step>>
              \/ /\ record \in Ack
                 /\ record' \in Ack /\ record'.cmd = record.cmd
                 /\ record'.status = record.status
                 /\ journal' \in {journal, record'} /\ (~halted' => journal' = record')
                 /\ step' \in {step, "ack_final"}
                 /\ step' # step => record.status \in Terminal
<1> DEFINE c == reply.cmd
           new    == [cmd |-> c, lease |-> reply.lease, status |-> "accepted"]
           replay == [record EXCEPT !.lease = reply.lease]
<1>1. /\ call = "poll" /\ reply.kind = "command" /\ ~halted
      /\ c \in Commands /\ reply.lease \in 1..MaxLeases
  BY DEF HandlePolledCommand, CallInv, TypeInv, Replies, NoReply
<1>2. new \in Ack /\ new.cmd = c /\ new.status = "accepted"
  BY <1>1 DEF Ack
<1>3. record \in Records /\ journal \in Records /\ halted \in BOOLEAN
  BY DEF TypeInv
<1>4. record.cmd = c => /\ record \in Ack /\ replay \in Ack /\ replay.cmd = record.cmd
                        /\ replay.status = record.status
  <2>1. NoRecord.cmd = NoCommand /\ c # NoCommand
    BY <1>1, Parameters, NoRecordFields
  <2>2. record.cmd = c => record \in Ack
    BY <1>3, <2>1 DEF Records
  <2> QED
    BY <1>1, <2>2, LeasedRecord
<1> HIDE DEF new, replay
<1>5. CASE /\ record.cmd # c /\ Accepts(c)
           /\ \/ Journaled(new) /\ step' = "ack_accepted"
              \/ NotJournaled(new) /\ UNCHANGED step
  <2>1. CASE Journaled(new) /\ step' = "ack_accepted"
    <3>1. record' = new /\ journal' = new /\ halted' = halted
      BY <2>1 DEF Journaled
    <3> QED
      BY <1>1, <1>2, <1>3, <1>5, <2>1, <3>1
  <2>2. CASE NotJournaled(new) /\ UNCHANGED step
    BY <1>1, <1>2, <1>3, <1>5, <2>2 DEF NotJournaled
  <2> QED
    BY <1>5, <2>1, <2>2
<1>6. CASE UNCHANGED <<recordVars, step>>
  BY <1>1, <1>3, <1>6 DEF recordVars
<1>7. CASE /\ record.cmd = c
           /\ \/ /\ Journaled(replay)
                 /\ step' = IF record.status \in Terminal THEN "ack_final" ELSE step
              \/ NotJournaled(replay) /\ UNCHANGED step
  BY <1>1, <1>4, <1>3, <1>7 DEF Journaled, NotJournaled
<1> QED
  BY <1>5, <1>6, <1>7 DEF HandlePolledCommand, new, replay

-----------------------------------------------------------------------------

\* The device starts with nothing recorded and nothing carried out.
LEMMA ControlInit == Init => ControlInv
<1> SUFFICES ASSUME Init PROVE ControlInv
  OBVIOUS
<1> USE DEF Init
<1>1. TypeInv
  <2>1. row \in [Commands -> Rows]
    BY Parameters DEF NoRow, Rows, Statuses
  <2> QED
    BY <2>1 DEF TypeInv, Records, Steps, Replies, Slots, Empty
<1>2. RowInv
  BY DEF RowInv, NoRow
<1>3. CallInv
  BY DEF CallInv, NoReply
<1>4. JournalInv
  BY DEF JournalInv
<1>5. OrderInv
  BY Parameters DEF OrderInv, NoRecord, NoReply, Settled, NoCommand
<1>6. EffectInv /\ RestartInv
  BY DEF EffectInv, RestartInv
<1>7. MailboxInv
  BY DEF MailboxInv, Empty
<1>8. SuccessInv
  BY DEF SuccessInv, SucceededMeansDone, NoRow, Honest, NoRecord
<1> QED
  BY <1>1, <1>2, <1>3, <1>4, <1>5, <1>6, <1>7, <1>8 DEF ControlInv

\* Every step keeps the types.
LEMMA TypeStep == ControlInv /\ [Next]_vars => TypeInv'
<1> SUFFICES ASSUME ControlInv, [Next]_vars PROVE TypeInv'
  OBVIOUS
<1>0. TypeInv /\ RowInv /\ CallInv /\ JournalInv /\ MailboxInv
  BY DEF ControlInv
<1>1. /\ "queued" \in Statuses /\ "leased" \in Statuses /\ "expired" \in Terminal
      /\ "succeeded" \in Terminal /\ "failed" \in Terminal /\ Terminal \subseteq Statuses
  BY DEF Statuses, Terminal
<1>2. \A T \in SUBSET Stale : Swept(T) \in [Commands -> Rows]
  BY <1>0, SweptRow
<1>3. ASSUME NEW c \in Commands, Do(c) PROVE effects' \in [Commands -> Nat]
  BY <1>0, <1>3 DEF TypeInv, Do
<1>4. step # "idle" => record \in Ack /\ record.cmd \in Commands
  BY <1>0, NoRecordFields DEF TypeInv, JournalInv
<1>5. NoReply \in Replies /\ Empty \in Slots
  BY DEF Replies, Slots, Empty
<1> USE DEF TypeInv, vars, serverVars, workerVars, recordVars, callVars, mainVars, boundVars
<1>a. CASE CreateCommand
  <2>1. PICK c \in Commands : row' = [Swept(Stale) EXCEPT ![c].status = "queued"]
    BY <1>a DEF CreateCommand
  <2>2. row' \in [Commands -> Rows]
    <3> DEFINE S == Swept(Stale)
    <3>1. S \in [Commands -> Rows]
      BY <1>2
    <3> HIDE DEF S
    <3>2. row' = [S EXCEPT ![c].status = "queued"]
      BY <2>1 DEF S
    <3> QED
      BY <1>1, <3>1, <3>2 DEF Rows
  <2> QED
    BY <1>0, <1>a, <2>2 DEF CreateCommand
<1>b. CASE LeaseLapses \/ CommandFallsDue
  <2>1. row' \in [Commands -> Rows]
    BY <1>0, <1>b, MarkOutcome
  <2> QED
    BY <1>0, <1>b, <2>1 DEF LeaseLapses, CommandFallsDue
<1>c. CASE PollControl
  <2>1. row' \in [Commands -> Rows] /\ reply' \in Replies
    BY <1>0, <1>c, <1>2, PollOutcome DEF Replies
  <2> QED
    BY <1>0, <1>c, <2>1 DEF PollControl
<1>d. CASE AcknowledgeCommand
  <2>1. PICK a \in wire :
            /\ row' \in [Commands -> Rows] /\ acks' \in {acks, acks \cup {a}}
            /\ wire' = wire \ {a}
            /\ \/ reply' = reply
               \/ \E kind \in {"ok", "conflict"} :
                      reply' = [kind |-> kind, status |-> row'[a.cmd].status]
    BY <1>0, <1>d, AcknowledgeOutcome
  <2>2. row'[a.cmd].status \in Statuses
    BY <1>0, <2>1 DEF Ack, Rows
  <2>3. reply' \in Replies
    BY <1>0, <2>1, <2>2 DEF Replies
  <2> QED
    BY <1>0, <1>d, <2>1, <2>3 DEF AcknowledgeCommand
<1>e. CASE LoseAck \/ Poll \/ GiveUp
  BY <1>0, <1>5, <1>e DEF LoseAck, Poll, GiveUp
<1>f. CASE HandlePolledCommand
  <2>1. record' \in Records /\ journal' \in Records /\ halted' \in BOOLEAN /\ step' \in Steps
    BY <1>0, <1>f, HandleOutcome DEF Steps
  <2> QED
    BY <1>0, <1>5, <1>f, <2>1 DEF HandlePolledCommand
<1>g. CASE PostAck
  BY <1>0, <1>4, <1>g DEF PostAck, ReportDue
<1>h. CASE AcceptedAcknowledged
  <2>1. record' \in Ack /\ journal' \in Records /\ halted' \in BOOLEAN /\ step' \in Steps
    BY <1>0, <1>4, <1>h, RestatedRecord
    DEF AcceptedAcknowledged, Journaled, NotJournaled, Steps
  <2> QED
    BY <1>0, <1>5, <1>h, <2>1 DEF AcceptedAcknowledged, EndCall
<1>i. CASE ExecuteInWorker
  <2>1. record' \in Ack /\ journal' \in Records /\ halted' \in BOOLEAN /\ step' \in Steps
    BY <1>0, <1>1, <1>4, <1>i, TerminalOutcome DEF ExecuteInWorker, Steps
  <2>2. effects' \in [Commands -> Nat] /\ restartAfter' \in Commands \cup {NoCommand}
    BY <1>0, <1>3, <1>4, <1>i DEF ExecuteInWorker
  <2> QED
    BY <1>0, <1>5, <1>i, <2>1, <2>2 DEF ExecuteInWorker, EndCall
<1>j. CASE ExecuteInMain
  <2>1. record' \in Ack /\ journal' \in Records /\ halted' \in BOOLEAN /\ step' \in Steps
    BY <1>0, <1>1, <1>4, <1>j, TerminalOutcome DEF ExecuteInMain, Steps
  <2>2. slot' \in Slots
    BY <1>0, <1>4, <1>j DEF ExecuteInMain, Slots
  <2> QED
    BY <1>0, <1>5, <1>j, <2>1, <2>2 DEF ExecuteInMain, EndCall
<1>k. CASE FinalAcknowledged
  <2>1. record' \in Records /\ journal' \in Records /\ halted' \in BOOLEAN /\ step' \in Steps
    BY <1>0, <1>k, RecoverOutcome DEF FinalAcknowledged, Steps
  <2>2. effects' \in [Commands -> Nat]
    BY <1>0, <1>3, <1>k DEF FinalAcknowledged
  <2> QED
    BY <1>0, <1>5, <1>k, <2>1, <2>2 DEF FinalAcknowledged, Restarted, EndCall
<1>l. CASE ServiceMainControlResult
  <2>1. PICK s : SetCommandTerminal(s) /\ s \in {slot.code, "failed", "expired"}
                 /\ (slot.state = "result" \/ s = "expired")
    BY <1>l DEF ServiceMainControlResult
  <2>2. s \in Terminal
    BY <1>0, <1>1, <2>1 DEF MailboxInv, Slots
  <2>3. record' \in Ack /\ journal' \in Records /\ halted' \in BOOLEAN /\ step' \in Steps
    BY <1>0, <1>4, <1>l, <2>1, <2>2, TerminalOutcome DEF ServiceMainControlResult, Steps
  <2> QED
    BY <1>0, <1>5, <1>l, <2>3 DEF ServiceMainControlResult
<1>m. CASE TakeRequest
  <2>1. slot.cmd \in Commands
    BY <1>0, <1>m DEF TakeRequest, MailboxInv
  <2>2. effects' \in [Commands -> Nat]
    BY <1>0, <1>3, <1>m, <2>1 DEF TakeRequest
  <2>3. slot' \in Slots /\ mainActive' \in Commands \cup {NoCommand}
    BY <1>0, <1>m, <2>1 DEF TakeRequest, PublishResult, Slots
  <2> QED
    BY <1>0, <1>m, <2>2, <2>3 DEF TakeRequest
<1>n. CASE ConfirmLocally \/ ConfirmationTimesOut
  BY <1>0, <1>3, <1>n DEF ConfirmLocally, ConfirmationTimesOut, PublishResult, Slots
<1>o. CASE PowerLoss
  <2>1. record' \in Records /\ journal' \in Records /\ halted' \in BOOLEAN /\ step' \in Steps
    BY <1>0, <1>o, RecoverOutcome DEF PowerLoss, Steps
  <2> QED
    BY <1>0, <1>5, <1>o, <2>1 DEF PowerLoss, Restarted
<1>p. CASE UNCHANGED vars
  BY <1>0, <1>p
<1> QED
  BY <1>a, <1>b, <1>c, <1>d, <1>e, <1>f, <1>g, <1>h, <1>i, <1>j, <1>k, <1>l, <1>m, <1>n,
     <1>o, <1>p
  DEF Next, Server, Worker, Main

-----------------------------------------------------------------------------

\* Rows change only on the server.
LEMMA RowSteps ==
    ASSUME [Next]_vars
    PROVE  \/ CreateCommand \/ LeaseLapses \/ CommandFallsDue \/ PollControl
           \/ AcknowledgeCommand
           \/ UNCHANGED serverVars
<1> USE DEF vars, serverVars, workerVars, recordVars, callVars, mainVars, boundVars
<1>1. CASE LoseAck \/ UNCHANGED vars
  BY <1>1 DEF LoseAck
<1>2. CASE Worker
  BY <1>2 DEF Worker, Poll, GiveUp, HandlePolledCommand, PostAck, AcceptedAcknowledged,
              ExecuteInWorker, ExecuteInMain, FinalAcknowledged, ServiceMainControlResult
<1>3. CASE Main \/ PowerLoss
  BY <1>3 DEF Main, TakeRequest, ConfirmLocally, ConfirmationTimesOut, PowerLoss
<1> QED
  BY <1>1, <1>2, <1>3 DEF Next, Server

\* Every step keeps the rows in the order of their commands.
LEMMA RowStep == ControlInv /\ [Next]_vars => RowInv'
<1> SUFFICES ASSUME ControlInv, [Next]_vars PROVE RowInv'
  OBVIOUS
<1>0. TypeInv /\ RowInv /\ row \in [Commands -> Rows]
  BY DEF ControlInv, TypeInv
<1>1. CASE CreateCommand
  <2>1. PICK c \in Commands :
            /\ row[c].status = "none"
            /\ \A b \in 1..(c - 1) : row[b].status # "none"
            /\ row' = [Swept(Stale) EXCEPT ![c].status = "queued"]
    BY <1>1 DEF CreateCommand
  <2>2. \A b \in Commands : b < c => row[b].status # "none"
    BY <2>1, ControlAssumption DEF Commands
  <2> DEFINE S == Swept(Stale)
  <2>3. /\ S \in [Commands -> Rows]
        /\ \A d \in Commands : /\ S[d].lease = row[d].lease /\ S[d].live = row[d].live
                               /\ S[d].status = "none" <=> row[d].status = "none"
    BY <1>0, SweptRow DEF Outstanding
  <2>4. row' = [S EXCEPT ![c].status = "queued"]
    BY <2>1
  <2> HIDE DEF S
  <2>5. \A d \in Commands : /\ d # c => row'[d] = S[d]
                            /\ row'[d].lease = S[d].lease /\ row'[d].live = S[d].live
    BY <2>3, <2>4 DEF Rows
  <2>6. row'[c].status = "queued"
    BY <2>1, <2>3, <2>4 DEF Rows
  <2> QED
    BY <1>0, <2>1, <2>2, <2>3, <2>5, <2>6, Parameters DEF RowInv
<1>2. CASE LeaseLapses \/ CommandFallsDue
  BY <1>0, <1>2, MarkOutcome DEF RowInv
<1>3. CASE PollControl
  <2>1. PICK T \in SUBSET Stale :
               \/ row' = Swept(T)
               \/ \E first \in Commands, n \in 1..MaxLeases :
                      /\ row[first].status \in Outstanding
                      /\ \A d \in Commands \ {first} : row'[d] = Swept(T)[d]
                      /\ row'[first].status = "leased" /\ row'[first].lease = n
    BY <1>0, <1>3, PollOutcome
  <2>2. \A d \in Commands : /\ Swept(T)[d].lease = row[d].lease
                            /\ Swept(T)[d].live = row[d].live
                            /\ Swept(T)[d].status = "none" <=> row[d].status = "none"
    BY <1>0, SweptRow DEF Outstanding
  <2>3. CASE row' = Swept(T)
    BY <1>0, <2>2, <2>3 DEF RowInv
  <2>4. ASSUME NEW first \in Commands, NEW n \in 1..MaxLeases,
               row[first].status \in Outstanding,
               \A d \in Commands \ {first} : row'[d] = Swept(T)[d],
               row'[first].status = "leased", row'[first].lease = n
        PROVE  RowInv'
    BY <1>0, <2>2, <2>4, Parameters DEF RowInv, Outstanding
  <2> QED
    BY <2>1, <2>3, <2>4
<1>4. CASE AcknowledgeCommand
  <2>1. PICK a \in wire :
            /\ \A d \in Commands : /\ d # a.cmd => row'[d] = row[d]
                                   /\ row'[d].lease = row[d].lease
                                   /\ row'[d].live = row[d].live
            /\ row'[a.cmd].status = "none" <=> row[a.cmd].status = "none"
    BY <1>0, <1>4, AcknowledgeOutcome DEF TypeInv, Ack, Outstanding, Terminal
  <2> QED
    BY <1>0, <2>1 DEF RowInv
<1>5. CASE UNCHANGED serverVars
  BY <1>0, <1>5 DEF RowInv, serverVars
<1> QED
  BY <1>1, <1>2, <1>3, <1>4, <1>5, RowSteps

\* A command that has left the queue, or can never leave it any other way than by
\* expiring, stays so; what the server agreed to stays agreed.
LEMMA ServerForgetsNothing ==
    ASSUME ControlInv, [Next]_vars, NEW c \in Commands
    PROVE  /\ Settled(c) => Settled(c)'
           /\ Released(c) => Released(c)'
           /\ acks \subseteq acks'
<1>0. TypeInv /\ RowInv /\ row \in [Commands -> Rows]
  BY DEF ControlInv, TypeInv
<1>1. acks \subseteq acks'
  <2>1. CASE AcknowledgeCommand
    BY <1>0, <2>1, AcknowledgeOutcome
  <2>2. CASE ~AcknowledgeCommand
    BY <2>2, RowSteps DEF CreateCommand, LeaseLapses, CommandFallsDue, PollControl, serverVars
  <2> QED
    BY <2>1, <2>2
<1>2. Released(c) => Released(c)'
  BY <1>1 DEF Released
<1>3. ASSUME Settled(c) PROVE Settled(c)'
  <2>1. CASE CreateCommand
    <3>1. PICK d \in Commands :
              /\ row[d].status = "none"
              /\ row' = [Swept(Stale) EXCEPT ![d].status = "queued"]
      BY <2>1 DEF CreateCommand
    <3>2. row'[c] = Swept(Stale)[c]
      BY <1>0, <1>3, <3>1, SweptRow DEF Settled
    <3> QED
      BY <1>0, <1>3, <3>2, SweptRow DEF Settled, Outstanding
  <2>2. CASE LeaseLapses \/ CommandFallsDue
    BY <1>0, <1>3, <2>2, MarkOutcome DEF Settled
  <2>3. CASE PollControl
    <3>1. PICK T \in SUBSET Stale : row'[c] = Swept(T)[c]
      BY <1>0, <1>3, <2>3, PollOutcome DEF Settled
    <3> QED
      BY <1>0, <1>3, <3>1, SweptRow DEF Settled, Outstanding
  <2>4. CASE AcknowledgeCommand
    BY <1>0, <1>3, <2>4, AcknowledgeOutcome DEF TypeInv, Ack, Settled, Outstanding, Terminal
  <2>5. CASE UNCHANGED serverVars
    BY <1>3, <2>5 DEF Settled, serverVars
  <2> QED
    BY <2>1, <2>2, <2>3, <2>4, <2>5, RowSteps
<1> QED
  BY <1>1, <1>2, <1>3

\* What may become of the worker's record, its journal and its step: nothing, a
\* command taken from a poll, the same command taken further, or a restart.
LEMMA RecordSteps ==
    ASSUME ControlInv, [Next]_vars
    PROVE  \/ UNCHANGED <<record, journal, halted, step>>
           \/ HandlePolledCommand
           \/ /\ record \in Ack /\ record' \in Ack /\ record'.cmd = record.cmd
              /\ journal' \in {journal, record'} /\ journal' \in Records
              /\ ~halted' => journal' = record'
              /\ \/ /\ step = "ack_accepted" /\ record'.status = "running"
                    /\ \/ step' = "ack_running" /\ journal' = record'
                       \/ step' = step
                 \/ /\ step = "ack_running" /\ step' = "waiting_main"
                    /\ UNCHANGED <<record, journal>>
                 \/ /\ step \in {"ack_running", "waiting_main"}
                    /\ record'.status \in Terminal /\ step' \in {"ack_final", "idle"}
                 \/ /\ step = "ack_final" /\ step' = "idle"
                    /\ UNCHANGED <<record, journal>>
           \/ RecoverJournal /\ call' = "none" /\ reply' = NoReply
<1>0. /\ TypeInv /\ CallInv /\ JournalInv /\ MailboxInv
      /\ journal \in Records /\ halted \in BOOLEAN
      /\ "succeeded" \in Terminal /\ "failed" \in Terminal /\ "expired" \in Terminal
  BY DEF ControlInv, TypeInv, Terminal
<1>1. step # "idle" => record \in Ack
  BY <1>0 DEF TypeInv, JournalInv
<1>2. ASSUME NEW s \in Terminal, SetCommandTerminal(s), step # "idle"
      PROVE  /\ record' \in Ack /\ record'.cmd = record.cmd /\ record'.status = s
             /\ journal' \in {journal, record'} /\ journal' \in Records
             /\ ~halted' => journal' = record'
             /\ step' \in {"ack_final", "idle"}
  BY <1>0, <1>1, <1>2, TerminalOutcome
<1> USE DEF vars, serverVars, workerVars, recordVars, callVars, mainVars, boundVars
<1>a. CASE Server \/ Main \/ UNCHANGED vars
  BY <1>a DEF Server, CreateCommand, LeaseLapses, CommandFallsDue, PollControl,
              AcknowledgeCommand, LoseAck, Main, TakeRequest, ConfirmLocally,
              ConfirmationTimesOut
<1>b. CASE Poll \/ GiveUp \/ PostAck
  BY <1>b DEF Poll, GiveUp, PostAck
<1>c. CASE AcceptedAcknowledged
  <2> DEFINE rec == [record EXCEPT !.status = "running"]
  <2>1. record \in Ack /\ step = "ack_accepted"
    BY <1>1, <1>c DEF AcceptedAcknowledged
  <2>2. rec \in Ack /\ rec.cmd = record.cmd /\ rec.status = "running"
    BY <2>1, RestatedRecord
  <2>3. \/ Journaled(rec) /\ step' = "ack_running"
        \/ NotJournaled(rec) /\ UNCHANGED step
    BY <1>c DEF AcceptedAcknowledged
  <2> HIDE DEF rec
  <2> QED
    BY <1>0, <2>1, <2>2, <2>3 DEF Journaled, NotJournaled
<1>d. CASE ExecuteInWorker
  <2>1. step = "ack_running" /\ \E s \in Terminal : SetCommandTerminal(s)
    BY <1>0, <1>d DEF ExecuteInWorker
  <2> QED
    BY <1>1, <1>2, <2>1
<1>e. CASE ExecuteInMain
  <2>1. CASE \E s \in Terminal : SetCommandTerminal(s)
    BY <1>1, <1>2, <1>e, <2>1 DEF ExecuteInMain
  <2>2. CASE step' = "waiting_main" /\ UNCHANGED recordVars
    BY <1>0, <1>1, <1>e, <2>2 DEF ExecuteInMain, JournalInv
  <2> QED
    BY <1>0, <1>e, <2>1, <2>2 DEF ExecuteInMain
<1>f. CASE FinalAcknowledged
  <2>1. CASE step' = "idle" /\ UNCHANGED recordVars
    BY <1>0, <1>1, <1>f, <2>1 DEF FinalAcknowledged, JournalInv
  <2>2. CASE RecoverJournal /\ Restarted
    BY <2>2 DEF Restarted
  <2> QED
    BY <1>f, <2>1, <2>2 DEF FinalAcknowledged
<1>g. CASE ServiceMainControlResult
  <2>1. PICK s : SetCommandTerminal(s) /\ s \in {slot.code, "failed", "expired"}
                 /\ (slot.state = "result" \/ s = "expired")
    BY <1>g DEF ServiceMainControlResult
  <2>2. s \in Terminal
    BY <1>0, <2>1 DEF MailboxInv, TypeInv, Slots
  <2> QED
    BY <1>1, <1>2, <1>g, <2>1, <2>2 DEF ServiceMainControlResult
<1>h. CASE PowerLoss
  BY <1>h DEF PowerLoss, Restarted
<1> QED
  BY <1>a, <1>b, <1>c, <1>d, <1>e, <1>f, <1>g, <1>h DEF Next, Worker

\* Every step keeps what is known of the call under way.
LEMMA CallStep == ControlInv /\ [Next]_vars => CallInv'
<1> SUFFICES ASSUME ControlInv, [Next]_vars PROVE CallInv'
  OBVIOUS
<1>0. TypeInv /\ RowInv /\ CallInv /\ NoReply.kind = "none"
  BY DEF ControlInv, NoReply
<1>1. acks \subseteq acks'
  BY ServerForgetsNothing, RowSteps, <1>0, AcknowledgeOutcome
  DEF CreateCommand, LeaseLapses, CommandFallsDue, PollControl, serverVars
<1> USE DEF vars, serverVars, workerVars, recordVars, callVars, mainVars, boundVars
<1>a. CASE CreateCommand \/ LeaseLapses \/ CommandFallsDue \/ LoseAck \/ Main
           \/ UNCHANGED vars
  BY <1>0, <1>1, <1>a
  DEF CallInv, CreateCommand, LeaseLapses, CommandFallsDue, LoseAck, Main, TakeRequest,
      ConfirmLocally, ConfirmationTimesOut
<1>b. CASE PollControl
  <2>1. /\ reply'.kind \in {"nothing", "command"}
        /\ call = "poll" /\ call' = call /\ UNCHANGED halted
    <3>1. \/ reply' = [kind |-> "nothing"]
          \/ \E c \in Commands, n \in 1..MaxLeases :
                 reply' = [kind |-> "command", cmd |-> c, lease |-> n]
      BY <1>0, <1>b, PollOutcome
    <3>2. call = "poll" /\ call' = call /\ UNCHANGED halted
      BY <1>b DEF PollControl
    <3>3. reply'.kind \in {"nothing", "command"}
      BY <3>1
    <3> QED
      BY <3>2, <3>3
  <2> QED
    BY <1>0, <2>1 DEF CallInv
<1>c. CASE AcknowledgeCommand
  <2>1. \/ reply' = reply
        \/ /\ call = "ack" /\ reply'.kind \in {"ok", "conflict"}
           /\ reply'.kind = "ok" => record \in acks'
    BY <1>0, <1>c, AcknowledgeOutcome
  <2>2. UNCHANGED <<call, record, halted>>
    BY <1>c DEF AcknowledgeCommand
  <2> QED
    BY <1>0, <1>1, <2>1, <2>2 DEF CallInv
<1>d. CASE Poll \/ PostAck
  BY <1>0, <1>d DEF CallInv, Poll, PostAck
<1>e. CASE \/ GiveUp \/ HandlePolledCommand \/ AcceptedAcknowledged \/ ExecuteInWorker
           \/ ExecuteInMain \/ FinalAcknowledged \/ PowerLoss
  <2>1. call' = "none" /\ reply' = NoReply
    BY <1>e DEF GiveUp, HandlePolledCommand, AcceptedAcknowledged, ExecuteInWorker,
                ExecuteInMain, FinalAcknowledged, PowerLoss, Restarted, EndCall
  <2> QED
    BY <2>1 DEF CallInv
<1>f. CASE ServiceMainControlResult
  BY <1>0, <1>f DEF CallInv, ServiceMainControlResult
<1> QED
  BY <1>a, <1>b, <1>c, <1>d, <1>e, <1>f DEF Next, Server, Worker

\* Every step keeps RAM and flash together: flash is behind only when the device
\* halted, and a command is under way in RAM only as flash has it.
LEMMA JournalStep == ControlInv /\ [Next]_vars => JournalInv'
<1> SUFFICES ASSUME ControlInv, [Next]_vars PROVE JournalInv'
  OBVIOUS
<1>0. /\ TypeInv /\ CallInv /\ JournalInv /\ OrderInv
      /\ record \in Records /\ journal \in Records /\ step \in Steps /\ halted \in BOOLEAN
      /\ record.cmd \in Nat /\ journal.cmd \in Nat
  BY NoRecordFields DEF ControlInv, TypeInv
<1>1. TypeInv' /\ (\A r \in Ack : r # NoRecord /\ r.cmd \in Nat)
  BY TypeStep, NoRecordFields, Parameters
<1>a. CASE UNCHANGED <<record, journal, halted, step>>
  BY <1>0, <1>a DEF JournalInv
<1>b. CASE HandlePolledCommand
  <2>1. CASE /\ record.cmd # reply.cmd /\ Accepts(reply.cmd)
             /\ record' \in Ack /\ record'.cmd = reply.cmd /\ record'.status = "accepted"
             /\ journal' \in {journal, record'}
             /\ \/ ~halted' /\ journal' = record' /\ step' = "ack_accepted"
                \/ halted' /\ step' = step
    <3>1. step \in {"idle", "ack_final"}
      BY <1>0, <2>1 DEF JournalInv, Accepts, Terminal, Steps
    <3>2. record'.cmd >= journal'.cmd
      <4>1. record = journal /\ record.cmd <= reply.cmd
        BY <1>0, <1>b, HandleOutcome DEF JournalInv, OrderInv
      <4> QED
        BY <1>0, <1>1, <2>1, <4>1
    <3> QED
      BY <1>1, <2>1, <3>1, <3>2 DEF JournalInv
  <2>2. CASE UNCHANGED <<record, journal, halted, step>>
    BY <1>0, <2>2 DEF JournalInv
  <2>3. CASE /\ record \in Ack
             /\ record' \in Ack /\ record'.cmd = record.cmd
             /\ record'.status = record.status
             /\ journal' \in {journal, record'} /\ (~halted' => journal' = record')
             /\ step' \in {step, "ack_final"}
             /\ step' # step => record.status \in Terminal
    BY <1>0, <1>1, <2>3 DEF JournalInv
  <2> QED
    BY <1>0, <1>b, <2>1, <2>2, <2>3, HandleOutcome
<1>c. CASE /\ record \in Ack /\ record' \in Ack /\ record'.cmd = record.cmd
           /\ journal' \in {journal, record'} /\ journal' \in Records
           /\ ~halted' => journal' = record'
           /\ \/ /\ step = "ack_accepted" /\ record'.status = "running"
                 /\ \/ step' = "ack_running" /\ journal' = record'
                    \/ step' = step
              \/ /\ step = "ack_running" /\ step' = "waiting_main"
                 /\ UNCHANGED <<record, journal>>
              \/ /\ step \in {"ack_running", "waiting_main"}
                 /\ record'.status \in Terminal /\ step' \in {"ack_final", "idle"}
              \/ /\ step = "ack_final" /\ step' = "idle"
                 /\ UNCHANGED <<record, journal>>
  BY <1>0, <1>1, <1>c DEF JournalInv
<1>d. CASE RecoverJournal
  BY <1>0, <1>1, <1>d, RecoverOutcome, NoRecordFields DEF JournalInv
<1> QED
  BY <1>a, <1>b, <1>c, <1>d, RecordSteps

\* Only a poll brings a command, and only when the call ends is it gone.
LEMMA ReplySteps ==
    ASSUME ControlInv, [Next]_vars
    PROVE  PollControl \/ reply' = reply \/ reply'.kind # "command"
<1>0. TypeInv /\ RowInv /\ NoReply.kind = "none"
  BY DEF ControlInv, NoReply
<1> USE DEF vars, serverVars, workerVars, recordVars, callVars, mainVars, boundVars
<1>1. CASE AcknowledgeCommand
  BY <1>0, <1>1, AcknowledgeOutcome
<1>2. CASE CreateCommand \/ LeaseLapses \/ CommandFallsDue \/ LoseAck \/ Main
           \/ UNCHANGED vars
  BY <1>2 DEF CreateCommand, LeaseLapses, CommandFallsDue, LoseAck, Main, TakeRequest,
              ConfirmLocally, ConfirmationTimesOut
<1>3. CASE Worker \/ PowerLoss
  BY <1>0, <1>3 DEF Worker, Poll, GiveUp, HandlePolledCommand, PostAck,
     AcceptedAcknowledged, ExecuteInWorker, ExecuteInMain, FinalAcknowledged,
     ServiceMainControlResult, PowerLoss, Restarted, EndCall
<1> QED
  BY <1>1, <1>2, <1>3 DEF Next, Server

\* Every step keeps the order: whatever comes before the command under way has
\* left the queue for good, so a poll never goes back.
LEMMA OrderStep == ControlInv /\ [Next]_vars => OrderInv'
<1> SUFFICES ASSUME ControlInv, [Next]_vars PROVE OrderInv'
  OBVIOUS
<1>0. TypeInv /\ RowInv /\ CallInv /\ JournalInv /\ OrderInv
  BY DEF ControlInv
<1>1. \A b \in Commands : Settled(b) => Settled(b)'
  BY ServerForgetsNothing
<1>2. /\ record.cmd \in Nat /\ journal.cmd \in Nat /\ record'.cmd \in Nat
      /\ journal'.cmd \in Nat /\ NoRecord.cmd = 0
  BY <1>0, TypeStep, NoRecordFields DEF TypeInv, NoCommand
<1>3. \/ reply'.kind # "command"
      \/ reply' = reply /\ reply.cmd \in Nat
      \/ PollControl
  <2>1. reply.kind = "command" => reply.cmd \in Nat
    <3>1. reply.kind = "command" => reply \in [kind : {"command"}, cmd : Commands,
                                               lease : 1..MaxLeases]
      BY <1>0 DEF TypeInv, Replies, NoReply
    <3> QED
      BY <3>1, Parameters
  <2> QED
    BY <2>1, ReplySteps
<1>4. /\ \/ record'.cmd \in {record.cmd, journal.cmd, 0}
         \/ HandlePolledCommand /\ record'.cmd = reply.cmd
      /\ journal'.cmd \in {record.cmd, journal.cmd, record'.cmd}
  <2>1. CASE HandlePolledCommand
    BY <1>0, <2>1, HandleOutcome
  <2>2. CASE RecoverJournal
    BY <1>0, <1>2, <2>2, RecoverOutcome DEF TypeInv
  <2> QED
    BY <2>1, <2>2, RecordSteps
<1>5. HandlePolledCommand => /\ reply.kind = "command" /\ reply' = NoReply
                             /\ NoReply.kind = "none"
  BY DEF HandlePolledCommand, NoReply
<1>6. ASSUME NEW b \in Commands, b < record'.cmd \/ b < journal'.cmd
      PROVE  Settled(b)'
  <2>1. \/ b < record.cmd \/ b < journal.cmd
        \/ reply.kind = "command" /\ b < reply.cmd
    <3>1. b \in Nat /\ ~(b < 0)
      BY Parameters
    <3> QED
      BY <1>2, <1>4, <1>5, <1>6, <3>1
  <2> QED
    BY <1>0, <1>1, <2>1 DEF OrderInv
<1>7. ASSUME PollControl, reply'.kind = "command"
      PROVE  /\ record'.cmd <= reply'.cmd
             /\ \A b \in Commands : b < reply'.cmd => Settled(b)'
  <2>1. PICK first \in Commands, n \in 1..MaxLeases :
            /\ row[first].status \in Outstanding /\ ~row[first].due
            /\ \A d \in Commands :
                   row[d].status \in Outstanding /\ ~row[d].due => first <= d
            /\ reply' = [kind |-> "command", cmd |-> first, lease |-> n]
    <3>1. reply' # [kind |-> "nothing"]
      BY <1>7
    <3> QED
      BY <1>0, <1>7, <3>1, PollOutcome
  <2>2. UNCHANGED record /\ reply'.cmd = first
    BY <1>7, <2>1 DEF PollControl, recordVars
  <2>3. ~Settled(first)
    BY <2>1 DEF Settled
  <2>4. record.cmd <= first
    BY <1>0, <1>2, <2>1, <2>3, Parameters DEF OrderInv
  <2>5. ASSUME NEW b \in Commands, b < first PROVE Settled(b)
    <3>1. row[b].status # "none"
      BY <1>0, <2>1, <2>5 DEF RowInv, Outstanding
    <3>2. ~(first <= b)
      BY <2>1, <2>5, Parameters
    <3> QED
      BY <2>1, <3>1, <3>2 DEF Settled
  <2> QED
    BY <1>1, <2>2, <2>4, <2>5
<1>8. ASSUME ~PollControl, reply'.kind = "command"
      PROVE  /\ record'.cmd <= reply'.cmd
             /\ \A b \in Commands : b < reply'.cmd => Settled(b)'
  <2>1. reply' = reply /\ reply.cmd \in Nat /\ ~HandlePolledCommand
    BY <1>3, <1>5, <1>8
  <2>2. record'.cmd = record.cmd
    BY <1>8, <2>1, RecordSteps DEF NoReply
  <2> QED
    BY <1>0, <1>1, <1>8, <2>1, <2>2 DEF OrderInv
<1> QED
  BY <1>6, <1>7, <1>8 DEF OrderInv

\* What was started stays started: flash and RAM only move on from it.
LEMMA StartedStable ==
    ASSUME ControlInv, [Next]_vars, NEW c \in Commands, Started(c)
    PROVE  Started(c)'
<1>0. /\ TypeInv /\ CallInv /\ JournalInv /\ OrderInv
      /\ record \in Records /\ journal \in Records /\ step \in Steps
      /\ record.cmd \in Nat /\ journal.cmd \in Nat /\ c \in Nat
      /\ "accepted" \notin Terminal /\ "running" \notin Terminal
  BY NoRecordFields, Parameters DEF ControlInv, TypeInv, Terminal
<1>1. Released(c)'
  BY ServerForgetsNothing DEF Started
<1>a. CASE UNCHANGED <<record, journal, halted, step>>
  BY <1>1, <1>a DEF Started, InFlash, InRam
<1>b. CASE HandlePolledCommand
  <2>1. CASE /\ record.cmd # reply.cmd /\ record'.cmd = reply.cmd
             /\ journal' \in {journal, record'}
    <3>1. /\ record = journal /\ reply.cmd \in Nat /\ record.cmd <= reply.cmd
      BY <1>0, <1>b, HandleOutcome, Parameters DEF JournalInv, OrderInv
    <3>2. record.cmd >= c
      BY <1>0, <3>1 DEF Started, InFlash
    <3>3. record'.cmd > c
      BY <1>0, <2>1, <3>1, <3>2
    <3> QED
      BY <1>1, <2>1, <3>3 DEF Started, InFlash, InRam
  <2>2. CASE UNCHANGED <<record, journal, halted, step>>
    BY <1>1, <2>2 DEF Started, InFlash, InRam
  <2>3. CASE /\ record \in Ack /\ record'.cmd = record.cmd /\ record'.status = record.status
             /\ journal' \in {journal, record'}
             /\ step' \in {step, "ack_final"}
             /\ step' # step => record.status \in Terminal
    <3>1. record = journal
      BY <1>0, <1>b, HandleOutcome DEF JournalInv
    <3> QED
      BY <1>0, <1>1, <2>3, <3>1, NoRecordFields DEF Started, InFlash, InRam
  <2> QED
    BY <1>0, <1>b, <2>1, <2>2, <2>3, HandleOutcome
<1>c. CASE /\ record \in Ack /\ record' \in Ack /\ record'.cmd = record.cmd
           /\ journal' \in {journal, record'}
           /\ \/ step = "ack_accepted"
              \/ /\ step = "ack_running" /\ step' = "waiting_main"
                 /\ UNCHANGED <<record, journal>>
              \/ step \in {"ack_running", "waiting_main"} /\ record'.status \in Terminal
              \/ step = "ack_final" /\ UNCHANGED <<record, journal>>
  <2>1. CASE record.cmd > c
    BY <1>1, <1>c, <2>1 DEF Started, InFlash, InRam
  <2>2. CASE record.cmd = c
    <3>1. record.status \in Terminal \/ step = "waiting_main"
      BY <1>0, <1>c, <2>2, NoRecordFields DEF Started, InRam
    <3>2. CASE step = "ack_accepted"
      BY <1>0, <3>1, <3>2 DEF JournalInv
    <3>3. CASE step = "ack_running"
      BY <1>0, <3>1, <3>3 DEF JournalInv
    <3>4. CASE step = "waiting_main"
      <4>1. record'.status \in Terminal
        BY <1>c, <3>4
      <4> QED
        BY <1>0, <1>1, <1>c, <2>2, <4>1 DEF Started, InFlash, InRam
    <3>5. CASE step = "ack_final"
      <4>1. UNCHANGED <<record, journal>> /\ record.status \in Terminal
        BY <1>c, <3>1, <3>5
      <4> QED
        BY <1>1, <2>2, <4>1 DEF Started, InFlash, InRam
    <3> QED
      BY <1>c, <3>2, <3>3, <3>4, <3>5
  <2> QED
    BY <1>0, <1>c, <2>1, <2>2, NoRecordFields DEF Started, InRam
<1>d. CASE RecoverJournal
  <2>1. CASE record' = NoRecord /\ journal' = journal
    BY <1>1, <2>1 DEF Started, InFlash, InRam
  <2>2. CASE /\ record'.cmd = journal.cmd /\ record'.status \in Terminal
             /\ journal' \in {journal, record'}
    BY <1>0, <1>1, <2>2 DEF Started, InFlash, InRam
  <2> QED
    BY <1>0, <1>d, <2>1, <2>2, RecoverOutcome
<1> QED
  BY <1>a, <1>b, <1>c, <1>d, RecordSteps

\* A command the worker is about to carry out has had no effect: the worker's RAM
\* does not know it as started.
LEMMA NotYetDone ==
    ASSUME ControlInv, step = "ack_running"
    PROVE  record \in Ack /\ record.cmd \in Commands /\ effects[record.cmd] = 0
<1>1. /\ TypeInv /\ JournalInv /\ EffectInv
      /\ record \in Ack /\ record.cmd \in Commands
  BY NoRecordFields DEF ControlInv, TypeInv, JournalInv
<1>2. ~InRam(record.cmd)
  <2>1. record # NoRecord /\ record.cmd \in Nat /\ record.status = "running"
    BY <1>1, NoRecordFields DEF JournalInv
  <2> QED
    BY <2>1 DEF InRam, Terminal
<1> QED
  BY <1>1, <1>2 DEF EffectInv, Started, TypeInv

\* Once the server agreed that a command runs, carrying it out or handing it over
\* starts it.
LEMMA StartedNow ==
    ASSUME ControlInv, [Next]_vars, Acknowledged, step = "ack_running",
           \/ \E s \in Terminal : SetCommandTerminal(s)
           \/ step' = "waiting_main" /\ UNCHANGED recordVars,
           NEW c \in Commands, c = record.cmd
    PROVE  Started(c)'
<1>0. /\ TypeInv /\ CallInv /\ JournalInv
      /\ record \in Ack /\ journal \in Records /\ halted \in BOOLEAN
      /\ record.status = "running" /\ journal.cmd = c /\ journal.status = "running"
      /\ "accepted" \notin Terminal
  BY NotYetDone DEF ControlInv, TypeInv, JournalInv, Terminal
<1>1. Released(c)
  BY <1>0 DEF Released, CallInv, Acknowledged
<1>2. Released(c)'
  BY <1>1, ServerForgetsNothing
<1>3. CASE \E s \in Terminal : SetCommandTerminal(s)
  <2>1. /\ record'.cmd = c /\ record'.status \in Terminal
        /\ journal' \in {journal, record'}
    BY <1>0, <1>3, TerminalOutcome
  <2> QED
    BY <1>0, <1>2, <2>1 DEF Started, InFlash, InRam
<1>4. CASE step' = "waiting_main" /\ UNCHANGED recordVars
  BY <1>0, <1>2, <1>4 DEF Started, InFlash, InRam, recordVars
<1> QED
  BY <1>3, <1>4

\* Whatever is carried out had no effect before and is started now: it is what the
\* worker does by itself, the restart it owes, or what the mailbox holds.
LEMMA EffectOutcome ==
    ASSUME ControlInv, [Next]_vars
    PROVE  \/ effects' = effects
           \/ \E c \in Commands :
                  /\ effects[c] = 0 /\ effects' = [effects EXCEPT ![c] = 1]
                  /\ Started(c)'
                  /\ \/ ActionOf[c] = "local"
                     \/ ActionOf[c] = "reboot" /\ restartAfter' = NoCommand
                     \/ c = slot.cmd /\ slot.state \in {"pending", "in_flight"}
                        /\ slot'.state = "result" /\ slot'.cmd = c
<1>0. /\ TypeInv /\ RestartInv /\ MailboxInv /\ effects \in [Commands -> Nat]
  BY DEF ControlInv, TypeInv
<1>1. ASSUME NEW c \in Commands, effects[c] = 0, Do(c)
      PROVE  effects' = [effects EXCEPT ![c] = 1]
  BY <1>0, <1>1 DEF Do
<1> USE DEF vars, serverVars, workerVars, recordVars, callVars, mainVars, boundVars
<1>a. CASE Server \/ UNCHANGED vars
  BY <1>a DEF Server, CreateCommand, LeaseLapses, CommandFallsDue, PollControl,
              AcknowledgeCommand, LoseAck
<1>b. CASE \/ Poll \/ GiveUp \/ HandlePolledCommand \/ PostAck \/ AcceptedAcknowledged
           \/ ExecuteInMain \/ ServiceMainControlResult
           \/ ConfirmationTimesOut \/ PowerLoss
  BY <1>b DEF Poll, GiveUp, HandlePolledCommand, PostAck, AcceptedAcknowledged,
              ExecuteInMain, ServiceMainControlResult, ConfirmationTimesOut, PowerLoss
<1>c. CASE ExecuteInWorker
  <2>1. CASE UNCHANGED effects
    BY <2>1
  <2>2. CASE ActionOf[record.cmd] = "local" /\ Do(record.cmd)
    <3>1. /\ Acknowledged /\ step = "ack_running"
          /\ \E s \in Terminal : SetCommandTerminal(s)
      BY <1>c DEF ExecuteInWorker, Terminal
    <3>2. PICK c \in Commands : c = record.cmd /\ effects[c] = 0
      BY <3>1, NotYetDone
    <3>3. Started(c)'
      BY <3>1, <3>2, StartedNow
    <3> QED
      BY <1>1, <2>2, <3>2, <3>3
  <2> QED
    BY <1>c, <2>1, <2>2 DEF ExecuteInWorker
<1>d. CASE FinalAcknowledged
  <2>1. CASE UNCHANGED effects
    BY <2>1
  <2>2. CASE restartAfter # NoCommand /\ Do(restartAfter) /\ Restarted
    <3>1. PICK c \in Commands :
              /\ c = restartAfter /\ effects[c] = 0 /\ Started(c) /\ ActionOf[c] = "reboot"
      BY <1>0, <2>2 DEF RestartInv, TypeInv
    <3>2. Started(c)'
      BY <3>1, StartedStable
    <3> QED
      BY <1>1, <2>2, <3>1, <3>2 DEF Restarted
  <2> QED
    BY <1>d, <2>1, <2>2 DEF FinalAcknowledged
<1>e. CASE TakeRequest \/ ConfirmLocally
  <2>1. CASE UNCHANGED effects
    BY <2>1
  <2>2. CASE ~UNCHANGED effects
    <3>1. /\ slot.state \in {"pending", "in_flight"}
          /\ Do(slot.cmd) /\ PublishResult("succeeded")
      <4>1. CASE TakeRequest
        BY <2>2, <4>1 DEF TakeRequest
      <4>2. CASE ConfirmLocally
        BY <1>0, <2>2, <4>2 DEF ConfirmLocally, MailboxInv
      <4> QED
        BY <1>e, <4>1, <4>2
    <3>2. PICK c \in Commands : c = slot.cmd /\ effects[c] = 0 /\ Started(c)
      BY <1>0, <3>1 DEF MailboxInv
    <3>3. Started(c)'
      BY <3>2, StartedStable
    <3>4. slot'.state = "result" /\ slot'.cmd = slot.cmd
      BY <1>0, <3>1 DEF PublishResult, TypeInv, Slots
    <3> QED
      BY <1>1, <3>1, <3>2, <3>3, <3>4
  <2> QED
    BY <2>1, <2>2
<1> QED
  BY <1>a, <1>b, <1>c, <1>d, <1>e DEF Next, Worker, Main

\* Every step keeps the effects: at most one each, and of a started command.
LEMMA EffectStep == ControlInv /\ [Next]_vars => EffectInv'
<1> SUFFICES ASSUME ControlInv, [Next]_vars, NEW c \in Commands, effects'[c] > 0
             PROVE  effects'[c] = 1 /\ Started(c)'
  BY DEF EffectInv
<1>0. EffectInv /\ effects \in [Commands -> Nat]
  BY DEF ControlInv, TypeInv
<1>1. CASE effects'[c] = effects[c]
  BY <1>0, <1>1, StartedStable DEF EffectInv
<1>2. CASE effects'[c] # effects[c]
  BY <1>0, <1>2, EffectOutcome
<1> QED
  BY <1>1, <1>2

\* Every step keeps the restart the worker owes: it is for a started command that
\* asked for it and has not had it.
LEMMA RestartStep == ControlInv /\ [Next]_vars => RestartInv'
<1> SUFFICES ASSUME ControlInv, [Next]_vars, restartAfter' # NoCommand
             PROVE  /\ ActionOf[restartAfter'] = "reboot"
                    /\ effects'[restartAfter'] = 0 /\ Started(restartAfter)'
  BY DEF RestartInv
<1>0. /\ TypeInv /\ RestartInv /\ MailboxInv /\ effects \in [Commands -> Nat]
      /\ TypeInv' /\ restartAfter' \in Commands
  BY TypeStep DEF ControlInv, TypeInv
<1>1. PICK c \in Commands : c = restartAfter'
  BY <1>0
<1>2. CASE restartAfter' = restartAfter
  <2>1. ActionOf[c] = "reboot" /\ effects[c] = 0 /\ Started(c)
    BY <1>1, <1>2 , <1>0 DEF RestartInv
  <2>2. Started(c)'
    BY <2>1, StartedStable
  <2>3. effects'[c] = 0
    <3>1. slot.state \in {"pending", "in_flight"} => ActionOf[slot.cmd] # "reboot"
      BY <1>0 DEF MailboxInv, Delegated
    <3> QED
      BY <1>0, <1>1, <1>2, <2>1, <3>1, EffectOutcome
  <2> QED
    BY <1>1, <2>1, <2>2, <2>3 DEF Started, InFlash, InRam, Released
<1>3. CASE restartAfter' # restartAfter
  <2>1. ExecuteInWorker /\ ActionOf[record.cmd] = "reboot"
        /\ restartAfter' = record.cmd /\ UNCHANGED effects
    BY <1>3
    DEF Next, Server, CreateCommand, LeaseLapses, CommandFallsDue, PollControl,
        AcknowledgeCommand, LoseAck, Worker, Poll, GiveUp, HandlePolledCommand, PostAck,
        AcceptedAcknowledged, ExecuteInWorker, ExecuteInMain, FinalAcknowledged,
        ServiceMainControlResult, Main, TakeRequest, ConfirmLocally,
        ConfirmationTimesOut, PowerLoss, Restarted, NoCommand,
        vars, workerVars, recordVars, callVars, serverVars, mainVars, boundVars
  <2>2. /\ Acknowledged /\ step = "ack_running"
        /\ \E s \in Terminal : SetCommandTerminal(s)
    BY <2>1 DEF ExecuteInWorker, Terminal
  <2>3. c = record.cmd /\ effects[c] = 0
    BY <1>1, <2>1, <2>2, NotYetDone
  <2>4. Started(c)'
    BY <2>2, <2>3, StartedNow
  <2> QED
    BY <1>1, <2>1, <2>3, <2>4 DEF Started, InFlash, InRam, Released
<1> QED
  BY <1>2, <1>3

\* Every step keeps the mailbox: one request at a time, for a started command that
\* had no effect, and a success only after the effect.
LEMMA MailboxStep == ControlInv /\ [Next]_vars => MailboxInv'
<1> SUFFICES ASSUME ControlInv, [Next]_vars PROVE MailboxInv'
  OBVIOUS
<1>0. /\ TypeInv /\ MailboxInv /\ slot \in Slots /\ effects \in [Commands -> Nat]
      /\ effects' \in [Commands -> Nat]
      /\ Empty.state = "empty" /\ NoCommand \notin Commands
  BY TypeStep, Parameters DEF ControlInv, TypeInv, Empty
<1>1. \A c \in Commands : effects[c] = 1 => effects'[c] = 1
  BY <1>0, EffectOutcome
<1>2. ASSUME slot.state \in {"pending", "in_flight"}, slot' = slot
      PROVE  effects'[slot.cmd] = 0 /\ Started(slot.cmd)'
  <2>1. PICK c \in Commands :
            /\ c = slot.cmd /\ effects[c] = 0 /\ Started(c) /\ ActionOf[c] \in Delegated
    BY <1>0, <1>2 DEF MailboxInv
  <2>2. Started(c)'
    BY <2>1, StartedStable
  <2>3. effects'[c] = 0
    BY <1>0, <1>2, <2>1, EffectOutcome DEF Delegated
  <2> QED
    BY <1>2, <2>1, <2>2, <2>3 DEF Started, InFlash, InRam, Released
<1>3. CASE slot' = Empty /\ mainActive' = NoCommand
  BY <1>0, <1>3 DEF MailboxInv
<1>4. CASE slot' = slot /\ mainActive' = mainActive
  BY <1>0, <1>1, <1>2, <1>4 DEF MailboxInv
<1>5. CASE ServiceMainControlResult /\ slot' # slot
  <2>1. slot' = Empty /\ mainActive' = NoCommand
    BY <1>0, <1>5 DEF ServiceMainControlResult, MailboxInv
  <2> QED
    BY <1>3, <2>1
<1>6. CASE ExecuteInMain /\ slot' # slot
  <2>1. /\ Acknowledged /\ step = "ack_running" /\ ActionOf[record.cmd] \in Delegated
        /\ slot = Empty /\ step' = "waiting_main" /\ UNCHANGED recordVars
        /\ slot' = [state |-> "pending", cmd |-> record.cmd, code |-> "none"]
        /\ UNCHANGED <<mainActive, effects>>
    BY <1>6 DEF ExecuteInMain, Delegated, boundVars
  <2>2. PICK c \in Commands : c = record.cmd /\ effects[c] = 0
    BY <2>1, NotYetDone
  <2>3. Started(c)'
    BY <2>1, <2>2, StartedNow
  <2>4. mainActive = NoCommand
    BY <1>0, <2>1 DEF MailboxInv
  <2>5. slot'.state = "pending" /\ slot'.cmd = c
    BY <2>1, <2>2
  <2>6. effects'[slot'.cmd] = 0 /\ Started(slot.cmd)'
    BY <2>1, <2>2, <2>3, <2>5 DEF Started, InFlash, InRam, Released
  <2> QED
    BY <1>0, <2>1, <2>2, <2>4, <2>5, <2>6 DEF MailboxInv
<1>7. CASE TakeRequest /\ ActionOf[slot.cmd] = "open_dev_ota"
  <2>1. PICK c \in Commands :
            c = slot.cmd /\ effects[c] = 0 /\ Started(c) /\ ActionOf[c] \in Delegated
    BY <1>0, <1>7 DEF TakeRequest, MailboxInv
  <2>2. /\ slot'.state = "in_flight" /\ slot'.cmd = c /\ mainActive' = c
        /\ UNCHANGED effects
    BY <1>0, <1>7, <2>1 DEF TakeRequest, Slots
  <2>3. Started(c)'
    BY <2>1, StartedStable
  <2>4. effects'[slot'.cmd] = 0 /\ Started(slot.cmd)'
    BY <2>1, <2>2, <2>3 DEF Started, InFlash, InRam, Released
  <2> QED
    BY <1>0, <2>1, <2>2, <2>4 DEF MailboxInv
<1>8. ASSUME NEW code \in {"succeeded", "failed", "expired"}, PublishResult(code),
             slot.cmd \in Commands,
             code = "succeeded" => effects'[slot.cmd] = 1
      PROVE  MailboxInv'
  <2>1. /\ slot'.state = "result" /\ slot'.cmd = slot.cmd /\ slot'.code = code
        /\ mainActive' = NoCommand
    BY <1>0, <1>8 DEF PublishResult, Slots
  <2> QED
    BY <1>0, <1>8, <2>1 DEF MailboxInv
<1>9. ASSUME Do(slot.cmd), slot.state \in {"pending", "in_flight"}
      PROVE  slot.cmd \in Commands /\ effects'[slot.cmd] = 1
  BY <1>0, <1>9 DEF MailboxInv, Do
<1>10. CASE TakeRequest /\ ActionOf[slot.cmd] = "recalibrate"
  BY <1>8, <1>9, <1>10 DEF TakeRequest
<1>11. CASE ConfirmLocally \/ ConfirmationTimesOut
  <2>1. slot.state = "in_flight" /\ slot.cmd = mainActive /\ slot.cmd \in Commands
    BY <1>0, <1>11 DEF ConfirmLocally, ConfirmationTimesOut, MailboxInv
  <2>2. CASE Do(mainActive) /\ PublishResult("succeeded")
    BY <1>8, <1>9, <2>1, <2>2
  <2>3. CASE PublishResult("failed") \/ PublishResult("expired")
    BY <1>8, <2>1, <2>3
  <2> QED
    BY <1>11, <2>2, <2>3 DEF ConfirmLocally, ConfirmationTimesOut
<1>12. CASE FinalAcknowledged \/ PowerLoss
  BY <1>3, <1>4, <1>12 DEF FinalAcknowledged, PowerLoss, Restarted, mainVars
<1>13. CASE \/ Server \/ UNCHANGED vars \/ Poll \/ GiveUp \/ HandlePolledCommand
            \/ PostAck \/ AcceptedAcknowledged \/ ExecuteInWorker
            \/ ExecuteInMain /\ slot' = slot
            \/ ServiceMainControlResult /\ slot' = slot
  BY <1>4, <1>13
  DEF Server, CreateCommand, LeaseLapses, CommandFallsDue, PollControl,
      AcknowledgeCommand, LoseAck, Poll, GiveUp, HandlePolledCommand, PostAck,
      AcceptedAcknowledged, ExecuteInWorker, ExecuteInMain, ServiceMainControlResult,
      vars, mainVars
<1> QED
  BY <1>5, <1>6, <1>7, <1>10, <1>11, <1>12, <1>13 DEF Next, Worker, Main, TakeRequest

\* Every step keeps the successes: in RAM, in flash, on the way and on the server
\* none is of a command that was not carried out.
LEMMA SuccessStep == ControlInv /\ [Next]_vars => SuccessInv'
<1> SUFFICES ASSUME ControlInv, [Next]_vars PROVE SuccessInv'
  OBVIOUS
<1>0. /\ TypeInv /\ RowInv /\ CallInv /\ JournalInv /\ MailboxInv /\ SuccessInv
      /\ wire \subseteq Ack /\ record \in Records /\ journal \in Records
      /\ slot \in Slots /\ halted \in BOOLEAN
      /\ effects \in [Commands -> Nat] /\ effects' \in [Commands -> Nat]
  BY TypeStep DEF ControlInv, TypeInv
<1>1. \A c \in Commands : Done(c) => Done(c)'
  BY <1>0, EffectOutcome DEF Done
<1>2. ASSUME NEW r \in Records, Honest(r) PROVE Honest(r)'
  <2>1. r.status = "succeeded" => r.cmd \in Commands
    BY NoRecordFields
  <2> QED
    BY <1>1, <1>2, <2>1 DEF Honest
<1>3. Honest(record)'
  <2>1. SUFFICES ASSUME NEW c \in Commands, c = record'.cmd, record'.status = "succeeded"
                 PROVE  Done(c)'
    <3>1. record'.status = "succeeded" => record'.cmd \in Commands
      BY TypeStep, NoRecordFields DEF TypeInv
    <3> QED
      BY <2>1, <3>1 DEF Honest, Done
  <2>2. CASE record.cmd = c /\ record.status = "succeeded"
    BY <1>0, <1>1, <2>2 DEF SuccessInv, Honest
  <2>3. CASE journal.cmd = c /\ journal.status = "succeeded"
    BY <1>0, <1>1, <2>3 DEF SuccessInv, Honest
  <2>4. CASE ExecuteInWorker
    <3>1. step = "ack_running"
      BY <2>4 DEF ExecuteInWorker
    <3>2. /\ record \in Ack /\ record.cmd \in Commands /\ effects[record.cmd] = 0
      BY <3>1, NotYetDone
    <3>3. \A s \in Terminal : SetCommandTerminal(s) => record'.cmd = record.cmd /\ record'.status = s
      BY <1>0, <3>2, TerminalOutcome
    <3>4. c = record.cmd /\ (ActionOf[c] = "reboot" \/ Do(c))
      BY <2>1, <2>4, <3>3 DEF ExecuteInWorker, Terminal
    <3> QED
      BY <1>0, <3>2, <3>4 DEF Done, Do
  <2>5. CASE ServiceMainControlResult
    <3>1. step = "waiting_main" /\ UNCHANGED effects
      BY <2>5 DEF ServiceMainControlResult, boundVars
    <3>2. record \in Ack
      BY <1>0, <3>1 DEF JournalInv
    <3>3. \A s \in Terminal : SetCommandTerminal(s) => record'.cmd = record.cmd /\ record'.status = s
      BY <1>0, <3>2, TerminalOutcome
    <3>4. slot.state = "result" => slot.code \in Terminal
      BY <1>0 DEF MailboxInv, Slots, Terminal
    <3>5. slot.state = "result" /\ slot.code = "succeeded" /\ slot.cmd = c
      BY <2>1, <2>5, <3>3, <3>4 DEF ServiceMainControlResult, Terminal
    <3> QED
      BY <1>0, <3>1, <3>5 DEF MailboxInv, Done
  <2>6. CASE ~ExecuteInWorker /\ ~ServiceMainControlResult
    <3>1. \/ UNCHANGED record
          \/ record'.cmd = record.cmd /\ record'.status = record.status
          \/ record'.cmd = journal.cmd /\ record'.status = journal.status
          \/ record'.status # "succeeded"
      <4>1. CASE HandlePolledCommand
        BY <1>0, <4>1, HandleOutcome
      <4>2. CASE RecoverJournal
        BY <1>0, <4>2, RecoverOutcome, NoRecordFields
      <4>3. CASE AcceptedAcknowledged
        <5>1. record \in Ack
          BY <1>0, <4>3 DEF AcceptedAcknowledged, JournalInv
        <5> QED
          BY <4>3, <5>1, RestatedRecord DEF AcceptedAcknowledged, Journaled, NotJournaled
      <4>4. CASE ExecuteInMain
        <5>1. record \in Ack
          BY <1>0, <4>4 DEF ExecuteInMain, JournalInv
        <5>2. \/ SetCommandTerminal("expired") \/ SetCommandTerminal("failed")
              \/ UNCHANGED record
          BY <4>4 DEF ExecuteInMain, recordVars
        <5> QED
          BY <1>0, <5>1, <5>2, TerminalOutcome DEF Terminal
      <4> QED
        BY <2>6, <4>1, <4>2, <4>3, <4>4
        DEF Next, Server, CreateCommand, LeaseLapses, CommandFallsDue, PollControl,
            AcknowledgeCommand, LoseAck, Worker, Poll, GiveUp, PostAck, FinalAcknowledged,
            Main, TakeRequest, ConfirmLocally, ConfirmationTimesOut, PowerLoss,
            vars, workerVars, recordVars
    <3> QED
      BY <2>1, <2>2, <2>3, <3>1
  <2> QED
    BY <2>4, <2>5, <2>6
<1>4. Honest(journal)'
  <2>1. journal' = journal \/ journal' = record' \/ journal' = record
    BY <1>0, HandleOutcome, RecoverOutcome, RecordSteps
  <2> QED
    BY <1>0, <1>2, <1>3, <2>1 DEF SuccessInv, Honest, Done
<1>5. \A a \in wire' : Honest(a)'
  <2>1. wire' \subseteq wire \cup {record}
    BY <1>0, AcknowledgeOutcome
    DEF Next, Server, CreateCommand, LeaseLapses, CommandFallsDue, PollControl,
        AcknowledgeCommand, LoseAck, Worker, Poll, GiveUp, HandlePolledCommand, PostAck,
        AcceptedAcknowledged, ExecuteInWorker, ExecuteInMain, FinalAcknowledged,
        ServiceMainControlResult, Main, TakeRequest, ConfirmLocally,
        ConfirmationTimesOut, PowerLoss, vars
  <2>2. \A a \in wire \cup {record} : Honest(a)
    BY <1>0 DEF SuccessInv
  <2> QED
    BY <1>0, <1>2, <2>1, <2>2
<1>6. SucceededMeansDone'
  <2>1. SUFFICES ASSUME NEW c \in Commands, row'[c].status = "succeeded" PROVE Done(c)'
    BY DEF SucceededMeansDone, Done
  <2>2. row[c].status = "succeeded" \/ \E a \in wire : a.cmd = c /\ a.status = "succeeded"
    <3>1. CASE CreateCommand
      <4>1. PICK d \in Commands : row' = [Swept(Stale) EXCEPT ![d].status = "queued"]
        BY <3>1 DEF CreateCommand
      <4> DEFINE S == Swept(Stale)
      <4>2. S \in [Commands -> Rows] /\ (S[c].status = "succeeded" => row[c].status = "succeeded")
        BY <1>0, SweptRow
      <4>3. row' = [S EXCEPT ![d].status = "queued"]
        BY <4>1
      <4> HIDE DEF S
      <4> QED
        BY <2>1, <4>2, <4>3 DEF Rows
    <3>2. CASE LeaseLapses \/ CommandFallsDue
      BY <1>0, <2>1, <3>2, MarkOutcome
    <3>3. CASE PollControl
      <4>1. PICK T \in SUBSET Stale : row'[c].status \in {"leased", Swept(T)[c].status}
        BY <1>0, <3>3, PollOutcome
      <4> QED
        BY <1>0, <2>1, <4>1, SweptRow
    <3>4. CASE AcknowledgeCommand
      BY <1>0, <2>1, <3>4, AcknowledgeOutcome
    <3>5. CASE UNCHANGED serverVars
      BY <2>1, <3>5 DEF serverVars
    <3> QED
      BY <3>1, <3>2, <3>3, <3>4, <3>5, RowSteps
  <2> QED
    BY <1>0, <1>1, <2>2 DEF SuccessInv, SucceededMeansDone, Honest, Done
<1> QED
  BY <1>3, <1>4, <1>5, <1>6 DEF SuccessInv

-----------------------------------------------------------------------------

\* ControlInv holds in every state of every behaviour.
THEOREM ControlInvariance == Spec => []ControlInv
<1>1. ControlInv /\ [Next]_vars => ControlInv'
  BY TypeStep, RowStep, CallStep, JournalStep, OrderStep, EffectStep, RestartStep,
     MailboxStep, SuccessStep
  DEF ControlInv
<1> QED
  BY <1>1, ControlInit, PTL DEF Spec

\* The types of the protocol hold for every number of commands and leases.
THEOREM ControlTypeCorrect == Spec => []TypeOK
<1>1. ControlInv => TypeOK
  <2> SUFFICES ASSUME TypeInv PROVE TypeOK
    BY DEF ControlInv
  <2>1. Statuses = DOMAIN Rank \cup {"none"}
    BY DEF Statuses, Rank, Terminal, Outstanding
  <2> QED
    BY <2>1 DEF TypeInv, TypeOK, Rows, Steps, Slots
<1> QED
  BY <1>1, ControlInvariance, PTL

\* No command is carried out twice: not after a fresh lease, a repeated delivery, a
\* lost answer, a failed journal write or any number of power losses.
THEOREM ControlAtMostOnce == Spec => []AtMostOnce
<1>1. ControlInv => AtMostOnce
  BY DEF ControlInv, TypeInv, EffectInv, AtMostOnce
<1> QED
  BY <1>1, ControlInvariance, PTL

\* What was carried out had been reported running, and the server had agreed.
THEOREM ControlReleased == Spec => []EffectOnlyOnceReleased
<1>1. ControlInv => EffectOnlyOnceReleased
  BY DEF ControlInv, EffectInv, Started, Released, EffectOnlyOnceReleased
<1> QED
  BY <1>1, ControlInvariance, PTL

\* What was carried out is past acceptance in flash.
THEOREM ControlDurable == Spec => []DurableBeforeEffect
<1>1. ControlInv => DurableBeforeEffect
  BY DEF ControlInv, EffectInv, Started, InFlash, DurableBeforeEffect
<1> QED
  BY <1>1, ControlInvariance, PTL

\* A success the server holds was one on the device.
THEOREM ControlSuccess == Spec => []SucceededMeansDone
<1>1. ControlInv => SucceededMeansDone
  BY DEF ControlInv, SuccessInv
<1> QED
  BY <1>1, ControlInvariance, PTL

\* The main loop works on the one request the mailbox holds.
THEOREM ControlSingleFlight == Spec => []SingleFlight
<1>1. ControlInv => SingleFlight
  BY DEF ControlInv, MailboxInv, SingleFlight
<1> QED
  BY <1>1, ControlInvariance, PTL

============================================================================
