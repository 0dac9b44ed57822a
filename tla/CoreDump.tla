-------------------------------- MODULE CoreDump --------------------------------
(***************************************************************************)
(* A core dump in flash says nothing of the boot that crashed.  Each boot  *)
(* therefore rotates its identity into one of two slots, the boot after a  *)
(* crash pins the previous identity to the dump, and the worker posts the  *)
(* dump under that pin until the server has it, then erases both.          *)
(* Dumps, identities and builds are abstracted to the number of the boot;  *)
(* all boots have one build.  The limit of the slots' generation is 2^63   *)
(* boots away and left out.                                                *)
(***************************************************************************)
EXTENDS Naturals, Sequences, FiniteSets

CONSTANTS MaxBoots,    \* bound on the boots
          MaxGlitches, \* bound on flash operations that fail
          DumpLimit    \* COREDUMP_LIMIT of the server

ASSUME DumpAssumption ==
  MaxBoots \in Nat \ {0} /\ MaxGlitches \in Nat /\ DumpLimit \in Nat

VARIABLES slots, pin, dump,            \* flash: two contexts, dump_pin, the dump
          instance, cause, stage,      \* this boot, its reset reason, its progress
          previous, attribution, pending, upload,  \* RAM
          posts, rows,                 \* requests under way, the server's dumps
          glitches, stored, excused    \* history

flash  == <<slots, pin, dump>>
ram    == <<instance, cause, stage, previous, attribution, pending, upload>>
remote == <<posts, rows, stored>>
coreDumpVars == <<flash, ram, remote, glitches, excused>>

NoBoot == 0
Torn == [gen |-> 0, boot |-> NoBoot]      \* a context that does not decode
Missing == [gen |-> 0, boot |-> MaxBoots + 1]
TornPin == MaxBoots + 1
Corrupt == MaxBoots + 1
Boots == 1..MaxBoots
Report == [dump : Boots, boot : Boots]

DumpInit ==
  /\ slots = [s \in {0, 1} |-> Missing] /\ pin = NoBoot /\ dump = NoBoot
  /\ instance = 1 /\ cause = "ordinary" /\ stage = "rotate"
  /\ previous = NoBoot /\ attribution = NoBoot /\ pending = NoBoot /\ upload = "none"
  /\ posts = {} /\ rows = <<>>
  /\ glitches = 0 /\ stored = {} /\ excused = {}

Glitch == glitches < MaxGlitches /\ glitches' = glitches + 1
Works == UNCHANGED glitches

(***************************************************************************)
(* rotateCrashContextWithStorage: supersede the older slot, or one that    *)
(* cannot be judged; two such slots are both overwritten.                  *)
(***************************************************************************)
Invalid(s) == slots[s] = Torn
Valid(s) == slots[s] \notin {Torn, Missing}
Ambiguous ==
  Valid(0) /\ Valid(1) /\ slots[0].gen = slots[1].gen /\ slots[0] # slots[1]
Unjudged == Invalid(0) \/ Invalid(1) \/ Ambiguous
ValidSlots == {s \in {0, 1} : Valid(s)}
Newest == CHOOSE s \in ValidSlots : \A t \in ValidSlots :
            slots[s].gen > slots[t].gen \/ (slots[s].gen = slots[t].gen /\ s <= t)
Highest == IF ValidSlots = {} THEN 0 ELSE slots[Newest].gen
Current == [gen |-> Highest + 1, boot |-> instance]
StaleSlot ==
  IF Invalid(0) \/ Ambiguous THEN 0
  ELSE IF Invalid(1) THEN 1
  ELSE IF ValidSlots = {} THEN 0 ELSE 1 - Newest

(* Mutant: the readable slot is believed although the other is not. *)
MutPrevious == IF ValidSlots = {} THEN NoBoot ELSE slots[Newest].boot

Previous == IF Unjudged \/ ValidSlots = {} THEN NoBoot ELSE slots[Newest].boot

(* writeAndVerify: a write that is reported as failed may have left the    *)
(* old contents, half of the new ones, or all of them.                     *)
WriteSlot(s, context) ==
  \/ slots' = [slots EXCEPT ![s] = context] /\ Works
  \/ Glitch /\ \E left \in {slots[s], Torn, context} :
                 slots' = [slots EXCEPT ![s] = left]

Rotate ==
  /\ stage = "rotate"
  /\ \/ /\ WriteSlot(StaleSlot, Current)
        /\ IF glitches' # glitches
             THEN stage' = "attribute" /\ previous' = NoBoot
             ELSE /\ previous' = Previous
                  /\ stage' = IF Invalid(1 - StaleSlot) \/ Ambiguous
                                THEN "repair" ELSE "attribute"
     \/ /\ Glitch  \* a slot cannot be read, or the namespace not opened
        /\ stage' = "attribute" /\ previous' = NoBoot /\ UNCHANGED slots
  /\ UNCHANGED <<pin, dump, instance, cause, attribution, pending, upload, remote, excused>>

RepairSlot ==
  /\ stage = "repair"
  /\ WriteSlot(1 - Newest, slots[Newest])
  /\ stage' = "attribute"
  /\ UNCHANGED <<pin, dump, instance, cause, previous, attribution, pending, upload,
                 remote, excused>>

(***************************************************************************)
(* initializeCrashDumpAttribution.                                         *)
(***************************************************************************)
LoadPin ==
  /\ stage = "attribute" /\ cause = "ordinary"
  /\ stage' = "start"
  /\ \/ attribution' = (IF pin \in Boots THEN pin ELSE NoBoot) /\ Works
     \/ attribution' = NoBoot /\ Glitch
  /\ UNCHANGED <<flash, instance, cause, previous, pending, upload, remote, excused>>

(* clearPinnedCrashDumpAttribution, whose result nobody looks at.          *)
ClearPin == (pin' = NoBoot /\ Works) \/ (UNCHANGED pin /\ pin # NoBoot /\ Glitch)

ClearStalePin ==
  /\ stage = "attribute" /\ cause = "crash"
  /\ ClearPin
  /\ excused' = excused \cup {why \in {"pin"} : pin' # NoBoot}
  /\ stage' = IF previous = NoBoot THEN "start" ELSE "save"
  /\ UNCHANGED <<slots, dump, instance, cause, previous, attribution, pending, upload, remote>>

SavePin ==
  /\ stage = "save"
  /\ \/ /\ pin' = previous /\ attribution' = previous
        /\ stage' = "start" /\ Works
     \/ /\ pin' \in {pin, TornPin, previous} /\ Glitch
        /\ stage' = "unpin" /\ UNCHANGED attribution
  /\ UNCHANGED <<slots, dump, instance, cause, previous, pending, upload, remote, excused>>

UndoPin ==
  /\ stage = "unpin"
  /\ ClearPin
  /\ stage' = "start"
  /\ UNCHANGED <<slots, dump, instance, cause, previous, attribution, pending, upload,
                 remote, excused>>

(***************************************************************************)
(* The worker.  A dump that is corrupt, cannot be read or has no           *)
(* attribution stays where it is; a pin without a dump is removed.         *)
(***************************************************************************)
InitializeCoreDump ==
  /\ stage = "start"
  /\ stage' = "run"
  /\ IF dump = NoBoot
       THEN ClearPin /\ UNCHANGED pending
       ELSE /\ UNCHANGED pin
            /\ \/ /\ pending' = IF attribution # NoBoot /\ dump # Corrupt THEN dump ELSE NoBoot
                  /\ Works
               \/ UNCHANGED pending /\ Glitch
  /\ UNCHANGED <<slots, dump, instance, cause, previous, attribution, upload, remote, excused>>

PostDump ==
  /\ stage = "run" /\ pending # NoBoot /\ upload = "none" /\ dump = pending
  /\ upload' = "sent"
  /\ posts' = posts \cup {[dump |-> pending, boot |-> attribution]}
  /\ UNCHANGED <<flash, instance, cause, stage, previous, attribution, pending, rows, stored,
                 glitches, excused>>

AnswerReport(report, answer) ==
  IF upload = "sent" /\ report = [dump |-> pending, boot |-> attribution]
    THEN upload' = answer ELSE UNCHANGED upload

Kept(all) == IF Len(all) <= DumpLimit THEN all ELSE Tail(all)

(* ingest_coredump: the crash_id is a hash of build and dump, the body     *)
(* names the boot as well.                                                 *)
IngestDump ==
  \E report \in posts :
    LET existing == {i \in DOMAIN rows : rows[i].dump = report.dump} IN
    /\ posts' = posts \ {report}
    /\ IF existing = {}
         THEN /\ rows' = Kept(Append(rows, report)) /\ stored' = stored \cup {report}
              /\ AnswerReport(report, "durable")
         ELSE /\ UNCHANGED <<rows, stored>>
              /\ AnswerReport(report, IF \E i \in existing : rows[i] = report
                                  THEN "durable" ELSE "conflict")
    /\ UNCHANGED <<flash, instance, cause, stage, previous, attribution, pending, glitches,
                   excused>>

(* Anything but a durable answer: the dump is posted again later.          *)
Retry ==
  /\ upload # "none"
  /\ upload' = "none"
  /\ UNCHANGED <<flash, instance, cause, stage, previous, attribution, pending, remote, glitches,
                 excused>>

(* Mutant: the answer is not waited for. *)
MutDurable == upload \in {"sent", "durable"}
Durable == upload = "durable"

(* acknowledgeDurable: a failed erase may leave half a dump.               *)
EraseDump ==
  /\ stage = "run" /\ Durable
  /\ upload' = "none"
  /\ \/ dump' = NoBoot /\ pending' = NoBoot /\ stage' = "erased" /\ Works
     \/ dump' \in {dump, Corrupt} /\ UNCHANGED <<pending, stage>> /\ Glitch
  /\ UNCHANGED <<slots, pin, instance, cause, previous, attribution, remote, excused>>

ClearUploadedPin ==
  /\ stage = "erased"
  /\ ClearPin
  /\ stage' = "run"
  /\ UNCHANGED <<slots, dump, instance, cause, previous, attribution, pending, upload,
                 remote, excused>>

(***************************************************************************)
(* Resets come at any moment.  `excused' names those after which the code  *)
(* cannot know whose dump it has: "pin", power lost after a crash before   *)
(* the pin of an older dump was removed, or a removal that failed;         *)
(* "identity", a crash of a boot that is in no slot; "watchdog", a reset   *)
(* that leaves the dump of an earlier crash in place.                      *)
(***************************************************************************)
Reset(reason) ==
  /\ instance < MaxBoots
  /\ instance' = instance + 1 /\ cause' = reason /\ stage' = "rotate"
  /\ previous' = NoBoot /\ attribution' = NoBoot /\ pending' = NoBoot /\ upload' = "none"
  /\ UNCHANGED <<slots, pin, remote, glitches>>

PowerLoss ==
  /\ Reset("ordinary")
  /\ excused' = excused \cup {why \in {"pin"} :
       cause = "crash" /\ pin # NoBoot /\ stage \in {"rotate", "repair", "attribute"}}
  /\ UNCHANGED dump

Panic ==
  /\ Reset("crash")
  /\ dump' = instance
  /\ excused' = excused \cup {why \in {"identity"} : \A s \in {0, 1} : slots[s].boot # instance}

WatchdogReset ==
  /\ Reset("crash")
  /\ excused' = excused \cup {why \in {"watchdog"} : dump \in Boots}
  /\ UNCHANGED dump

(* A stored context may go bad; between the two writes of a repair, which  *)
(* read nothing, that is no different from after them.                     *)
DecaySlot ==
  /\ stage # "repair" /\ Glitch
  /\ \E s \in ValidSlots : slots' = [slots EXCEPT ![s] = Torn]
  /\ UNCHANGED <<pin, dump, ram, remote, excused>>

DumpNext ==
  \/ Rotate \/ RepairSlot \/ LoadPin \/ ClearStalePin \/ SavePin \/ UndoPin
  \/ InitializeCoreDump \/ PostDump \/ IngestDump \/ Retry
  \/ EraseDump \/ ClearUploadedPin
  \/ PowerLoss \/ Panic \/ WatchdogReset \/ DecaySlot

(* Every variable has its type; what is being uploaded is the dump in      *)
(* flash under a known boot, unless a failed erase damaged it.             *)
DumpTypeOK ==
  /\ \A s \in {0, 1} : slots[s] \in {Missing, Torn} \cup [gen : 1..MaxBoots, boot : Boots]
  /\ pin \in 0..TornPin /\ dump \in 0..Corrupt
  /\ instance \in Boots /\ cause \in {"ordinary", "crash"}
  /\ stage \in {"rotate", "repair", "attribute", "save", "unpin", "start", "run", "erased"}
  /\ previous \in 0..MaxBoots /\ upload \in {"none", "sent", "durable", "conflict"}
  /\ pending # NoBoot => dump \in {pending, Corrupt} /\ attribution \in Boots
  /\ posts \subseteq Report /\ Len(rows) <= DumpLimit
  /\ glitches \in 0..MaxGlitches /\ excused \subseteq {"pin", "identity", "watchdog"}

(* A dump is reported under the boot that crashed, across restarts before  *)
(* the upload, lost and late answers, failed writes of the pin, torn slots *)
(* and failed erasures; the resets named above are the only exceptions.    *)
Attributed == \A r \in stored : r.boot = r.dump
AttributedUnlessExcused == excused = {} => Attributed

(* The dump leaves the flash only when the server has stored it, or for    *)
(* the dump of a later crash: a reset, a late answer or a failed           *)
(* attribution never costs one.                                            *)
DumpKept ==
  [][dump' # dump /\ dump \in Boots =>
       dump \in {r.dump : r \in stored} \/ dump' = instance]_coreDumpVars

(* main.cpp:390 says a fresh crash supersedes any pin for an older dump.   *)
(* So whatever becomes of pins, no dump is reported under another's.       *)
StalePinSuperseded == excused \subseteq {"pin"} => Attributed

DumpSpec == DumpInit /\ [][DumpNext]_coreDumpVars
=============================================================================
