-------------------------------- MODULE Answers --------------------------------
(***************************************************************************)
(* What the device does with a file, a record or a dump depends on the     *)
(* answer it reads, and each kind of answer has a parser of its own on the *)
(* device and a model of its own on the server.  Here one server answers   *)
(* and one device parses, and the contract may have drifted by one edit in *)
(* between: a member dropped, repeated, renamed or with another value, or  *)
(* another end of the object.  A nested object is abstracted to whether    *)
(* its own parser takes it, and is an object of its own here.              *)
(***************************************************************************)
EXTENDS Integers, Sequences, SequencesExt

CONSTANT Count   \* the records of the request that is answered

ASSUME AnswersAssumption == Count \in Nat

VARIABLES object,   \* the kind of answer
          body,     \* its members in order, and how it ends
          state     \* "asked", "served", "drifted", then "taken" or "refused"

answerVars == <<object, body, state>>

(* Values.  Text is what the request named ("own") or any other text the   *)
(* member's buffer and alphabet allow ("other"), or one that is too long   *)
(* or that JSON writes with escapes or beyond ASCII.                       *)
Num(n)  == <<"int", n>>
Text(t) == <<"text", t>>
True  == <<"true">>
False == <<"false">>
Null  == <<"null">>
Object    == <<"object">>        \* its parser takes it
BadObject == <<"bad object">>
Seq0 == Count + 1         \* the sequence number and the uptime of the request
Over == Count + 2         \* above the range of a setting
Huge == Count + 3         \* above 2^63 - 1
Poll == 5000              \* the only poll_after_ms

Numbers  == {Num(n) : n \in (0..Over) \cup {Poll}}
Positive == Numbers \ {Num(0)}
Own      == {Text("own")}
AnyText  == {Text("own"), Text("other"), Text("empty")}
AnyUtf8  == AnyText \cup {Text("long"), Text("escaped")}
Either   == {True, False}
Yes      == {True}
(***************************************************************************)
(* The members each parser knows, and the values it takes for them.        *)
(***************************************************************************)
IngestAck ==
  [batch_id |-> Own, stored |-> Numbers, duplicates |-> Numbers, max_seq |-> {Num(Seq0)},
   server_utc_ms |-> Numbers, desired_config_revision |-> Numbers]

FeedbackAck ==
  [feedback_id |-> Own, device_id |-> Own, boot_id |-> Own, seq |-> {Num(Seq0)},
   created_at_ms |-> Numbers, occurred_at_ms |-> Numbers \cup {Null},
   occurred_uptime_ms |-> {Num(Seq0)}, time_quality |-> AnyText, actual_presence |-> Own,
   observed_state |-> Own, source |-> Own, note |-> {Null}, duplicate |-> Either]

ReleaseStatusAck ==
  [status_id |-> Own, duplicate |-> Either, server_utc_ms |-> Numbers,
   desired_release_completed |-> Either]

CoreDumpAck ==
  [crash_id |-> Own, duplicate |-> Either, durable |-> Yes, server_utc_ms |-> Numbers,
   symbolication_status |-> AnyText \ {Text("empty")}]

OperationalLogAck ==
  [batch_id |-> Own, stored |-> Numbers, duplicates |-> Numbers, server_utc_ms |-> Numbers,
   retained_records |-> Numbers]

CommandAck ==
  [ack_id |-> Own, command_id |-> Own, status |-> Own, duplicate |-> Either,
   server_utc_ms |-> Numbers]

ConfigResponse ==
  [device_id |-> Own, revision |-> Numbers, created_at_ms |-> Numbers \cup {Null},
   created_by |-> AnyUtf8 \cup {Null}, config |-> {Object}]

InRange == {Num(0), Num(1)}   \* 0 where it is allowed, 1 for what is allowed above
FromOne == {Num(1)}
PresenceConfig ==
  [minimum_on_ms |-> InRange, pir_hold_ms |-> FromOne, sound_hold_ms |-> InRange,
   max_sound_bridge_ms |-> InRange, cooldown_ms |-> InRange, sound_factor |-> FromOne,
   telemetry_interval_ms |-> FromOne, upload_batch_size |-> FromOne]

ControlPoll ==
  [server_utc_ms |-> Numbers, poll_after_ms |-> {Num(Poll)},
   desired_release |-> {Null, Object}, command |-> {Null, Object}]

(* "own" is here a text of the alphabet, "other" one outside it.           *)
DesiredRelease ==
  [release_id |-> Own, hardware_model |-> Own, firmware_version |-> Own,
   release_counter |-> Positive, build_id |-> Own, image_size |-> Positive,
   image_sha256 |-> Own, elf_sha256 |-> Own, key_id |-> Own, signature_format |-> Own,
   imported_at_ms |-> Numbers, imported_by |-> AnyText, verified |-> Yes,
   manifest_url |-> Own, image_url |-> Own]

LeasedCommand ==
  [command_id |-> Own, created_at_ms |-> Numbers, expires_at_ms |-> Numbers,
   lease_id |-> Own, lease_expires_at_ms |-> Numbers, delivery_attempt |-> Positive,
   command |-> {Object}]

Simple == {Text(a) : a \in {"diagnostic_snapshot", "recalibrate_microphone",
                            "retry_upload", "reboot"}}
LogLevel == Text("set_log_level")
DevOta == Text("open_dev_ota")
CommandPayload ==
  [action |-> Simple \cup {LogLevel, DevOta}, level |-> {Text("event"), Text("debug_sensor")},
   duration_seconds |-> FromOne, requires_local_confirmation |-> Yes]

JsonValues ==
  Numbers \cup AnyText \cup Either \cup CommandPayload.action \cup CommandPayload.level
    \cup {Num(Huge), Text("long"), Text("escaped"), Null, Object, BadObject}

Contract ==
  [ingest |-> IngestAck, feedback |-> FeedbackAck, release_status |-> ReleaseStatusAck,
   core_dump |-> CoreDumpAck, log |-> OperationalLogAck, ack |-> CommandAck,
   config |-> ConfigResponse, settings |-> PresenceConfig, poll |-> ControlPoll,
   release |-> DesiredRelease, lease |-> LeasedCommand, payload |-> CommandPayload]
Objects == DOMAIN Contract

(* These three read members up to a brace, so that an empty object is one  *)
(* with members missing and a comma may come before the brace; the others  *)
(* want a member first and after every comma.                              *)
Lenient == {"core_dump", "log", "ack"}
EndTaken == body.end = "brace" \/ (object \in Lenient /\ body.end = "comma brace")

(***************************************************************************)
(* The device's loop over the members: an unknown name, a name seen before *)
(* or a value the member does not take ends it.  The answer is refused     *)
(* then, so that it does not matter what the loop had seen.                *)
(***************************************************************************)
Taken(m) ==
  m.name \in DOMAIN Contract[object] /\ m.value \in Contract[object][m.name]

(* Mutant: a member that comes twice is not noticed. *)
MutReadMember(i) == Taken(body.members[i])

ReadMember(i) ==
  /\ Taken(body.members[i])
  /\ \A j \in 1..(i - 1) : body.members[j].name # body.members[i].name

ReadMembers == \A i \in DOMAIN body.members : ReadMember(i)

Names(members) == {members[i].name : i \in DOMAIN members}

Member(name) ==
  body.members[CHOOSE i \in DOMAIN body.members : body.members[i].name = name].value
Number(name) == Member(name)[2]

(* The fields each action needs, none more. *)
PayloadFields(action) ==
  CASE action = LogLevel -> {"action", "level", "duration_seconds"}
    [] action = DevOta   -> {"action", "requires_local_confirmation"}
    [] OTHER             -> {"action"}

Complete(seen) ==
  IF object = "payload"
    THEN "action" \in seen /\ seen = PayloadFields(Member("action"))
    ELSE seen = DOMAIN Contract[object]

(* What is checked once all members are there. *)
Consistent ==
  /\ object \in {"ingest", "log"} => Number("stored") + Number("duplicates") = Count
  /\ object = "lease" =>
       /\ Number("created_at_ms") <= Number("expires_at_ms")
       /\ Number("lease_expires_at_ms") <= Number("expires_at_ms")

Accepted == ReadMembers /\ EndTaken /\ Complete(Names(body.members)) /\ Consistent

Parse ==
  /\ state \in {"served", "drifted"}
  /\ state' = IF Accepted THEN "taken" ELSE "refused"
  /\ UNCHANGED <<object, body>>

(***************************************************************************)
(* What the server's handlers write, members in the order of its models.   *)
(***************************************************************************)
m1 ^^ v1 == [name |-> m1, value |-> v1]

ServedIngest(n, r) ==
  <<"batch_id" ^^ Text("own"), "stored" ^^ Num(n), "duplicates" ^^ Num(Count - n),
    "max_seq" ^^ Num(Seq0), "server_utc_ms" ^^ Num(1),
    "desired_config_revision" ^^ Num(r)>>

ServedFeedback(at, d) ==
  <<"feedback_id" ^^ Text("own"), "device_id" ^^ Text("own"), "boot_id" ^^ Text("own"),
    "seq" ^^ Num(Seq0), "created_at_ms" ^^ Num(1), "occurred_at_ms" ^^ at,
    "occurred_uptime_ms" ^^ Num(Seq0), "time_quality" ^^ Text("other"),
    "actual_presence" ^^ Text("own"), "observed_state" ^^ Text("own"),
    "source" ^^ Text("own"), "note" ^^ Null, "duplicate" ^^ d>>

ServedReleaseStatus(d, c) ==
  <<"status_id" ^^ Text("own"), "duplicate" ^^ d, "server_utc_ms" ^^ Num(1),
    "desired_release_completed" ^^ c>>

ServedCoreDump(d) ==
  <<"crash_id" ^^ Text("own"), "duplicate" ^^ d, "durable" ^^ True,
    "server_utc_ms" ^^ Num(1), "symbolication_status" ^^ Text("other")>>

ServedLog(n) ==
  <<"batch_id" ^^ Text("own"), "stored" ^^ Num(n), "duplicates" ^^ Num(Count - n),
    "server_utc_ms" ^^ Num(1), "retained_records" ^^ Num(n)>>

ServedAck(d) ==
  <<"ack_id" ^^ Text("own"), "command_id" ^^ Text("own"), "status" ^^ Text("own"),
    "duplicate" ^^ d, "server_utc_ms" ^^ Num(1)>>

(* A device without a row of its own gets revision 0 and two nulls.        *)
ServedConfig(row, at, by) ==
  <<"device_id" ^^ Text("own"), "revision" ^^ Num(row), "created_at_ms" ^^ at,
    "created_by" ^^ by, "config" ^^ Object>>

ServedSettings(a, b, c, d) ==
  <<"minimum_on_ms" ^^ Num(a), "pir_hold_ms" ^^ Num(1), "sound_hold_ms" ^^ Num(b),
    "max_sound_bridge_ms" ^^ Num(c), "cooldown_ms" ^^ Num(d), "sound_factor" ^^ Num(1),
    "telemetry_interval_ms" ^^ Num(1), "upload_batch_size" ^^ Num(1)>>

ServedPoll(release, command) ==
  <<"server_utc_ms" ^^ Num(1), "poll_after_ms" ^^ Num(Poll), "desired_release" ^^ release,
    "command" ^^ command>>

ServedRelease(n) ==
  <<"release_id" ^^ Text("own"), "hardware_model" ^^ Text("own"),
    "firmware_version" ^^ Text("own"), "release_counter" ^^ Num(n),
    "build_id" ^^ Text("own"), "image_size" ^^ Num(1), "image_sha256" ^^ Text("own"),
    "elf_sha256" ^^ Text("own"), "key_id" ^^ Text("own"),
    "signature_format" ^^ Text("own"), "imported_at_ms" ^^ Num(1),
    "imported_by" ^^ Text("own"), "verified" ^^ True, "manifest_url" ^^ Text("own"),
    "image_url" ^^ Text("own")>>

(* The lease ends with the command at the latest (min in poll_control).    *)
ServedLease(lease, n) ==
  <<"command_id" ^^ Text("own"), "created_at_ms" ^^ Num(0), "expires_at_ms" ^^ Num(Count),
    "lease_id" ^^ Text("own"), "lease_expires_at_ms" ^^ Num(lease),
    "delivery_attempt" ^^ Num(n), "command" ^^ Object>>

ServedPayload ==
  {<<"action" ^^ a>> : a \in Simple}
  \cup {<<"action" ^^ LogLevel, "duration_seconds" ^^ Num(1), "level" ^^ l>> :
          l \in {Text("event"), Text("debug_sensor")}}
  \cup {<<"action" ^^ DevOta, "requires_local_confirmation" ^^ True>>}

(* The members that vary from answer to answer, and their values.          *)
Served ==
  [ingest |-> {ServedIngest(n, r) : n \in 0..Count, r \in 0..1},
   feedback |-> {ServedFeedback(at, d) : at \in {Null, Num(1)}, d \in Either},
   release_status |-> {ServedReleaseStatus(d, c) : d \in Either, c \in Either},
   core_dump |-> {ServedCoreDump(d) : d \in Either},
   log |-> {ServedLog(n) : n \in 0..Count},
   ack |-> {ServedAck(d) : d \in Either},
   config |->
     {ServedConfig(row, at, by) :
        row \in 0..1, at \in {Null, Num(1)}, by \in {Null, Text("own"), Text("escaped")}},
   settings |->
     {ServedSettings(a, b, c, d) : a \in 0..1, b \in 0..1, c \in 0..1, d \in 0..1},
   poll |->
     {ServedPoll(release, command) :
        release \in {Null, Object}, command \in {Null, Object}},
   release |-> {ServedRelease(n) : n \in 1..Count},
   lease |-> {ServedLease(lease, n) : lease \in 1..Count, n \in 1..Count},
   payload |-> ServedPayload]

AnswerInit ==
  /\ object \in Objects
  /\ body = [members |-> <<>>, end |-> "brace"]
  /\ state = "asked"

Serve ==
  /\ state = "asked"
  /\ \E members \in Served[object] : body' = [body EXCEPT !.members = members]
  /\ state' = "served"
  /\ UNCHANGED object

(* The contract of the two sides differs in one place.                     *)
Drift ==
  /\ state = "served"
  /\ LET ms == body.members IN
     \/ \E i \in DOMAIN ms : body' = [body EXCEPT !.members = RemoveAt(ms, i)]
     \/ \E i, j \in DOMAIN ms : body' = [body EXCEPT !.members = InsertAt(ms, j, ms[i])]
     \/ \E i \in DOMAIN ms : body' = [body EXCEPT !.members[i].name = "unheard_of"]
     \/ \E i \in DOMAIN ms, v \in JsonValues : body' = [body EXCEPT !.members[i].value = v]
     \/ body' \in {[body EXCEPT !.end = e] : e \in {"comma brace", "trailing data", "cut"}}
  /\ state' = "drifted"
  /\ UNCHANGED object

AnswerNext == Serve \/ Drift \/ Parse

(* Members whose value the device only stores, shows or passes over.       *)
Informational ==
  {"server_utc_ms", "desired_config_revision", "created_at_ms", "occurred_at_ms",
   "time_quality", "symbolication_status", "retained_records", "revision", "created_by",
   "release_counter", "image_size", "imported_at_ms", "imported_by", "duration_seconds",
   "expires_at_ms", "lease_expires_at_ms", "delivery_attempt"}
Binding(members) ==
  {members[i] : i \in {j \in DOMAIN members : members[j].name \notin Informational}}

(* The contract of device and server holds in both directions: whatever a  *)
(* handler of the server writes, the device's parser of it takes, so that  *)
(* no upload, poll or report is refused for ever; and what a parser takes, *)
(* after any one drift of the contract, is in every member that decides    *)
(* about a file or a command an answer the server writes to this request.  *)
ContractKept ==
  /\ state = "refused" =>
       ~ \E members \in Served[object] : body = [members |-> members, end |-> "brace"]
  /\ state = "taken" =>
       \E members \in Served[object] :
         /\ Len(members) = Len(body.members) /\ Names(members) = Names(body.members)
         /\ Binding(members) = Binding(body.members)

AnswerSpec == AnswerInit /\ [][AnswerNext]_answerVars
=============================================================================
