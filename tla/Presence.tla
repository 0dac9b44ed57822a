------------------------------ MODULE Presence ------------------------------
(* The presence state machine of the main loop (src/main.cpp) and what else *)
(* changes the brightness of the screen: local diagnostics and the          *)
(* provisioning challenge.                                                  *)
(*                                                                          *)
(* One turn of loop() is five steps.  The clock moves between two turns by  *)
(* up to MaxStep; of lastPirMs, lastSoundMs and stateSinceMs is kept the    *)
(* age, up to the greatest one that matters.  The deadlines of diagnostics, *)
(* of the confirmation and of the challenge may pass at any turn.  Records  *)
(* and labels are TelemetryFifo's; here a label is taken or refused.        *)
EXTENDS Naturals

CONSTANTS
    Longest,      \* the times validatePresenceConfig allows at most
    Configs,      \* the configurations that come into force
    Calibration,  \* kCalibrationMs
    MaxStep

Valid ==
    [minimumOn : 0..Longest.minimumOn, pirHold  : 1..Longest.pirHold,
     soundHold : 0..Longest.soundHold, bridge   : 0..Longest.bridge,
     cooldown  : 0..Longest.cooldown]

ASSUME PresenceAssumption ==
    /\ Longest \in [{"minimumOn", "pirHold", "soundHold", "bridge", "cooldown"} ->
                        Nat \ {0}]
    /\ Configs \subseteq Valid
    /\ {Calibration, MaxStep} \subseteq Nat \ {0}

VARIABLES
    turn,         \* the next step of the loop
    config,       \* activeConfig
    state,
    pir,          \* pirHigh
    sound,        \* soundActive
    pirAge, soundAge, stateAge,
    touched,      \* present or absent: readUserInput returned true in this turn
    diagnostics,  \* diagnosticsVisible
    confirming,   \* remoteOtaConfirmationPending
    challenge,    \* provisioningChallengeActive
    override,     \* provisioningBrightnessOverride
    screen        \* currentBrightness: on, dim, off

evidence == <<pir, sound>>
overlays == <<diagnostics, confirming, challenge, override>>
presenceVars == <<turn, config, state, evidence, pirAge, soundAge, stateAge, touched,
                  overlays, screen>>

Larger(a, b)  == IF a > b THEN a ELSE b
Smaller(a, b) == IF a < b THEN a ELSE b

\* How long the screen stays on, and lit at all, without motion or touch: the
\* last sound that counted may be as late as the bridge allows, its hold or the
\* least time of the state it led to comes after it.  A label of absence puts the
\* next look at the state off by a turn.
OnLimit ==
    Larger(Larger(Calibration, Longest.pirHold),
           Longest.bridge + Larger(Longest.soundHold, Longest.minimumOn) - 1)
LitLimit == OnLimit + 2 * MaxStep + Longest.cooldown - 1

StateLimit == Larger(Calibration, Larger(Longest.minimumOn, Longest.cooldown))

\* presenceStateBrightness.
Brightness(s) ==
    CASE s \in {"calibrating", "present"} -> "on"
      [] s = "cooldown"                   -> "dim"
      [] s = "idle"                       -> "off"

Init ==
    /\ turn = "loop" /\ config \in Configs /\ state = "calibrating"
    /\ pir = FALSE /\ sound = FALSE
    /\ pirAge = 0 /\ soundAge = 0 /\ stateAge = 0 /\ touched = "no"
    /\ diagnostics = FALSE /\ confirming = FALSE
    /\ challenge = FALSE /\ override = FALSE /\ screen = "on"

\* enterState, which does nothing if the state is the same.
EnterState(next) ==
    /\ state' = next
    /\ stateAge' = IF next = state THEN stateAge ELSE 0
    /\ screen' = IF next = state \/ diagnostics THEN screen ELSE Brightness(next)

StayInState == UNCHANGED <<state, stateAge, screen>>

Older(age, by, limit) == Smaller(age + by, limit)

\* Its deadline may have passed.
MayEnd(shown) == shown' \in BOOLEAN /\ (shown' => shown)

\* applyPendingConfig; then processMainControl, where a confirmation expires and
\* the next request opens diagnostics.
BeginTurn ==
    /\ turn = "loop" /\ turn' = "sense"
    /\ config' \in Configs
    /\ \E by \in 0..MaxStep :
           /\ pirAge'   = Older(pirAge, by, LitLimit)
           /\ soundAge' = Older(soundAge, by, Longest.soundHold)
           /\ stateAge' = Older(stateAge, by, StateLimit)
    /\ \/ MayEnd(confirming) /\ UNCHANGED <<diagnostics, screen>>
       \/ /\ confirming' = TRUE /\ diagnostics' = TRUE
          /\ screen' = IF diagnostics THEN screen ELSE "on"
    /\ UNCHANGED <<state, evidence, touched, challenge, override>>

\* A faulty variant that hears sound however long ago the motion was; no action
\* uses it.
MutBridges == TRUE

Bridges == pirAge < config.bridge

\* The PIR pin and sampleMicrophone.  Nothing is heard during calibration, and
\* the age of the last motion is that of the turn before.
Sense ==
    /\ turn = "sense" /\ turn' = "input"
    /\ pir' \in BOOLEAN
    /\ sound' \in BOOLEAN /\ (state = "calibrating" => ~sound')
    /\ soundAge' = IF sound' /\ state # "idle" /\ Bridges THEN 0 ELSE soundAge
    /\ UNCHANGED <<config, state, pirAge, stateAge, touched, overlays, screen>>

\* readUserInput while diagnostics are shown: the gesture of the development
\* window, the button that leaves, the timeout.
ReadDiagnosticsInput ==
    /\ diagnostics /\ touched' = "no"
    /\ \/ MayEnd(confirming) /\ UNCHANGED <<diagnostics, screen>>
       \/ confirming' = FALSE /\ diagnostics' = FALSE /\ screen' = Brightness(state)
    /\ UNCHANGED <<state, pirAge, soundAge, stateAge>>

\* The button that opens diagnostics, or nothing, or a label that is refused.
ReadNoInput ==
    /\ ~diagnostics /\ touched' = "no"
    /\ \/ diagnostics' = TRUE /\ screen' = "on"
       \/ UNCHANGED <<diagnostics, screen>>
    /\ UNCHANGED <<confirming, state, pirAge, soundAge, stateAge>>

\* A label of presence that was taken, or the wake gesture.
TouchPresent ==
    /\ ~diagnostics /\ touched' = "present"
    /\ pirAge' = 0 /\ soundAge' = 0 /\ EnterState("present")
    /\ UNCHANGED <<diagnostics, confirming>>

\* A label of absence leaves the state alone.  Its button is up for a turn before
\* it is pressed again.
TouchAbsent ==
    /\ ~diagnostics /\ touched # "absent" /\ touched' = "absent"
    /\ UNCHANGED <<diagnostics, confirming, pirAge, soundAge>> /\ StayInState

ReadUserInput ==
    /\ turn = "input" /\ turn' = "update"
    /\ ReadDiagnosticsInput \/ ReadNoInput \/ TouchPresent \/ TouchAbsent
    /\ UNCHANGED <<config, evidence, challenge, override>>

(* updatePresenceState, skipped in the turn of a touch.                     *)

Updates == turn = "update" /\ turn' = "draw" /\ touched = "no"

\* The age of the motion once this turn's is counted.
PirAge == IF pir THEN 0 ELSE pirAge

Arrive == pirAge' = 0 /\ soundAge' = 0 /\ EnterState("present")

NoArrival == pirAge' = PirAge /\ UNCHANGED soundAge

KeepsScreen == UNCHANGED <<config, evidence, touched, overlays>>

CalibrationEnds ==
    /\ Updates /\ state = "calibrating" /\ stateAge >= Calibration
    /\ IF pir THEN Arrive ELSE NoArrival /\ EnterState("idle")
    /\ KeepsScreen

PirMotion == Updates /\ state = "idle" /\ pir /\ Arrive /\ KeepsScreen

QuietTimeout ==
    /\ Updates /\ state = "present"
    /\ stateAge >= config.minimumOn /\ PirAge >= config.pirHold /\ soundAge >= config.soundHold
    /\ NoArrival /\ EnterState("cooldown") /\ KeepsScreen

SoundBridges == sound /\ PirAge < config.bridge

LeaveCooldown ==
    /\ Updates /\ state = "cooldown"
    /\ pirAge' = PirAge
    /\ soundAge' = IF SoundBridges THEN 0 ELSE soundAge
    /\ \/ (pir \/ SoundBridges) /\ EnterState("present")
       \/ ~pir /\ ~SoundBridges /\ stateAge >= config.cooldown /\ EnterState("idle")
    /\ KeepsScreen

\* No transition is due.
NothingDue ==
    \/ state = "calibrating" /\ stateAge < Calibration
    \/ state = "idle" /\ ~pir
    \/ state = "present" /\ \/ stateAge < config.minimumOn
                            \/ PirAge < config.pirHold
                            \/ soundAge < config.soundHold
    \/ state = "cooldown" /\ ~pir /\ ~SoundBridges /\ stateAge < config.cooldown

Remain == Updates /\ NothingDue /\ NoArrival /\ StayInState /\ KeepsScreen

SkipUpdate ==
    /\ turn = "update" /\ turn' = "draw" /\ touched # "no"
    /\ UNCHANGED <<pirAge, soundAge>> /\ StayInState /\ KeepsScreen

\* drawDisplay: the challenge expires, then what is shown decides.
DrawDisplay ==
    /\ turn = "draw" /\ turn' = "serial"
    /\ MayEnd(challenge)
    /\ IF challenge' \/ diagnostics
       THEN screen' = "on" /\ UNCHANGED override
       ELSE /\ override' = FALSE
            /\ screen' = IF override THEN Brightness(state) ELSE screen
    /\ UNCHANGED <<config, state, evidence, pirAge, soundAge, stateAge, touched, diagnostics,
                   confirming>>

\* pollProvisioningSerial: a challenge begins, is answered or is found expired,
\* also more than one of these in a turn.
PollProvisioning ==
    /\ turn = "serial" /\ turn' = "loop"
    /\ \/ MayEnd(challenge) /\ UNCHANGED <<override, screen>>
       \/ challenge' \in BOOLEAN /\ override' = TRUE /\ screen' = "on"
    /\ UNCHANGED <<config, state, evidence, pirAge, soundAge, stateAge, touched, diagnostics,
                   confirming>>

UpdatePresence ==
    CalibrationEnds \/ PirMotion \/ QuietTimeout \/ LeaveCooldown \/ Remain \/ SkipUpdate

Next ==
    BeginTurn \/ Sense \/ ReadUserInput \/ UpdatePresence \/ DrawDisplay \/ PollProvisioning

Spec == Init /\ [][Next]_presenceVars

-----------------------------------------------------------------------------

TypeOK ==
    /\ turn \in {"loop", "sense", "input", "update", "draw", "serial"}
    /\ config \in Configs /\ touched \in {"no", "present", "absent"}
    /\ state \in {"calibrating", "idle", "present", "cooldown"}
    /\ pirAge \in 0..LitLimit /\ soundAge \in 0..Longest.soundHold /\ stateAge \in 0..StateLimit
    /\ screen \in {"on", "dim", "off"}
    /\ pir \in BOOLEAN /\ sound \in BOOLEAN
    /\ diagnostics \in BOOLEAN /\ confirming \in BOOLEAN
    /\ challenge \in BOOLEAN /\ override \in BOOLEAN
    /\ confirming => diagnostics

\* "Sound may bridge stationary periods for at most 5 minutes after the latest
\* PIR evidence, so a television or fan cannot keep the display on forever".
\* Whenever the screen was drawn, in whatever order diagnostics and a challenge
\* came and went: it is on while one of them is shown, else it has the state's
\* brightness, is on only within OnLimit of the last motion or touch and lit
\* only within LitLimit, also across changes of the configuration.
ScreenJustified ==
    turn = "serial" =>
        IF challenge \/ diagnostics THEN screen = "on"
        ELSE /\ screen = Brightness(state)
             /\ touched = "no" /\ screen = "on"  => pirAge < OnLimit
             /\ touched = "no" /\ screen = "dim" => pirAge < LitLimit

=============================================================================
