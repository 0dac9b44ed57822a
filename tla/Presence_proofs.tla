--------------------------- MODULE Presence_proofs ---------------------------
(* ScreenJustified for all times the configuration may take, a clock that   *)
(* moves by any step, and configurations that replace each other at any     *)
(* turn.                                                                    *)
(*                                                                          *)
(* Two facts about ages carry the argument: sound counts only while motion  *)
(* is younger than the bridge, so the last motion is at most that much      *)
(* older than the last sound; and so it is with the time the state was      *)
(* entered.  From them each look at the state bounds the age of the motion  *)
(* anew.  A label of absence skips one look, so one turn more may pass.     *)
EXTENDS Presence, TLAPS

\* What the overlays leave of the brightness of the state.
OverlayInv ==
    /\ challenge => override
    /\ ~diagnostics /\ ~override => screen = Brightness(state)
    /\ turn = "serial" => IF challenge \/ diagnostics THEN screen = "on"
                          ELSE screen = Brightness(state)

SoundInv == soundAge < Longest.soundHold => pirAge < soundAge + Longest.bridge

CalibratingInv == state = "calibrating" /\ stateAge < Calibration => pirAge <= stateAge

\* How old the motion may be grows in the turns in which nothing looked at the
\* state since.
PresentInv ==
    state = "present" =>
        /\ stateAge < Longest.minimumOn => pirAge < stateAge + Longest.bridge
        /\ turn \in {"draw", "serial", "loop"} /\ touched = "no" => pirAge < OnLimit
        /\ turn \in {"sense", "input"} /\ touched # "absent" => pirAge < OnLimit + MaxStep
        /\ turn \in {"update", "draw", "serial", "loop"} =>
               /\ touched = "absent"  => pirAge < OnLimit + MaxStep
               /\ touched = "present" => pirAge = 0
        /\ pirAge < OnLimit + 2 * MaxStep

CooldownInv ==
    state = "cooldown" /\ stateAge < Longest.cooldown =>
        pirAge < OnLimit + 2 * MaxStep + stateAge

\* After a look at the state.
LookedInv ==
    turn \in {"draw", "serial"} /\ touched = "no" =>
        /\ state = "calibrating" => pirAge < OnLimit
        /\ state = "cooldown" => pirAge < LitLimit

AgesInv == SoundInv /\ CalibratingInv /\ PresentInv /\ CooldownInv /\ LookedInv

PresenceInv == TypeOK /\ OverlayInv /\ AgesInv

-----------------------------------------------------------------------------

\* The limits are as large as the times they are made of.
LEMMA Limits ==
    /\ {Longest.minimumOn, Longest.pirHold, Longest.soundHold, Longest.bridge,
        Longest.cooldown, Calibration, MaxStep} \subseteq Nat \ {0}
    /\ OnLimit \in Nat \ {0} /\ LitLimit \in Nat /\ StateLimit \in Nat
    /\ OnLimit >= Calibration /\ OnLimit >= Longest.pirHold /\ OnLimit >= Longest.bridge
    /\ OnLimit >= Longest.bridge + Longest.soundHold - 1
    /\ OnLimit >= Longest.bridge + Longest.minimumOn - 1
    /\ LitLimit = OnLimit + 2 * MaxStep + Longest.cooldown - 1
    /\ StateLimit >= Calibration /\ StateLimit >= Longest.minimumOn
    /\ StateLimit >= Longest.cooldown
<1>1. {Longest.minimumOn, Longest.pirHold, Longest.soundHold, Longest.bridge,
       Longest.cooldown, Calibration, MaxStep} \subseteq Nat \ {0}
  BY PresenceAssumption
<1> QED
  BY <1>1 DEF OnLimit, LitLimit, StateLimit, Larger

\* A configuration in force asks for no more than the longest times.
LEMMA ConfigBounded ==
    ASSUME NEW c \in Configs
    PROVE  /\ c.minimumOn \in Nat /\ c.minimumOn <= Longest.minimumOn
           /\ c.pirHold \in Nat   /\ c.pirHold <= Longest.pirHold
           /\ c.soundHold \in Nat /\ c.soundHold <= Longest.soundHold
           /\ c.bridge \in Nat    /\ c.bridge <= Longest.bridge
           /\ c.cooldown \in Nat  /\ c.cooldown <= Longest.cooldown
<1>1. c \in Valid
  BY PresenceAssumption
<1> QED
  BY <1>1, Limits DEF Valid

\* Time adds to an age until it no longer matters.
LEMMA OlderBounded ==
    ASSUME NEW limit \in Nat, NEW age \in 0..limit, NEW by \in Nat
    PROVE  /\ Older(age, by, limit) \in 0..limit
           /\ Older(age, by, limit) <= age + by
           /\ Older(age, by, limit) >= age
           /\ Older(age, by, limit) < limit => Older(age, by, limit) = age + by
BY DEF Older, Smaller

\* The machine starts in the invariant: the screen is dark and no age has run.
LEMMA PresenceInit == Init => PresenceInv
<1> SUFFICES ASSUME Init PROVE PresenceInv
  OBVIOUS
<1>1. TypeOK
  <2>1. pirAge \in 0..LitLimit /\ soundAge \in 0..Longest.soundHold /\ stateAge \in 0..StateLimit
    BY Limits DEF Init
  <2> QED
    BY <2>1, Zenon DEF Init, TypeOK
<1>2. OverlayInv
  BY DEF Init, OverlayInv, Brightness
<1>3. AgesInv
  BY Limits DEF Init, AgesInv, SoundInv, CalibratingInv, PresentInv, CooldownInv, LookedInv
<1> QED
  BY <1>1, <1>2, <1>3 DEF PresenceInv

\* Every step keeps the types: each age is capped, each configuration a known one.
LEMMA TypeStep == TypeOK /\ [Next]_presenceVars => TypeOK'
<1> SUFFICES ASSUME TypeOK, [Next]_presenceVars PROVE TypeOK'
  OBVIOUS
<1> USE DEF TypeOK
<1>a. CASE BeginTurn
  <2>1. PICK by \in 0..MaxStep :
            /\ pirAge'   = Older(pirAge, by, LitLimit)
            /\ soundAge' = Older(soundAge, by, Longest.soundHold)
            /\ stateAge' = Older(stateAge, by, StateLimit)
    BY <1>a DEF BeginTurn
  <2>2. by \in Nat
    BY Limits
  <2>3. pirAge' \in 0..LitLimit
    BY <2>1, <2>2, Limits, OlderBounded
  <2>4. soundAge' \in 0..Longest.soundHold
    BY <2>1, <2>2, Limits, OlderBounded
  <2>5. stateAge' \in 0..StateLimit
    BY <2>1, <2>2, Limits, OlderBounded
  <2>6. confirming' \in BOOLEAN /\ diagnostics' \in BOOLEAN /\ (confirming' => diagnostics')
    <3>1. CASE MayEnd(confirming) /\ UNCHANGED diagnostics
      BY <3>1 DEF MayEnd
    <3>2. CASE confirming' = TRUE /\ diagnostics' = TRUE
      BY <3>2
    <3> QED
      BY <1>a, <3>1, <3>2 DEF BeginTurn
  <2>7. screen' \in {"on", "dim", "off"}
    BY <1>a DEF BeginTurn
  <2> QED
    BY <1>a, <2>3, <2>4, <2>5, <2>6, <2>7 DEF BeginTurn, evidence
<1>b. CASE Sense
  BY <1>b, Limits DEF Sense, overlays
<1>c. CASE ReadUserInput
  <2>1. CASE ReadDiagnosticsInput
    BY <1>c, <2>1 DEF ReadUserInput, ReadDiagnosticsInput, MayEnd, evidence, Brightness
  <2>2. CASE ReadNoInput
    BY <1>c, <2>2 DEF ReadUserInput, ReadNoInput, evidence
  <2>3. CASE TouchPresent
    BY <1>c, <2>3, Limits DEF ReadUserInput, TouchPresent, EnterState, evidence, Brightness
  <2>4. CASE TouchAbsent
    BY <1>c, <2>4 DEF ReadUserInput, TouchAbsent, StayInState, evidence
  <2> QED
    BY <1>c, <2>1, <2>2, <2>3, <2>4 DEF ReadUserInput
<1>d. CASE UpdatePresence
  <2> USE DEF EnterState, Brightness, KeepsScreen, Updates, evidence, overlays, NoArrival,
              PirAge, Arrive
  <2>1. CASE CalibrationEnds
    BY <2>1, Limits DEF CalibrationEnds
  <2>2. CASE PirMotion
    BY <2>2, Limits DEF PirMotion
  <2>3. CASE QuietTimeout
    BY <2>3, Limits DEF QuietTimeout
  <2>4. CASE LeaveCooldown
    BY <2>4, Limits DEF LeaveCooldown
  <2>5. CASE Remain
    BY <2>5, Limits DEF Remain, StayInState
  <2>6. CASE SkipUpdate
    BY <2>6 DEF SkipUpdate, StayInState
  <2> QED
    BY <1>d, <2>1, <2>2, <2>3, <2>4, <2>5, <2>6 DEF UpdatePresence
<1>e. CASE DrawDisplay
  BY <1>e DEF DrawDisplay, MayEnd, evidence, Brightness
<1>f. CASE PollProvisioning
  BY <1>f DEF PollProvisioning, MayEnd, evidence
<1>g. CASE UNCHANGED presenceVars
  BY <1>g DEF presenceVars, evidence, overlays
<1> QED
  BY <1>a, <1>b, <1>c, <1>d, <1>e, <1>f, <1>g DEF Next

\* Every step keeps the two parts about the overlays of the screen.
LEMMA OverlayStep == TypeOK /\ OverlayInv /\ [Next]_presenceVars => OverlayInv'
<1> SUFFICES ASSUME TypeOK, OverlayInv, [Next]_presenceVars PROVE OverlayInv'
  OBVIOUS
<1> USE DEF OverlayInv, TypeOK, Brightness, evidence, overlays
<1>a. CASE BeginTurn
  BY <1>a DEF BeginTurn
<1>b. CASE Sense
  BY <1>b DEF Sense
<1>c. CASE ReadUserInput
  <2>1. CASE ReadDiagnosticsInput
    BY <1>c, <2>1 DEF ReadUserInput, ReadDiagnosticsInput
  <2>2. CASE ReadNoInput
    BY <1>c, <2>2 DEF ReadUserInput, ReadNoInput
  <2>3. CASE TouchPresent
    BY <1>c, <2>3 DEF ReadUserInput, TouchPresent, EnterState
  <2>4. CASE TouchAbsent
    BY <1>c, <2>4 DEF ReadUserInput, TouchAbsent, StayInState
  <2> QED
    BY <1>c, <2>1, <2>2, <2>3, <2>4 DEF ReadUserInput
<1>d. CASE UpdatePresence
  <2> USE DEF EnterState, KeepsScreen, Updates, Arrive
  <2>1. CASE CalibrationEnds
    BY <2>1 DEF CalibrationEnds
  <2>2. CASE PirMotion
    BY <2>2 DEF PirMotion
  <2>3. CASE QuietTimeout
    BY <2>3 DEF QuietTimeout
  <2>4. CASE LeaveCooldown
    BY <2>4 DEF LeaveCooldown
  <2>5. CASE Remain
    BY <2>5 DEF Remain, StayInState
  <2>6. CASE SkipUpdate
    BY <2>6 DEF SkipUpdate, StayInState
  <2> QED
    BY <1>d, <2>1, <2>2, <2>3, <2>4, <2>5, <2>6 DEF UpdatePresence
<1>e. CASE DrawDisplay
  BY <1>e DEF DrawDisplay, MayEnd
<1>f. CASE PollProvisioning
  BY <1>f DEF PollProvisioning, MayEnd
<1>g. CASE UNCHANGED presenceVars
  BY <1>g DEF presenceVars
<1> QED
  BY <1>a, <1>b, <1>c, <1>d, <1>e, <1>f, <1>g DEF Next

\* Every step keeps the relations between the ages and the machine's state.
LEMMA AgesStep ==
    ASSUME TypeOK, TypeOK', AgesInv, [Next]_presenceVars
    PROVE  AgesInv'
<1> USE DEF TypeOK, AgesInv, SoundInv, CalibratingInv, PresentInv, CooldownInv, LookedInv
<1>a. CASE BeginTurn
  <2>1. PICK by \in 0..MaxStep :
            /\ pirAge'   = Older(pirAge, by, LitLimit)
            /\ soundAge' = Older(soundAge, by, Longest.soundHold)
            /\ stateAge' = Older(stateAge, by, StateLimit)
    BY <1>a DEF BeginTurn
  <2>2. by \in Nat
    BY Limits
  <2>3. pirAge' <= pirAge + by
    BY <2>1, <2>2, Limits, OlderBounded
  <2>4. soundAge' < Longest.soundHold => soundAge' = soundAge + by
    BY <2>1, <2>2, Limits DEF Older, Smaller
  <2>5. stateAge' < StateLimit => stateAge' = stateAge + by
    BY <2>1, <2>2, Limits, OlderBounded
  <2>6. turn = "loop" /\ turn' = "sense" /\ state' = state /\ touched' = touched
    BY <1>a DEF BeginTurn
  <2>7. SoundInv'
    BY <2>2, <2>3, <2>4, Limits
  <2>8. CalibratingInv'
    BY <2>2, <2>3, <2>5, <2>6, Limits
  <2>9. PresentInv'
    BY <2>2, <2>3, <2>5, <2>6, Limits
  <2>10. CooldownInv'
    BY <2>2, <2>3, <2>5, <2>6, Limits
  <2>11. LookedInv'
    BY <2>6
  <2> QED
    BY <2>7, <2>8, <2>9, <2>10, <2>11
<1>b. CASE Sense
  <2>1. /\ turn = "sense" /\ turn' = "input" /\ state' = state /\ touched' = touched
        /\ pirAge' = pirAge /\ stateAge' = stateAge
    BY <1>b DEF Sense
  <2>2. soundAge' = soundAge \/ (soundAge' = 0 /\ pirAge < config.bridge)
    BY <1>b DEF Sense, Bridges
  <2>3. SoundInv'
    BY <2>1, <2>2, Limits, ConfigBounded
  <2> QED
    BY <2>1, <2>3, Limits
<1>c. CASE ReadUserInput
  <2>1. CASE ReadDiagnosticsInput
    BY <1>c, <2>1, Limits DEF ReadUserInput, ReadDiagnosticsInput
  <2>2. CASE ReadNoInput
    BY <1>c, <2>2, Limits DEF ReadUserInput, ReadNoInput
  <2>3. CASE TouchPresent
    BY <1>c, <2>3, Limits DEF ReadUserInput, TouchPresent, EnterState
  <2>4. CASE TouchAbsent
    BY <1>c, <2>4, Limits DEF ReadUserInput, TouchAbsent, StayInState
  <2> QED
    BY <1>c, <2>1, <2>2, <2>3, <2>4 DEF ReadUserInput
<1>d. CASE UpdatePresence
  <2> USE Limits, ConfigBounded DEF EnterState, KeepsScreen, Updates, Arrive, NoArrival, PirAge
  <2>1. CASE CalibrationEnds
    BY <2>1 DEF CalibrationEnds
  <2>2. CASE PirMotion
    BY <2>2 DEF PirMotion
  <2>3. CASE QuietTimeout
    BY <2>3 DEF QuietTimeout
  <2>4. CASE LeaveCooldown
    BY <2>4 DEF LeaveCooldown, SoundBridges
  <2>5. CASE Remain
    BY <2>5 DEF Remain, StayInState, NothingDue
  <2>6. CASE SkipUpdate
    BY <2>6 DEF SkipUpdate, StayInState
  <2> QED
    BY <1>d, <2>1, <2>2, <2>3, <2>4, <2>5, <2>6 DEF UpdatePresence
<1>e. CASE DrawDisplay
  BY <1>e, Limits DEF DrawDisplay
<1>f. CASE PollProvisioning
  BY <1>f, Limits DEF PollProvisioning
<1>g. CASE UNCHANGED presenceVars
  BY <1>g DEF presenceVars
<1> QED
  BY <1>a, <1>b, <1>c, <1>d, <1>e, <1>f, <1>g DEF Next

\* The invariant is inductive.
LEMMA PresenceNext == PresenceInv /\ [Next]_presenceVars => PresenceInv'
BY TypeStep, OverlayStep, AgesStep DEF PresenceInv

\* What the machine keeps is enough to justify every screen it shows.
LEMMA PresenceJustifies == PresenceInv => ScreenJustified
<1> SUFFICES ASSUME PresenceInv, turn = "serial", ~challenge, ~diagnostics
             PROVE  /\ screen = Brightness(state)
                    /\ touched = "no" /\ screen = "on"  => pirAge < OnLimit
                    /\ touched = "no" /\ screen = "dim" => pirAge < LitLimit
  BY DEF ScreenJustified, PresenceInv, OverlayInv
<1>1. screen = Brightness(state)
  BY DEF PresenceInv, OverlayInv
<1>2. screen = "on" => state \in {"calibrating", "present"}
  BY <1>1 DEF Brightness, PresenceInv, TypeOK
<1>3. screen = "dim" => state = "cooldown"
  BY <1>1 DEF Brightness, PresenceInv, TypeOK
<1> QED
  BY <1>1, <1>2, <1>3 DEF PresenceInv, AgesInv, PresentInv, LookedInv

-----------------------------------------------------------------------------

\* The ages stay under their limits and nothing waits for a confirmation unless
\* diagnostics are shown.
THEOREM PresenceTypeCorrect == Spec => []TypeOK
BY PresenceInit, TypeStep, PTL DEF Spec, PresenceInv

\* The inductive invariant: what the screen shows, and how old the motion may be
\* in each state.
THEOREM PresenceInvariance == Spec => []PresenceInv
BY PresenceInit, PresenceNext, PTL DEF Spec

\* A screen that is lit is justified by a recent motion or touch or by an overlay,
\* whatever configurations come into force in whatever order.
THEOREM ScreenAlwaysJustified == Spec => []ScreenJustified
BY PresenceInvariance, PresenceJustifies, PTL

=============================================================================
