---------------------------- MODULE MC_Services ----------------------------
(* Safety of components that are small beside the telemetry and the OTA     *)
(* path: provisioned settings, touch corrections, core dumps and the        *)
(* answers of the server.  They share no state, so a behaviour is one of a  *)
(* single component, chosen at its start, while the others stay as they     *)
(* were.                                                                    *)
EXTENDS SettingsStore, FeedbackPipeline, CoreDump, Answers

VARIABLE part

settingsVars == <<valid, field, marker, step, saving, target, next>>

InSettings(A)   == part = "settings" /\ A
    /\ UNCHANGED <<part, feedbackVars, coreDumpVars, answerVars>>
InCorrection(A) == part = "correction" /\ A
    /\ UNCHANGED <<part, settingsVars, coreDumpVars, answerVars>>
InDump(A)       == part = "dump" /\ A
    /\ UNCHANGED <<part, settingsVars, feedbackVars, answerVars>>
InContract(A)   == part = "answer" /\ A
    /\ UNCHANGED <<part, settingsVars, feedbackVars, coreDumpVars>>

SumInit ==
    /\ part \in {"settings", "correction", "dump", "answer"}
    /\ Init /\ FeedbackInit /\ DumpInit
    /\ part # "correction" => boot = 1    \* one start for the other parts
    /\ IF part = "answer" THEN AnswerInit
       ELSE object = "none" /\ body = "none" /\ state = "none"

SumNext ==
    \/ InSettings(Next) \/ InCorrection(FeedbackNext) \/ InDump(DumpNext)
    \/ InContract(AnswerNext)

SumSpec ==
    SumInit /\ [][SumNext]_<<part, settingsVars, feedbackVars, coreDumpVars, answerVars>>
=============================================================================
