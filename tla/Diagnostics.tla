----------------------------- MODULE Diagnostics -----------------------------
(***************************************************************************)
(* The warnings about the load cell and the grinder:                       *)
(* system/diagnostics_controller.cpp, and the flag that says the load cell *)
(* is calibrated (WeightSensor::is_calibrated), with its cache.            *)
(*                                                                         *)
(* UIManager::update() updates the warnings first, once per turn.          *)
(***************************************************************************)
EXTENDS LoadCell

CONSTANTS
    High,      \* kNoiseHighThresholdMs
    Recovery,  \* kNoiseRecoveryThresholdMs
    Required,  \* GRIND_MECHANICAL_EVENT_REQUIRED_COUNT
    MaxEvents  \* bound: the events that are counted

ASSUME TimesAssumption == {High, Recovery, Required} \subseteq Nat \ {0} /\ MaxEvents \in Nat

VARIABLES
    flag,       \* "calibrated" in the preferences
    cached,     \* calibration_flag_cached_
    known,      \* calibration_flag_value_
    misread,    \* history: that value is of a read that failed
    warnings,   \* active_diagnostics_
    high,       \* time since noise_high_start_ms_, or Never
    calm,       \* time since noise_recovery_start_ms_, or Never
    anomalies,  \* mechanical_anomaly_count_
    quiet,      \* history: time without noise at any look
    loud        \* history: time with noise at every look

flags   == <<flag, cached, known, misread>>
watch   == <<warnings, high, calm, anomalies, quiet, loud>>
checked == <<flags, watch>>

Warning == {"HX711_NOT_CONNECTED", "HX711_SAMPLE_RATE_INVALID", "MECHANICAL_INSTABILITY",
            "LOAD_CELL_NOISY_SUSTAINED", "LOAD_CELL_NOT_CALIBRATED"}
NOISY == "LOAD_CELL_NOISY_SUSTAINED"

DiagnosticsTypeOK ==
    /\ {flag, cached, known, misread} \subseteq BOOLEAN
    /\ warnings \subseteq Warning
    /\ high \in Ages(High) /\ calm \in Ages(Recovery) /\ anomalies \in 0..MaxEvents
    /\ quiet \in 0..Recovery /\ loud \in 0..High

\* is_calibrated(): the flag is read once; when the preferences cannot be
\* opened, FALSE is kept instead.
ReadFlag ==
    IF cached THEN UNCHANGED <<cached, known, misread>>
    ELSE \/ cached' = TRUE /\ known' = flag /\ misread' = FALSE
         \/ cached' = TRUE /\ known' = FALSE /\ misread' = TRUE

\* main.cpp reads the flag to choose the first screen.
DiagnosticsInit ==
    /\ flag = FALSE /\ cached = TRUE /\ known = FALSE /\ misread = FALSE
    /\ warnings = {} /\ high = Never /\ calm = Never /\ anomalies = 0
    /\ quiet = 0 /\ loud = 0

DiagnosticsRestart(stored) ==
    /\ flag' = stored /\ cached' = TRUE
    /\ \/ known' = stored /\ misread' = FALSE
       \/ known' = FALSE /\ misread' = TRUE
    /\ warnings' = {} /\ high' = Never /\ calm' = Never /\ anomalies' = 0
    /\ quiet' = 0 /\ loud' = 0

\* set_calibrated(true): the preferences may not open.
RefreshCache == cached' = TRUE /\ known' = TRUE /\ misread' = FALSE
SetCalibrated ==
    \/ flag' = TRUE /\ RefreshCache
    \/ cached' = FALSE /\ UNCHANGED <<flag, known, misread>>

-----------------------------------------------------------------------------
\* DiagnosticsController::update(), by what it looks at.

AboutFlag == IF known' THEN {} ELSE {"LOAD_CELL_NOT_CALIBRATED"}
AboutFault ==
    CASE fault = "NOT_CONNECTED"       -> {"HX711_NOT_CONNECTED"}
      [] fault = "INVALID_SAMPLE_RATE" -> {"HX711_SAMPLE_RATE_INVALID"}
      [] OTHER                         -> {}
\* This one is set here, and never cleared.
AboutGrinder ==
    IF anomalies >= Required \/ "MECHANICAL_INSTABILITY" \in warnings
    THEN {"MECHANICAL_INSTABILITY"} ELSE {}

\* check_load_cell_noise(): the timers, and whether the warning is on.
\* mutant: it runs on through a quiet spell
HighKept == IF high # Never THEN Later(high, High) ELSE IF noisy' THEN 0 ELSE Never
HighTime == IF ~noisy' THEN Never ELSE IF high = Never THEN 0 ELSE Later(high, High)
CalmTime ==
    IF noisy' \/ NOISY \notin warnings THEN Never
    ELSE IF calm = Never THEN 0 ELSE Later(calm, Recovery)
CalmEnough == CalmTime >= Recovery
StaysNoisy ==
    IF noisy' THEN HighTime >= High \/ NOISY \in warnings
    ELSE NOISY \in warnings /\ ~CalmEnough

\* The histories, after a look and in a unit of time without one.
Longer(n, max) == IF n < max THEN n + 1 ELSE max
Histories ==
    /\ quiet' = IF noisy' THEN 0 ELSE Longer(quiet, Recovery)
    /\ loud' = IF noisy' THEN Longer(loud, High) ELSE 0
Unwatched ==
    /\ quiet' = Longer(quiet, Recovery) /\ loud' = Longer(loud, High)
    /\ high' = Later(high, High) /\ calm' = Later(calm, Recovery)
    /\ UNCHANGED <<flags, warnings, anomalies>>

\* The warnings after it, where calibrating keeps off the one about noise
\* (CalibrationUIController::update, reset_noise_tracking).
UpdateDiagnostics(calibrating) ==
    LET about == AboutFlag \cup AboutFault \cup AboutGrinder
        off   == calibrating /\ StaysNoisy
    IN  /\ ReadFlag
        /\ warnings' = IF StaysNoisy /\ ~calibrating THEN about \cup {NOISY} ELSE about
        /\ high' = IF off THEN Never ELSE HighTime
        /\ calm' = IF off \/ (~noisy' /\ CalmEnough) THEN Never ELSE CalmTime
        /\ Histories
        /\ UNCHANGED <<flag, anomalies>>

-----------------------------------------------------------------------------
\* The grinder: a drop of weight while it grinds, and the next grind.

Anomaly ==
    /\ anomalies < MaxEvents
    /\ anomalies' = anomalies + 1
    /\ UNCHANGED <<flags, warnings, high, calm, quiet, loud>>

\* reset_mechanical_anomaly_count() and reset_diagnostic() of start_grind().
ResetByGrind ==
    /\ anomalies' = 0
    /\ warnings' = warnings \ {"MECHANICAL_INSTABILITY"}
    /\ UNCHANGED <<flags, high, calm, quiet, loud>>

\* MenuUIController::perform_diagnostics_reset().
ResetDiagnostics ==
    /\ anomalies' = 0
    /\ warnings' = warnings \ {"MECHANICAL_INSTABILITY", NOISY}
    /\ high' = Never /\ calm' = Never
    /\ UNCHANGED <<flags, quiet, loud>>

-----------------------------------------------------------------------------
\* The warnings are about what they say.  The cached flag is the one in the
\* preferences, unless the read of it failed: a write that fails must not leave a
\* stale value (WeightSensor::set_calibrated).  And a mechanical warning is about
\* events since the last grind began or somebody reset it.
WarningsAreTrue ==
    /\ cached /\ ~misread => known = flag
    /\ "MECHANICAL_INSTABILITY" \in warnings => anomalies >= Required
    /\ "HX711_NOT_CONNECTED" \in warnings => fault = "NOT_CONNECTED"
    /\ "HX711_SAMPLE_RATE_INVALID" \in warnings => fault = "INVALID_SAMPLE_RATE"
=============================================================================
