----------------------------- MODULE Calibration -----------------------------
(***************************************************************************)
(* Calibrating the load cell: ui/controllers/calibration_controller.cpp    *)
(* over the load cell and the warnings, with the overlay that covers the   *)
(* display while an operation blocks the user interface                    *)
(* (ui/components/blocking_overlay.cpp) and restarts at any moment.        *)
(*                                                                         *)
(* The task of the user interface has two threads of its own here: a turn  *)
(* of UIManager::update() (Turn), and what LVGL calls, which is the user's *)
(* presses and the timer of the overlay.  While an operation runs there is *)
(* no turn, and time passes unwatched (Block).                             *)
(***************************************************************************)
EXTENDS Diagnostics

CONSTANTS
    MinDelta,   \* HW_LOADCELL_CAL_MIN_ADC_VALUE
    MinWait,    \* kMinWaitMs
    StableWait, \* kStableWaitMs
    ForceWait   \* kForceEnableMs

ASSUME WaitAssumption ==
    {MinDelta, MinWait, StableWait, ForceWait} \subseteq Nat \ {0} /\ StableWait <= Recovery

VARIABLES
    screen,    \* whether the state of the user interface is CALIBRATION
    step,      \* CalibrationScreen::current_step
    okOn,      \* whether its OK button is shown
    baseline,  \* baseline_adc_value_
    active,    \* noise_check_active_
    passed,    \* noise_check_passed_
    forced,    \* noise_check_forced_pass_
    entered,   \* time since noise_step_enter_ms_
    stable,    \* time since noise_ok_since_ms_, or Never
    overlay,   \* the operation it was shown for: "none", "tare", "calibrate", "scale"
    at         \* how far it is: "shown", "running", "filling"

check == <<active, passed, forced, entered, stable>>
page  == <<screen, step, okOn, baseline>>
cover == <<overlay, at>>
vars  == <<cell, checked, page, check, cover>>

Step == {"EMPTY", "WEIGHT", "NOISE_CHECK", "COMPLETE"}

CalibrationTypeOK ==
    /\ CellTypeOK /\ DiagnosticsTypeOK
    /\ screen \in {"ELSEWHERE", "CALIBRATION"} /\ step \in Step
    /\ okOn \in BOOLEAN /\ baseline \in Raws
    /\ {active, passed, forced} \subseteq BOOLEAN
    /\ entered \in 0..ForceWait /\ stable \in Ages(StableWait)
    /\ overlay \in {"none", "tare", "calibrate", "scale"}
    /\ at \in {"shown", "running", "filling"}

\* A device that is not calibrated starts on the calibration screen.
Init ==
    /\ CellInit /\ DiagnosticsInit
    /\ screen = "CALIBRATION" /\ step = "EMPTY" /\ okOn = TRUE /\ baseline = 0
    /\ active = FALSE /\ passed = FALSE /\ forced = FALSE /\ entered = 0 /\ stable = Never
    /\ overlay = "none" /\ at = "shown"

Restart(stored) ==
    /\ CellRestart /\ DiagnosticsRestart(stored)
    /\ screen' = IF known' THEN "ELSEWHERE" ELSE "CALIBRATION"
    /\ step' = "EMPTY" /\ okOn' = TRUE /\ baseline' = 0
    /\ active' = FALSE /\ passed' = FALSE /\ forced' = FALSE /\ entered' = 0 /\ stable' = Never
    /\ overlay' = "none" /\ at' = "shown"

PowerCut == Restart(flag)

\* perform_factory_reset(): the preferences are erased, or that fails.
FactoryReset ==
    /\ screen = "ELSEWHERE" /\ overlay = "none"
    /\ Restart(FALSE) \/ Restart(flag)

-----------------------------------------------------------------------------
\* A turn of UIManager::update().

\* update_noise_check(), one unit of time after the last turn.
EnteredTime == Later(entered, ForceWait)
StableTime == IF noisy' THEN Never ELSE IF stable = Never THEN 0 ELSE Later(stable, StableWait)
NeverForced == FALSE  \* mutant
ForceNow == EnteredTime >= ForceWait
CheckNoise ==
    /\ active /\ UNCHANGED active
    /\ entered' = EnteredTime
    /\ \/ /\ passed
          /\ okOn' = TRUE
          /\ UNCHANGED <<passed, forced, stable>>
       \/ /\ ~passed /\ ForceNow
          /\ passed' = TRUE /\ forced' = TRUE /\ okOn' = TRUE
          /\ UNCHANGED stable
       \/ /\ ~passed /\ ~ForceNow /\ EnteredTime < MinWait
          /\ stable' = Never /\ okOn' = FALSE
          /\ UNCHANGED <<passed, forced>>
       \/ /\ ~passed /\ ~ForceNow /\ EnteredTime >= MinWait
          /\ stable' = StableTime
          /\ passed' = (StableTime >= StableWait) /\ okOn' = passed'
          /\ UNCHANGED forced

\* reset_noise_check_state().
ClearCheck ==
    active' = FALSE /\ passed' = FALSE /\ forced' = FALSE /\ entered' = 0 /\ stable' = Never
LeaveCheck == IF active /\ step # "NOISE_CHECK" THEN ClearCheck ELSE UNCHANGED check

Apart(a, b) == IF a < b THEN b - a ELSE a - b
AnyReading == Apart(reading, baseline) >= 0  \* mutant: without a minimum
WeightIsOn == Apart(reading, baseline) >= MinDelta

\* CalibrationUIController::update(), after the warnings.
UpdateCalibration ==
    \/ /\ step = "NOISE_CHECK" /\ CheckNoise
    \/ /\ step = "WEIGHT" /\ LeaveCheck
       /\ okOn' = WeightIsOn
    \/ /\ step \in {"EMPTY", "COMPLETE"} /\ LeaveCheck
       /\ UNCHANGED okOn

Turn ==
    /\ at = "shown"
    /\ Shake /\ Judge
    /\ UpdateDiagnostics(screen = "CALIBRATION")
    /\ IF screen = "CALIBRATION" THEN UpdateCalibration ELSE UNCHANGED <<check, okOn>>
    /\ UNCHANGED <<screen, step, baseline, cover>>

-----------------------------------------------------------------------------
\* The user.

\* What covers the display takes the presses.
Press(where) == overlay = "none" /\ screen = where
Cover(op) == overlay' = op /\ at' = "shown"

\* handle_calibrate(), switch_to_state(CALIBRATION).
OpenCalibration ==
    /\ Press("ELSEWHERE")
    /\ screen' = "CALIBRATION" /\ step' = "EMPTY" /\ okOn' = TRUE
    /\ UNCHANGED <<cell, checked, baseline, check, cover>>

\* handle_scale_open(), handle_scale_tare().
TareScale ==
    /\ Press("ELSEWHERE") /\ Cover("scale")
    /\ UNCHANGED <<cell, checked, page, check>>

AskReset ==
    /\ Press("ELSEWHERE") /\ ResetDiagnostics
    /\ UNCHANGED <<cell, page, check, cover>>

\* handle_ok(), by step.
OkEmpty ==
    /\ step = "EMPTY" /\ Cover("tare")
    /\ UNCHANGED <<cell, checked, page, check>>

OkWeight ==
    /\ step = "WEIGHT" /\ Cover("calibrate")
    /\ UNCHANGED <<cell, checked, page, check>>

\* complete_calibration().
OkNoiseCheck ==
    /\ step = "NOISE_CHECK" /\ passed
    /\ SetCalibrated
    /\ ClearCheck
    /\ step' = "COMPLETE" /\ okOn' = TRUE /\ baseline' = 0
    /\ UNCHANGED <<cell, watch, screen, cover>>

OkComplete ==
    /\ step = "COMPLETE"
    /\ screen' = "ELSEWHERE"
    /\ UNCHANGED <<cell, checked, step, okOn, baseline, check, cover>>

PressOk ==
    /\ Press("CALIBRATION") /\ okOn
    /\ OkEmpty \/ OkWeight \/ OkNoiseCheck \/ OkComplete

\* handle_cancel(); set_step() hides its button in the last two steps.
Cancel ==
    /\ Press("CALIBRATION") /\ step \in {"EMPTY", "WEIGHT"}
    /\ ClearCheck
    /\ screen' = "ELSEWHERE" /\ baseline' = 0
    /\ UNCHANGED <<cell, checked, step, okOn, cover>>

Put ==
    /\ MoveLoad
    /\ UNCHANGED <<checked, page, check, cover>>

Grinding ==
    /\ Press("ELSEWHERE")
    /\ Anomaly \/ ResetByGrind
    /\ UNCHANGED <<cell, page, check, cover>>

-----------------------------------------------------------------------------
\* The overlay, and the operation that blocks the user interface.

Taring == overlay \in {"tare", "scale"}
Uncover == overlay' = "none" /\ at' = "shown"

\* operation_timer_cb().
BeginTare ==
    /\ Taring /\ at = "shown"
    /\ RequestTare /\ at' = "running"
    /\ UNCHANGED <<checked, page, check, overlay>>

BeginCalibrate ==
    /\ overlay = "calibrate" /\ at = "shown"
    /\ at' = "running"
    /\ UNCHANGED <<cell, checked, page, check, overlay>>

\* tare(): the filter is cleared and a new sample awaited, for a second.
TareDone ==
    /\ Taring /\ at = "running" /\ ~wanted
    /\ reading' = 0 /\ at' = "filling"
    /\ UNCHANGED <<scale, task, tare, factor, noise, checked, page, check, overlay>>

\* What tare() was for, when it has returned.
AfterTare ==
    /\ IF overlay = "tare"
       THEN baseline' = reading /\ step' = "WEIGHT" /\ okOn' = FALSE
       ELSE UNCHANGED <<baseline, step, okOn>>
    /\ Uncover
    /\ UNCHANGED <<cell, checked, screen, check>>

\* The tare, or the wait after it, comes to an end or to its timeout.
TareWaitsOn == FALSE  \* mutant
TareTimesOut == Taring /\ at = "running" /\ wanted /\ AfterTare
TareFilled   == Taring /\ at = "filling" /\ AfterTare

\* calibrate() waits until the reading has settled, or for ten seconds; with a
\* fault it returns at once.
FinishCalibrate ==
    /\ overlay = "calibrate" /\ at = "running"
    /\ IF fault # "NONE" THEN UNCHANGED cell ELSE Calibrate
    /\ step' = "NOISE_CHECK" /\ okOn' = FALSE
    \* start_noise_check()
    /\ active' = TRUE /\ passed' = FALSE /\ forced' = FALSE /\ entered' = 0 /\ stable' = Never
    /\ Uncover
    /\ UNCHANGED <<checked, screen, baseline>>

Block ==
    /\ at # "shown"
    /\ Shake /\ NobodyJudges /\ Unwatched
    /\ UNCHANGED <<page, check, cover>>

UserInterface ==
    BeginTare \/ BeginCalibrate \/ TareDone \/ TareTimesOut \/ TareFilled \/ FinishCalibrate

Sampler == CoreZero /\ UNCHANGED <<checked, page, check, cover>>

User == OpenCalibration \/ TareScale \/ AskReset \/ PressOk \/ Cancel \/ Put \/ Grinding

Next == Turn \/ Block \/ UserInterface \/ Sampler \/ User \/ FactoryReset \/ PowerCut

Spec == Init /\ [][Next]_vars

\* Turns go on, and an operation that blocks them ends, by its timeout if need be.
FairSpec == Spec /\ WF_vars(Turn) /\ WF_vars(UserInterface)

-----------------------------------------------------------------------------
\* With a load cell that failed, calibration comes to no end, and the device is
\* not flagged as calibrated on its account: the tare times out and the step after
\* it opens all the same, but nothing ever stands on a scale without samples.
FaultyIsNotCalibrated ==
    fault # "NONE" => step \in {"EMPTY", "WEIGHT"} /\ overlay # "calibrate"

\* The warning about noise is earned, and lost, by time: it appears only after
\* noise at every look for a minute, and it only goes by itself after two minutes
\* without any; calibrating, resetting and restarting start both anew.
NoiseWarningIsEarned ==
    [][/\ NOISY \notin warnings /\ NOISY \in warnings' => loud' >= High
       /\ NOISY \in warnings /\ NOISY \notin warnings' =>
            quiet' >= Recovery \/ screen = "CALIBRATION" \/ AskReset \/ PowerCut \/ FactoryReset]_vars

\* The noise check, which hides the cancel button, can always be left: OK is shown
\* in the end, with a reading that never settles, and with a factor of zero.
NoiseCheckCanBeLeft == step = "NOISE_CHECK" ~> okOn \/ step # "NOISE_CHECK"

\* A blocking operation gives the display back.
OverlayGoes == overlay # "none" ~> overlay = "none"
=============================================================================
