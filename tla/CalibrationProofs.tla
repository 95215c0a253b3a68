-------------------------- MODULE CalibrationProofs --------------------------
(***************************************************************************)
(* Theorems about calibrating the load cell, for all loads, times and      *)
(* bounds.                                                                 *)
(*                                                                         *)
(* The argument: without samples the filter reads 0, so what a tare leaves *)
(* as the baseline is 0 too, and OK never appears in the step that weighs  *)
(* (Blind).  A converter that once gave samples gives them until a restart *)
(* (Verdict).  Hence calibrate() only runs with a converter that works.    *)
(* The warning about noise has an argument of its own, at the end (Timed). *)
(***************************************************************************)
EXTENDS Calibration, TLAPS

\* What the arithmetic needs of the types.
Numbers ==
    /\ load \in Int /\ reading \in Int /\ offset \in Int
    /\ due.what = "offset" => due.offset \in Int

\* A fault is the end of the task of Core 0, and its kind is never revised.
Verdict ==
    /\ fault # "NONE" => sampler = "failed"
    /\ sampler = "sampling" => fault = "NONE"

\* Without samples nothing stands on the scale, and calibrating gets nowhere.
Blind ==
    sampler # "sampling" =>
        /\ reading = 0 /\ baseline = 0
        /\ step \in {"EMPTY", "WEIGHT"} /\ overlay # "calibrate"
        /\ step = "WEIGHT" => okOn = FALSE

-----------------------------------------------------------------------------
\* Every step, by the actions the proofs tell apart.
LEMMA Steps ==
    ASSUME [Next]_vars
    PROVE  \/ Turn \/ Block
           \/ BeginTare \/ BeginCalibrate \/ TareDone \/ TareTimesOut \/ TareFilled
           \/ FinishCalibrate
           \/ Sampler
           \/ OpenCalibration \/ TareScale \/ AskReset \/ Cancel \/ Put \/ Grinding
           \/ Press("CALIBRATION") /\ okOn /\ OkEmpty
           \/ Press("CALIBRATION") /\ okOn /\ OkWeight
           \/ Press("CALIBRATION") /\ okOn /\ OkNoiseCheck
           \/ Press("CALIBRATION") /\ okOn /\ OkComplete
           \/ Restart(FALSE) \/ Restart(flag)
           \/ UNCHANGED vars
BY DEF Next, UserInterface, User, PressOk, FactoryReset, PowerCut

\* The steps of Core 0 are alone in changing what a sample and the converter say.
LEMMA SamplerFrame ==
    ASSUME Sampler
    PROVE  /\ BeginFails \/ Begins \/ Validated \/ Sample \/ Finish
           /\ UNCHANGED <<checked, page, check, cover>>
           /\ UNCHANGED load
BY DEF Sampler, CoreZero, BeginFails, Begins, Validated, Sample, Finish, scale

-----------------------------------------------------------------------------
LEMMA NumbersInit ==
    ASSUME Init PROVE Numbers
BY LoadsAssumption DEF Init, CellInit, Started, Numbers, Nothing

LEMMA NumbersStep ==
    ASSUME Numbers, [Next]_vars
    PROVE  Numbers'
<1>1. CASE UNCHANGED <<load, reading, offset, due>>
  BY <1>1 DEF Numbers
<1>2. CASE Sampler
  <2>1. CASE BeginFails \/ Begins \/ Validated
    BY <2>1 DEF BeginFails, Begins, Validated, Numbers, scale, tare
  <2>2. CASE Sample
    BY <2>2 DEF Sample, TareSteps, Counted, Tared, Nothing, Numbers, scale
  <2>3. CASE Finish
    BY <2>3 DEF Finish, Nothing, Numbers, scale
  <2> QED
    BY <1>2, <2>1, <2>2, <2>3, SamplerFrame
<1>3. CASE Put
  BY <1>3, LoadsAssumption DEF Put, MoveLoad, Numbers, tare
<1>4. CASE Restart(FALSE) \/ Restart(flag)
  <2>1. CellRestart
    BY <1>4 DEF Restart
  <2> QED
    BY <2>1 DEF CellRestart, Numbers, Nothing
<1>5. CASE BeginTare
  BY <1>5 DEF BeginTare, RequestTare, Numbers, scale
<1>6. CASE TareDone
  BY <1>6 DEF TareDone, Numbers, scale, tare
<1>7. CASE FinishCalibrate
  BY <1>7 DEF FinishCalibrate, Calibrate, Numbers, cell, scale, tare
<1>8. CASE Turn \/ Block
  BY <1>8, <1>1 DEF Turn, Block, Shake, tare
<1>9. ASSUME UNCHANGED cell
      PROVE  UNCHANGED <<load, reading, offset, due>>
  BY <1>9 DEF cell, scale, tare
<1>10. CASE \/ BeginCalibrate \/ TareTimesOut \/ TareFilled
            \/ OpenCalibration \/ TareScale \/ AskReset \/ Cancel \/ Grinding
            \/ OkEmpty \/ OkWeight \/ OkNoiseCheck \/ OkComplete
  BY <1>10, <1>1, <1>9 DEF BeginCalibrate, TareTimesOut, TareFilled, AfterTare,
     OpenCalibration, TareScale, AskReset, Cancel, Grinding, OkEmpty, OkWeight, OkNoiseCheck, OkComplete
<1>11. CASE UNCHANGED vars
  BY <1>11, <1>1, <1>9 DEF vars
<1> QED
  BY Steps, <1>2, <1>3, <1>4, <1>5, <1>6, <1>7, <1>8, <1>10, <1>11

-----------------------------------------------------------------------------
\* Only Core 0 and a restart change the task and its verdict.
LEMMA TaskFrame ==
    ASSUME [Next]_vars
    PROVE  \/ UNCHANGED task
           \/ BeginFails \/ Begins \/ Validated
           \/ Restart(FALSE) \/ Restart(flag)
<1>1. CASE Sampler
  BY <1>1, SamplerFrame DEF Sample, Finish
<1>2. CASE Put
  BY <1>2 DEF Put, MoveLoad
<1>3. CASE BeginTare \/ TareDone
  BY <1>3 DEF BeginTare, RequestTare, TareDone
<1>4. CASE FinishCalibrate
  BY <1>4 DEF FinishCalibrate, Calibrate, cell
<1>5. CASE Turn \/ Block
  BY <1>5 DEF Turn, Block, Shake
<1>6. CASE \/ BeginCalibrate \/ TareTimesOut \/ TareFilled
           \/ OpenCalibration \/ TareScale \/ AskReset \/ Cancel \/ Grinding
           \/ OkEmpty \/ OkWeight \/ OkNoiseCheck \/ OkComplete
  BY <1>6 DEF BeginCalibrate, TareTimesOut, TareFilled, AfterTare, cell,
     OpenCalibration, TareScale, AskReset, Cancel, Grinding, OkEmpty, OkWeight, OkNoiseCheck, OkComplete
<1>7. CASE UNCHANGED vars
  BY <1>7 DEF vars, cell
<1> QED
  BY Steps, <1>1, <1>2, <1>3, <1>4, <1>5, <1>6, <1>7

LEMMA VerdictInit ==
    ASSUME Init PROVE Verdict
BY DEF Init, CellInit, Started, Verdict

LEMMA VerdictStep ==
    ASSUME Verdict, [Next]_vars
    PROVE  Verdict'
<1>1. CASE UNCHANGED task
  BY <1>1 DEF task, Verdict
<1>2. CASE BeginFails \/ Begins \/ Validated
  BY <1>2 DEF BeginFails, Begins, Validated, Verdict
<1>3. CASE Restart(FALSE) \/ Restart(flag)
  BY <1>3 DEF Restart, CellRestart, Verdict
<1> QED
  BY TaskFrame, <1>1, <1>2, <1>3

-----------------------------------------------------------------------------
LEMMA NothingOn ==
    ASSUME reading = 0, baseline = 0
    PROVE  WeightIsOn = FALSE
BY WaitAssumption DEF WeightIsOn, Apart

LEMMA BlindInit ==
    ASSUME Init PROVE Blind
BY DEF Init, CellInit, Started, Blind

LEMMA BlindTurn ==
    ASSUME Blind, Turn
    PROVE  Blind'
<1>1. UNCHANGED <<sampler, reading, baseline, step, overlay>>
  BY DEF Turn, Shake, task, cover
<1>2. ASSUME sampler # "sampling", step = "WEIGHT"
      PROVE  okOn' = FALSE
  <2>1. reading = 0 /\ baseline = 0 /\ okOn = FALSE
    BY <1>2 DEF Blind
  <2>2. CASE screen = "CALIBRATION"
    BY <1>2, <2>1, <2>2, NothingOn DEF Turn, UpdateCalibration
  <2>3. CASE screen # "CALIBRATION"
    BY <2>1, <2>3 DEF Turn
  <2> QED
    BY <2>2, <2>3
<1> QED
  BY <1>1, <1>2 DEF Blind

LEMMA BlindStep ==
    ASSUME Blind, Verdict, [Next]_vars
    PROVE  Blind'
<1>1. CASE Turn
  BY <1>1, BlindTurn
<1>2. ASSUME UNCHANGED cell
      PROVE  UNCHANGED <<sampler, reading>>
  BY <1>2 DEF cell, task
<1>3. ASSUME UNCHANGED page, UNCHANGED <<sampler, reading>>, overlay' # "calibrate" \/ overlay' = overlay
      PROVE  Blind'
  BY <1>3 DEF page, Blind
<1>4. CASE Sampler
  <2>1. CASE BeginFails \/ Begins \/ Validated
    BY <2>1, <1>4, SamplerFrame DEF BeginFails, Begins, Validated, Blind, page, cover
  <2>2. CASE Sample
    BY <2>2, <1>4, SamplerFrame DEF Sample, Blind, task
  <2>3. CASE Finish
    BY <2>3, <1>4, <1>3, SamplerFrame DEF Finish, task, cover
  <2> QED
    BY <1>4, <2>1, <2>2, <2>3, SamplerFrame
<1>5. CASE Put
  BY <1>5, <1>3 DEF Put, MoveLoad, task, cover
<1>6. CASE Restart(FALSE) \/ Restart(flag)
  BY <1>6 DEF Restart, CellRestart, Blind
<1>7. CASE BeginTare
  BY <1>7, <1>3 DEF BeginTare, RequestTare, task
<1>8. CASE TareDone
  BY <1>8 DEF TareDone, Blind, task, page
<1>9. CASE TareTimesOut \/ TareFilled
  BY <1>9, <1>2 DEF TareTimesOut, TareFilled, AfterTare, Uncover, Blind
<1>10. CASE FinishCalibrate
  <2>1. sampler = "sampling" /\ sampler' = sampler
    BY <1>10 DEF FinishCalibrate, Calibrate, cell, task, Blind
  <2> QED
    BY <2>1 DEF Blind
<1>11. CASE Block
  BY <1>11, <1>3 DEF Block, Shake, task, cover
<1>12. CASE BeginCalibrate \/ TareScale \/ AskReset \/ Grinding \/ OkEmpty
  BY <1>12, <1>2, <1>3 DEF BeginCalibrate, TareScale, AskReset, Grinding, OkEmpty, Cover, cover
<1>13. CASE okOn /\ OkWeight
  <2>1. sampler = "sampling" /\ sampler' = sampler
    BY <1>13, <1>2 DEF OkWeight, Blind
  <2> QED
    BY <2>1 DEF Blind
<1>14. CASE OpenCalibration
  BY <1>14, <1>2 DEF OpenCalibration, cover, Blind
<1>15. CASE Cancel
  BY <1>15, <1>2 DEF Cancel, cover, Blind
<1>16. CASE OkNoiseCheck \/ OkComplete
  <2>1. sampler = "sampling" /\ sampler' = sampler
    BY <1>16, <1>2 DEF OkNoiseCheck, OkComplete, Blind
  <2> QED
    BY <2>1 DEF Blind
<1>17. CASE UNCHANGED vars
  BY <1>17, <1>2, <1>3 DEF vars, cover
<1> QED
  BY Steps, <1>1, <1>4, <1>5, <1>6, <1>7, <1>8, <1>9, <1>10, <1>11, <1>12, <1>13, <1>14, <1>15,
     <1>16, <1>17

-----------------------------------------------------------------------------
\* The parts of WarningsAreTrue.
FlagIsKnown == cached /\ ~misread => known = flag
GrinderWarned == "MECHANICAL_INSTABILITY" \in warnings => anomalies >= Required
ConverterWarned ==
    /\ "HX711_NOT_CONNECTED" \in warnings => fault = "NOT_CONNECTED"
    /\ "HX711_SAMPLE_RATE_INVALID" \in warnings => fault = "INVALID_SAMPLE_RATE"

\* What changes the warnings, and the flag they are about.
LEMMA CheckedFrame ==
    ASSUME [Next]_vars
    PROVE  \/ UNCHANGED checked
           \/ UpdateDiagnostics(screen = "CALIBRATION") /\ UNCHANGED task
           \/ Unwatched /\ UNCHANGED task
           \/ (Anomaly \/ ResetByGrind \/ ResetDiagnostics) /\ UNCHANGED task
           \/ SetCalibrated /\ UNCHANGED <<watch, task>>
           \/ Restart(FALSE) \/ Restart(flag)
<1>1. CASE Sampler
  BY <1>1, SamplerFrame
<1>2. CASE Put \/ BeginTare \/ BeginCalibrate \/ TareDone \/ TareTimesOut \/ TareFilled \/ FinishCalibrate
  BY <1>2 DEF Put, BeginTare, BeginCalibrate, TareDone, TareTimesOut, TareFilled, AfterTare, FinishCalibrate
<1>3. CASE Turn
  BY <1>3 DEF Turn, Shake
<1>4. CASE Block
  BY <1>4 DEF Block, Shake
<1>5. CASE AskReset \/ Grinding \/ OkNoiseCheck
  BY <1>5 DEF AskReset, Grinding, OkNoiseCheck, cell
<1>6. CASE OpenCalibration \/ TareScale \/ Cancel \/ OkEmpty \/ OkWeight \/ OkComplete
  BY <1>6 DEF OpenCalibration, TareScale, Cancel, OkEmpty, OkWeight, OkComplete
<1>7. CASE UNCHANGED vars
  BY <1>7 DEF vars
<1> QED
  BY Steps, <1>1, <1>2, <1>3, <1>4, <1>5, <1>6, <1>7

LEMMA FlagIsKnownStep ==
    ASSUME FlagIsKnown, [Next]_vars
    PROVE  FlagIsKnown'
<1>1. CASE UNCHANGED flags
  BY <1>1 DEF flags, FlagIsKnown
<1>2. CASE UpdateDiagnostics(screen = "CALIBRATION")
  <2>1. ReadFlag /\ flag' = flag
    BY <1>2 DEF UpdateDiagnostics
  <2> QED
    BY <2>1 DEF ReadFlag, FlagIsKnown
<1>3. CASE Unwatched \/ Anomaly \/ ResetByGrind \/ ResetDiagnostics
  BY <1>3, <1>1 DEF Unwatched, Anomaly, ResetByGrind, ResetDiagnostics
<1>4. CASE SetCalibrated
  BY <1>4 DEF SetCalibrated, RefreshCache, FlagIsKnown
<1>5. CASE Restart(FALSE) \/ Restart(flag)
  BY <1>5 DEF Restart, DiagnosticsRestart, FlagIsKnown
<1> QED
  BY CheckedFrame, <1>1, <1>2, <1>3, <1>4, <1>5 DEF checked

LEMMA GrinderWarnedStep ==
    ASSUME GrinderWarned, anomalies \in Nat, [Next]_vars
    PROVE  GrinderWarned' /\ anomalies' \in Nat
<1>1. CASE UNCHANGED <<warnings, anomalies>>
  BY <1>1 DEF GrinderWarned
<1>2. CASE UpdateDiagnostics(screen = "CALIBRATION")
  <2>1. anomalies' = anomalies
    BY <1>2 DEF UpdateDiagnostics
  <2>2. warnings' \subseteq AboutFlag \cup AboutFault \cup AboutGrinder \cup {NOISY}
    BY <1>2 DEF UpdateDiagnostics
  <2>3. "MECHANICAL_INSTABILITY" \in warnings' => "MECHANICAL_INSTABILITY" \in AboutGrinder
    BY <2>2 DEF AboutFlag, AboutFault, NOISY
  <2>4. "MECHANICAL_INSTABILITY" \in AboutGrinder => anomalies >= Required
    BY DEF AboutGrinder, GrinderWarned
  <2> QED
    BY <2>1, <2>3, <2>4 DEF GrinderWarned
<1>3. CASE Unwatched
  BY <1>3, <1>1 DEF Unwatched
<1>4. CASE Anomaly
  BY <1>4, TimesAssumption DEF Anomaly, GrinderWarned
<1>5. CASE ResetByGrind \/ ResetDiagnostics
  BY <1>5 DEF ResetByGrind, ResetDiagnostics, GrinderWarned
<1>6. CASE Restart(FALSE) \/ Restart(flag)
  BY <1>6 DEF Restart, DiagnosticsRestart, GrinderWarned
<1> QED
  BY CheckedFrame, <1>1, <1>2, <1>3, <1>4, <1>5, <1>6 DEF checked, watch

\* While there is a warning about the converter, its task has come to its end.
LEMMA ConverterWarnedStep ==
    ASSUME ConverterWarned, Verdict, [Next]_vars
    PROVE  ConverterWarned'
<1>1. CASE UNCHANGED <<warnings, fault>>
  BY <1>1 DEF ConverterWarned
<1>2. CASE UpdateDiagnostics(screen = "CALIBRATION") /\ UNCHANGED task
  <2>1. warnings' \subseteq AboutFlag \cup AboutFault \cup AboutGrinder \cup {NOISY}
    BY <1>2 DEF UpdateDiagnostics
  <2>2. /\ "HX711_NOT_CONNECTED" \in warnings' => "HX711_NOT_CONNECTED" \in AboutFault
        /\ "HX711_SAMPLE_RATE_INVALID" \in warnings' => "HX711_SAMPLE_RATE_INVALID" \in AboutFault
    BY <2>1 DEF AboutFlag, AboutGrinder, NOISY
  <2> QED
    BY <1>2, <2>2 DEF AboutFault, ConverterWarned, task
<1>3. CASE (Anomaly \/ ResetByGrind \/ ResetDiagnostics \/ Unwatched) /\ UNCHANGED task
  BY <1>3 DEF Anomaly, ResetByGrind, ResetDiagnostics, Unwatched, ConverterWarned, task
<1>4. CASE UNCHANGED <<watch, task>>
  BY <1>4, <1>1 DEF watch, task
<1>5. CASE Restart(FALSE) \/ Restart(flag)
  BY <1>5 DEF Restart, DiagnosticsRestart, ConverterWarned
<1>6. CASE UNCHANGED checked
  <2>1. UNCHANGED warnings
    BY <1>6 DEF checked, watch
  <2>2. CASE UNCHANGED task
    BY <2>1, <2>2, <1>1 DEF task
  <2>3. CASE BeginFails \/ Begins \/ Validated
    <3>1. fault = "NONE"
      BY <2>3 DEF BeginFails, Begins, Validated, Verdict
    <3> QED
      BY <2>1, <3>1 DEF ConverterWarned
  <2> QED
    BY <2>2, <2>3, <1>5, TaskFrame
<1> QED
  BY CheckedFrame, <1>2, <1>3, <1>4, <1>5, <1>6

-----------------------------------------------------------------------------
IInv ==
    /\ Numbers /\ Verdict /\ Blind
    /\ FlagIsKnown /\ GrinderWarned /\ anomalies \in Nat /\ ConverterWarned

LEMMA Invariance == Spec => []IInv
<1>1. Init => IInv
  <2>1. ASSUME Init PROVE FlagIsKnown /\ GrinderWarned /\ anomalies \in Nat /\ ConverterWarned
    BY <2>1 DEF Init, DiagnosticsInit, FlagIsKnown, GrinderWarned, ConverterWarned
  <2> QED
    BY <2>1, NumbersInit, VerdictInit, BlindInit DEF IInv
<1>2. IInv /\ [Next]_vars => IInv'
  BY NumbersStep, VerdictStep, BlindStep, FlagIsKnownStep, GrinderWarnedStep,
     ConverterWarnedStep DEF IInv
<1> QED
  BY <1>1, <1>2, PTL DEF Spec

\* With a load cell that gives no samples nobody gets past the step that weighs,
\* so calibrate() never stores what such a load cell reads (update, handle_ok).
THEOREM FaultStopsCalibration == Spec => []FaultyIsNotCalibrated
<1>1. IInv => FaultyIsNotCalibrated
  BY DEF IInv, Verdict, Blind, FaultyIsNotCalibrated
<1> QED
  BY <1>1, Invariance, PTL

\* The warnings are about what they say, and the cached flag is the stored one
\* (DiagnosticsController::update, WeightSensor::set_calibrated).
THEOREM WarningsTrue == Spec => []WarningsAreTrue
<1>1. IInv => WarningsAreTrue
  BY DEF IInv, FlagIsKnown, GrinderWarned, ConverterWarned, WarningsAreTrue
<1> QED
  BY <1>1, Invariance, PTL

-----------------------------------------------------------------------------
(***************************************************************************)
(* The warning about noise.  A timer that runs is never ahead of what was  *)
(* seen at the looks it stands for (Timed): high has grown with the time   *)
(* with noise at every look, calm with the time without any, and whatever  *)
(* breaks these off stops the timer in the same step.                      *)
(***************************************************************************)
Timed ==
    /\ high \in Ages(High) /\ calm \in Ages(Recovery)
    /\ loud \in 0..High /\ quiet \in 0..Recovery
    /\ high # Never => high <= loud
    /\ calm # Never => calm <= quiet

timers == <<warnings, high, calm, quiet, loud>>

\* What changes the timers, the histories and the warnings; the steps that need
\* no reason to lose the warning about noise keep their names.
LEMMA TimersFrame ==
    ASSUME [Next]_vars
    PROVE  \/ UNCHANGED timers
           \/ UpdateDiagnostics(screen = "CALIBRATION")
           \/ Unwatched
           \/ ResetByGrind
           \/ AskReset \/ PowerCut \/ FactoryReset
<1>1. CASE Turn \/ Block
  BY <1>1 DEF Turn, Block
<1>2. CASE Sampler
  BY <1>2 DEF Sampler, checked, watch, timers
<1>3. CASE UserInterface
  BY <1>3 DEF UserInterface, BeginTare, BeginCalibrate, TareDone, TareTimesOut, TareFilled,
     AfterTare, FinishCalibrate, checked, watch, timers
<1>4. CASE OpenCalibration \/ TareScale \/ Cancel \/ Put
  BY <1>4 DEF OpenCalibration, TareScale, Cancel, Put, checked, watch, timers
<1>5. CASE PressOk
  BY <1>5 DEF PressOk, OkEmpty, OkWeight, OkNoiseCheck, OkComplete, checked, watch, timers
<1>6. CASE Grinding
  BY <1>6 DEF Grinding, Anomaly, timers
<1>7. CASE UNCHANGED vars
  BY <1>7 DEF vars, checked, watch, timers
<1> QED
  BY <1>1, <1>2, <1>3, <1>4, <1>5, <1>6, <1>7 DEF Next, User

\* A time that runs stays within its bound, and a history grows as fast.
LEMMA LaterLonger ==
    ASSUME NEW max \in Nat \ {0}, NEW age \in Ages(max), NEW n \in 0..max,
           age # Never => age <= n
    PROVE  /\ Later(age, max) \in Ages(max) /\ Longer(n, max) \in 0..max
           /\ Later(age, max) # Never => Later(age, max) <= Longer(n, max)
           /\ age = Never => Later(age, max) = Never
BY DEF Ages, Later, Longer, Never

\* One look: both timers against both histories.
LEMMA LookIsTimed ==
    ASSUME Timed
    PROVE  /\ HighTime \in Ages(High) /\ CalmTime \in Ages(Recovery)
           /\ HighTime # Never => noisy' /\ HighTime <= Longer(loud, High)
           /\ CalmTime # Never => ~noisy' /\ CalmTime <= Longer(quiet, Recovery)
           /\ Longer(loud, High) \in 0..High /\ Longer(quiet, Recovery) \in 0..Recovery
<1>1. /\ High \in Nat \ {0} /\ Recovery \in Nat \ {0}
      /\ Never \in Ages(High) /\ 0 \in Ages(High)
      /\ Never \in Ages(Recovery) /\ 0 \in Ages(Recovery)
  BY TimesAssumption DEF Ages, Never
<1>2. /\ Later(high, High) \in Ages(High) /\ Longer(loud, High) \in 0..High
      /\ Later(high, High) # Never => Later(high, High) <= Longer(loud, High)
  BY <1>1, LaterLonger DEF Timed
<1>3. /\ Later(calm, Recovery) \in Ages(Recovery) /\ Longer(quiet, Recovery) \in 0..Recovery
      /\ Later(calm, Recovery) # Never => Later(calm, Recovery) <= Longer(quiet, Recovery)
  BY <1>1, LaterLonger DEF Timed
<1>4. /\ 0 <= Longer(loud, High)
      /\ 0 <= Longer(quiet, Recovery)
  BY <1>2, <1>3
<1>5. HighTime \in Ages(High) /\ (HighTime # Never => noisy' /\ HighTime <= Longer(loud, High))
  BY <1>1, <1>2, <1>4 DEF HighTime
<1>6. /\ CalmTime \in Ages(Recovery)
      /\ CalmTime # Never => ~noisy' /\ CalmTime <= Longer(quiet, Recovery)
  BY <1>1, <1>3, <1>4 DEF CalmTime
<1> QED
  BY <1>2, <1>3, <1>5, <1>6

LEMMA TimedInit ==
    ASSUME Init PROVE Timed
BY TimesAssumption DEF Init, DiagnosticsInit, Timed, Ages, Never

LEMMA TimedStep ==
    ASSUME Timed, [Next]_vars
    PROVE  Timed'
<1>0. /\ High \in Nat \ {0} /\ Recovery \in Nat \ {0}
      /\ Never \in Ages(High) /\ Never \in Ages(Recovery)
  BY TimesAssumption DEF Ages, Never
<1>1. CASE UNCHANGED <<high, calm, quiet, loud>>
  BY <1>1 DEF Timed
<1>2. CASE UpdateDiagnostics(screen = "CALIBRATION")
  <2>1. /\ high' \in {Never, HighTime} /\ calm' \in {Never, CalmTime}
        /\ quiet' = (IF noisy' THEN 0 ELSE Longer(quiet, Recovery))
        /\ loud' = (IF noisy' THEN Longer(loud, High) ELSE 0)
    BY <1>2 DEF UpdateDiagnostics, Histories
  <2>2. /\ high' \in Ages(High) /\ calm' \in Ages(Recovery)
        /\ loud' \in 0..High /\ quiet' \in 0..Recovery
    BY <1>0, <2>1, LookIsTimed
  <2>3. /\ high' # Never => high' <= loud'
        /\ calm' # Never => calm' <= quiet'
    BY <2>1, LookIsTimed
  <2> QED
    BY <2>2, <2>3 DEF Timed
<1>3. CASE Unwatched
  <2>1. /\ quiet' = Longer(quiet, Recovery) /\ loud' = Longer(loud, High)
        /\ high' = Later(high, High) /\ calm' = Later(calm, Recovery)
    BY <1>3 DEF Unwatched
  <2>2. high' \in Ages(High) /\ loud' \in 0..High /\ (high' # Never => high' <= loud')
    BY <1>0, <2>1, LaterLonger DEF Timed
  <2>3. calm' \in Ages(Recovery) /\ quiet' \in 0..Recovery /\ (calm' # Never => calm' <= quiet')
    BY <1>0, <2>1, LaterLonger DEF Timed
  <2> QED
    BY <2>2, <2>3 DEF Timed
<1>4. CASE ResetByGrind
  BY <1>4, <1>1 DEF ResetByGrind
<1>5. CASE AskReset
  BY <1>5, <1>0 DEF AskReset, ResetDiagnostics, Timed
<1>6. CASE PowerCut \/ FactoryReset
  <2>1. high' = Never /\ calm' = Never /\ quiet' = 0 /\ loud' = 0
    BY <1>6 DEF PowerCut, FactoryReset, Restart, DiagnosticsRestart
  <2> QED
    BY <1>0, <2>1 DEF Timed
<1>7. CASE UNCHANGED timers
  BY <1>7, <1>1 DEF timers
<1> QED
  BY TimersFrame, <1>2, <1>3, <1>4, <1>5, <1>6, <1>7

\* The warning appears at a look, when the noise has lasted, and goes at one, when
\* the quiet has.
LEMMA LookEarns ==
    ASSUME Timed, UpdateDiagnostics(screen = "CALIBRATION")
    PROVE  /\ NOISY \notin warnings /\ NOISY \in warnings' => loud' >= High
           /\ NOISY \in warnings /\ NOISY \notin warnings' =>
                  quiet' >= Recovery \/ screen = "CALIBRATION"
<1>0. High \in Nat \ {0} /\ Recovery \in Nat \ {0} /\ Never \notin Nat
  BY TimesAssumption DEF Never
<1>1. /\ quiet' = (IF noisy' THEN 0 ELSE Longer(quiet, Recovery))
      /\ loud' = (IF noisy' THEN Longer(loud, High) ELSE 0)
  BY DEF UpdateDiagnostics, Histories
<1>2. NOISY \notin AboutFlag \cup AboutFault \cup AboutGrinder
  BY DEF NOISY, AboutFlag, AboutFault, AboutGrinder
<1>3. NOISY \in warnings' <=> StaysNoisy /\ screen # "CALIBRATION"
  BY <1>2 DEF UpdateDiagnostics
<1>4. ASSUME NOISY \notin warnings, NOISY \in warnings'
      PROVE  loud' >= High
  <2>1. noisy' /\ HighTime >= High
    BY <1>3, <1>4 DEF StaysNoisy
  <2>2. HighTime # Never
    BY <2>1, <1>0 DEF Never
  <2>3. HighTime \in Int /\ Longer(loud, High) \in Int /\ HighTime <= Longer(loud, High)
    BY <2>2, LookIsTimed DEF Ages, Never
  <2> QED
    BY <1>0, <1>1, <2>1, <2>3
<1>5. ASSUME NOISY \in warnings, NOISY \notin warnings', screen # "CALIBRATION"
      PROVE  quiet' >= Recovery
  <2>1. ~noisy' /\ CalmEnough
    BY <1>3, <1>5 DEF StaysNoisy
  <2>2. CalmTime >= Recovery
    BY <2>1 DEF CalmEnough
  <2>3. CalmTime # Never
    BY <2>2, <1>0 DEF Never
  <2>4. CalmTime \in Int /\ Longer(quiet, Recovery) \in Int /\ CalmTime <= Longer(quiet, Recovery)
    BY <2>3, LookIsTimed DEF Ages, Never
  <2> QED
    BY <1>0, <1>1, <2>1, <2>2, <2>4
<1> QED
  BY <1>4, <1>5

\* For all thresholds and all ways to look at it, or not to: the warning about
\* noise appears only after noise at every look for the first threshold, and goes
\* by itself only after quiet for the second; timers that run on while nobody
\* looks, calibrating, resets and restarts in between do not earn it
\* (DiagnosticsController::check_load_cell_noise).
THEOREM NoiseIsEarned == Spec => NoiseWarningIsEarned
<1> DEFINE Earned ==
      /\ NOISY \notin warnings /\ NOISY \in warnings' => loud' >= High
      /\ NOISY \in warnings /\ NOISY \notin warnings' =>
           quiet' >= Recovery \/ screen = "CALIBRATION" \/ AskReset \/ PowerCut \/ FactoryReset
<1>1. Timed /\ [Next]_vars => [Earned]_vars
  <2> SUFFICES ASSUME Timed, [Next]_vars
               PROVE  Earned
    OBVIOUS
  <2>1. CASE UNCHANGED warnings
    BY <2>1
  <2>2. CASE UpdateDiagnostics(screen = "CALIBRATION")
    BY <2>2, LookEarns
  <2>3. CASE ResetByGrind
    BY <2>3 DEF ResetByGrind, NOISY
  <2>4. CASE AskReset
    BY <2>4 DEF AskReset, ResetDiagnostics
  <2>5. CASE PowerCut \/ FactoryReset
    <3>1. warnings' = {}
      BY <2>5 DEF PowerCut, FactoryReset, Restart, DiagnosticsRestart
    <3> QED
      BY <2>5, <3>1
  <2>6. CASE Unwatched \/ UNCHANGED timers
    BY <2>6, <2>1 DEF Unwatched, timers
  <2> QED
    BY TimersFrame, <2>2, <2>3, <2>4, <2>5, <2>6
<1>2. Spec => []Timed
  <2>1. Init => Timed
    BY TimedInit
  <2>2. Timed /\ [Next]_vars => Timed'
    BY TimedStep
  <2> QED
    BY <2>1, <2>2, PTL DEF Spec
<1> QED
  BY <1>1, <1>2, PTL DEF Spec, NoiseWarningIsEarned

=============================================================================
