------------------------------- MODULE AutoTune -------------------------------
(***************************************************************************)
(* The search for the shortest motor pulse that produces grounds:          *)
(* controllers/autotune_controller.cpp, the screen that drives it          *)
(* (ui/controllers/autotune_controller.cpp) and the latency it leaves      *)
(* in use (GrindController::save_motor_latency).                           *)
(*                                                                         *)
(* Everything runs in the task of the user interface: UIManager::update()  *)
(* calls the tune once per turn, and only while the state is AUTOTUNING.   *)
(* One such call is one step.  Lengths are in units of 1/Unit ms, so that  *)
(* the halved steps of the search are whole.                               *)
(***************************************************************************)
EXTENDS Integers

CONSTANTS
    Unit,             \* units of a millisecond
    MinPulse,         \* GRIND_AUTOTUNE_LATENCY_MIN_MS
    MaxPulse,         \* GRIND_AUTOTUNE_LATENCY_MAX_MS
    Priming,          \* GRIND_AUTOTUNE_PRIMING_PULSE_MS
    Accuracy,         \* GRIND_AUTOTUNE_TARGET_ACCURACY_MS
    Grid,             \* a candidate is rounded up to 10 ms
    Default,          \* GRIND_MOTOR_RESPONSE_LATENCY_DEFAULT_MS
    MaxIterations,    \* GRIND_AUTOTUNE_MAX_ITERATIONS
    Pulses,           \* GRIND_AUTOTUNE_VERIFICATION_PULSES
    Needed,           \* of these, GRIND_AUTOTUNE_SUCCESS_RATE of them
    Rounds,           \* verification rounds
    Stored,           \* what earlier firmware may have left in the preferences
    Grinders,         \* grinders to tune
    Results(_, _)     \* whether a pulse of some ms gives grounds: what may happen

ASSUME LengthsAssumption ==
    /\ {Unit, MinPulse, MaxPulse, Priming, Accuracy, Grid, Default} \subseteq Nat \ {0}
    /\ MinPulse <= Default /\ Default <= MaxPulse
ASSUME CountsAssumption ==
    /\ {MaxIterations, Pulses, Needed, Rounds} \subseteq Nat \ {0}
ASSUME GridAssumption ==
    /\ MinPulse % Unit = 0 /\ MaxPulse % Unit = 0 /\ MaxPulse % Grid = 0
    /\ Needed <= Pulses
ASSUME StoredAssumption == Stored \subseteq Nat
ASSUME ResultsAssumption ==
    \A g \in Grinders : \A ms \in 0..(MaxPulse \div Unit) : Results(g, ms) \subseteq BOOLEAN

VARIABLES
    screen,      \* whether the state of the user interface is AUTOTUNING
    shown,       \* what the tune's screen shows
    started,     \* AutoTuneUIController::autotune_started_
    running,     \* is_running
    cancelled,   \* cancel_requested
    phase, sub,  \* current_phase, sub_phase
    reason,      \* result.error_message
    pulse, step, last, direction, foundLow, iteration,  \* the binary search
    candidate, round, count, hits,                      \* the verification
    active,      \* active_pulse_ms
    grounds,     \* progress.last_pulse_success
    motor,       \* the pulse: "off", "running", or "done" and not yet seen
    taring,      \* WeightSensor: "no", "pending", "done"
    latency,     \* motor_response_latency_ms
    stored,      \* "motor_lat_ms" in the preferences
    grinder,     \* the grinder that is tuned
    trials       \* history: how many pulses of which length verification made, and how
                 \* many of them gave grounds

ui     == <<screen, shown, started>>
search == <<pulse, step, last, direction, foundLow, iteration>>
verify == <<candidate, round, count, hits, trials>>
saved  == <<latency, stored>>
vars == <<ui, running, cancelled, phase, sub, reason, search, verify, active, grounds, motor,
          taring, saved, grinder>>

Complete == {"COMPLETE_SUCCESS", "COMPLETE_FAILURE"}
Phase    == {"IDLE", "PRIMING", "BINARY_SEARCH", "VERIFICATION"} \cup Complete
SubPhase == {"IDLE", "PULSE_EXECUTE", "MOTOR_SETTLING", "COLLECTION_DELAY", "SCALE_SETTLING",
             "MEASURE_COMPLETE", "RESULT_LOGGED", "TARING"}
InRange(len) == len >= MinPulse /\ len <= MaxPulse

\* The longest length a retried candidate reaches.
Longest == MaxPulse + Grid + Rounds * Accuracy

TuneTypeOK ==
    /\ screen \in {"ELSEWHERE", "AUTOTUNING"} /\ shown \in {"console", "success", "failure"}
    /\ {started, running, cancelled, foundLow, grounds} \subseteq BOOLEAN
    /\ phase \in Phase /\ sub \in SubPhase
    /\ reason \in {"none", "cancelled", "priming", "iterations", "no success", "verification",
                   "settling"}
    /\ pulse \in 0..Longest /\ step \in 0..MaxPulse /\ last \in 0..MaxPulse
    /\ direction \in {"UP", "DOWN"} /\ iteration \in 0..MaxIterations
    /\ candidate \in 0..Longest /\ round \in 0..Rounds
    /\ count \in 0..Pulses /\ hits \in 0..count
    /\ active \in 0..Longest \cup {Priming}
    /\ motor \in {"off", "running", "done"} /\ taring \in {"no", "pending", "done"}
    /\ InRange(latency) /\ stored \in Nat
    /\ grinder \in Grinders
    /\ trials \in [len : 0..Longest, made : 0..Pulses, good : 0..Pulses]

NoTrials == [len |-> 0, made |-> 0, good |-> 0]

\* load_motor_latency(): a stored value out of range counts as the default.
Loaded(s) == IF InRange(s) THEN s ELSE Default

Init ==
    /\ stored \in Stored /\ latency = Loaded(stored)
    /\ screen = "ELSEWHERE" /\ shown = "console" /\ started = FALSE
    /\ running = FALSE /\ cancelled = FALSE /\ phase = "IDLE" /\ sub = "IDLE" /\ reason = "none"
    /\ pulse = 0 /\ step = 0 /\ last = 0 /\ direction = "DOWN" /\ foundLow = FALSE
    /\ iteration = 0 /\ candidate = 0 /\ round = 0 /\ count = 0 /\ hits = 0 /\ trials = NoTrials
    /\ active = 0 /\ grounds = FALSE /\ motor = "off" /\ taring = "no"
    /\ grinder \in Grinders

-----------------------------------------------------------------------------
\* The screen.

\* The state of a tune before its first pulse.
ClearTune(firstPulse, firstStep) ==
    /\ pulse' = firstPulse /\ step' = firstStep /\ last' = 0
    /\ direction' = "DOWN" /\ foundLow' = FALSE /\ iteration' = 0
    /\ candidate' = 0 /\ round' = 0 /\ count' = 0 /\ hits' = 0 /\ trials' = NoTrials
    /\ active' = 0 /\ grounds' = FALSE /\ cancelled' = FALSE /\ sub' = "IDLE"

\* confirm_and_begin() and start(): a tune that runs refuses another one.
BeginTune ==
    /\ screen = "ELSEWHERE"
    /\ shown' = "console"
    /\ IF running
       THEN UNCHANGED <<screen, started, running, cancelled, phase, sub, search, verify, active,
                        grounds>>
       ELSE /\ screen' = "AUTOTUNING" /\ started' = TRUE
            /\ running' = TRUE /\ phase' = "PRIMING"
            /\ ClearTune(MaxPulse, MaxPulse - MinPulse)
    /\ UNCHANGED <<reason, motor, taring, saved, grinder>>

\* handle_cancel() leaves the request for the next update(), and the screen.
PressCancel ==
    /\ screen = "AUTOTUNING" /\ shown = "console"
    /\ cancelled' = (cancelled \/ running)
    /\ started' = FALSE /\ screen' = "ELSEWHERE"
    /\ UNCHANGED <<shown, running, phase, sub, reason, search, verify, active, grounds, motor,
                   taring, saved, grinder>>

\* handle_ok().
PressOk ==
    /\ screen = "AUTOTUNING" /\ shown # "console"
    /\ started' = FALSE /\ screen' = "ELSEWHERE"
    /\ UNCHANGED <<shown, running, cancelled, phase, sub, reason, search, verify, active, grounds,
                   motor, taring, saved, grinder>>

\* An export or an update takes the screen.
LoseScreen ==
    /\ screen = "AUTOTUNING" /\ screen' = "ELSEWHERE"
    /\ UNCHANGED <<shown, started, running, cancelled, phase, sub, reason, search, verify, active,
                   grounds, motor, taring, saved, grinder>>

-----------------------------------------------------------------------------
\* The ends of a tune.

Fail(why) ==
    /\ phase' = "COMPLETE_FAILURE" /\ reason' = why /\ running' = FALSE
    /\ UNCHANGED <<sub, saved>>


\* save_motor_latency() refuses a value out of range; the tune does not learn of
\* it.  What it accepts is in use until the next restart, and not stored: the
\* preferences it is given to were closed during setup (see SharedSettings).
Save(len) ==
    /\ latency' = IF InRange(len) THEN len ELSE latency
    /\ UNCHANGED stored

\* complete_with_success().
Succeed ==
    /\ phase' = "COMPLETE_SUCCESS" /\ reason' = "none" /\ running' = FALSE
    /\ Save(candidate)
    /\ UNCHANGED sub

EnterPhase(p) == phase' = p /\ sub' = "IDLE" /\ UNCHANGED <<running, reason, saved>>
EnterSub(s)   == sub' = s /\ UNCHANGED <<phase, running, reason, saved>>

-----------------------------------------------------------------------------
\* A pulse and the wait for its result, alike in all phases.

StartPulse(len) ==
    /\ active' = len /\ motor' = "running"
    /\ EnterSub("PULSE_EXECUTE")

Idle == sub = "IDLE"

\* is_pulse_complete() takes note of the end of the pulse.
PulseExecuted ==
    /\ sub = "PULSE_EXECUTE" /\ motor # "running"
    /\ motor' = "off" /\ EnterSub("MOTOR_SETTLING")
    /\ UNCHANGED <<search, verify, active, grounds, taring>>

DelayOver ==
    /\ \/ sub = "MOTOR_SETTLING" /\ EnterSub("COLLECTION_DELAY")
       \/ sub = "COLLECTION_DELAY" /\ EnterSub("SCALE_SETTLING")
    /\ UNCHANGED <<search, verify, active, grounds, motor, taring>>

\* The scale settles, or the wait for it times out.
ScaleSettled ==
    /\ sub = "SCALE_SETTLING"
    /\ EnterSub("MEASURE_COMPLETE") \/ Fail("settling")
    /\ UNCHANGED <<search, verify, active, grounds, motor, taring>>

AwaitPulse == PulseExecuted \/ DelayOver \/ ScaleSettled

\* Whether the measured weight grew.  The length is cut to whole milliseconds.
Measured == Results(grinder, active \div Unit)

-----------------------------------------------------------------------------
\* The phases.

Prime ==
    /\ phase = "PRIMING"
    /\ \/ Idle /\ StartPulse(Priming) /\ UNCHANGED taring
       \/ /\ sub = "MEASURE_COMPLETE" /\ UNCHANGED <<active, motor>>
          /\ \/ TRUE \in Measured /\ taring' = "pending" /\ EnterSub("TARING")
             \/ FALSE \in Measured /\ UNCHANGED taring /\ Fail("priming")
       \/ /\ sub = "TARING" /\ taring = "done"
          /\ taring' = "no" /\ EnterPhase("BINARY_SEARCH")
          /\ UNCHANGED <<active, motor>>
    /\ UNCHANGED <<search, verify, grounds>>

RoundUp(len) == Grid * ((len + Grid - 1) \div Grid)

\* The end of the search: a candidate, unless no pulse ever produced grounds.
Conclude(found) ==
    IF found = 0
    THEN Fail("no success") /\ UNCHANGED candidate
    ELSE candidate' = RoundUp(found) /\ EnterPhase("VERIFICATION")

TestPulse ==
    /\ Idle
    /\ \/ iteration >= MaxIterations /\ Fail("iterations") /\ UNCHANGED <<active, motor>>
       \/ iteration < MaxIterations /\ StartPulse(pulse)
    /\ UNCHANGED <<search, verify, grounds>>

MeasureTest ==
    /\ sub = "MEASURE_COMPLETE"
    /\ grounds' \in Measured
    /\ EnterSub("RESULT_LOGGED")
    /\ UNCHANGED <<search, verify, active, motor>>

Clamp(len) == IF len < MinPulse THEN MinPulse ELSE IF len > MaxPulse THEN MaxPulse ELSE len

\* The result decides where to look next: down after grounds, up after none,
\* with half the step at every turn.
KeepStep(s, turns) == s  \* mutant
NextStep(s, turns) == IF turns THEN s \div 2 ELSE s

SameIteration(i) == i  \* mutant
NextIteration(i) == i + 1

NextTest(found, low, towards) ==
    LET s    == NextStep(step, direction # towards)
        next == Clamp(IF towards = "DOWN" THEN pulse - s ELSE pulse + s)
        confirmed == found > 0 /\ found <= MinPulse
        goOn == next > MinPulse \/ (low /\ s > Accuracy) \/ (~low /\ ~confirmed)
    IN  /\ step' = s /\ direction' = towards
        /\ IF goOn
           THEN pulse' = next /\ iteration' = NextIteration(iteration) /\ EnterSub("IDLE")
                /\ UNCHANGED candidate
           ELSE /\ Conclude(found) /\ UNCHANGED iteration
                /\ pulse' = IF found = 0 THEN next ELSE candidate'

EndSearch(found) ==
    /\ Conclude(found)
    /\ pulse' = IF found = 0 THEN pulse ELSE candidate'
    /\ UNCHANGED <<step, direction, iteration>>

RecordFirst(len) == last' = IF last = 0 THEN len ELSE last  \* mutant
Record(len) == last' = len

DecideOnGrounds ==
    /\ grounds
    /\ Record(pulse) /\ UNCHANGED foundLow
    /\ IF foundLow /\ step <= Accuracy THEN EndSearch(pulse) ELSE NextTest(pulse, foundLow, "DOWN")

DecideOnNone ==
    /\ ~grounds
    /\ foundLow' = TRUE /\ UNCHANGED last
    /\ IF step <= Accuracy THEN EndSearch(last) ELSE NextTest(last, TRUE, "UP")

Decide ==
    /\ sub = "RESULT_LOGGED"
    /\ DecideOnGrounds \/ DecideOnNone
    /\ UNCHANGED <<round, count, hits, trials, active, grounds, motor>>

Search == phase = "BINARY_SEARCH" /\ (TestPulse \/ MeasureTest \/ Decide) /\ UNCHANGED taring

VerificationPulse ==
    /\ Idle /\ count < Pulses
    /\ pulse' = candidate /\ StartPulse(candidate)
    /\ UNCHANGED verify

\* A round that fails is repeated with a longer pulse, which starts in the same
\* pass.
ClearHits == hits' = 0

OneLess == hits >= Needed - 1  \* mutant
EnoughHits == hits >= Needed

Retry ==
    /\ round' = round + 1
    /\ IF round + 1 >= Rounds
       THEN Fail("verification") /\ UNCHANGED <<pulse, candidate, count, hits, trials, active, motor>>
       ELSE /\ candidate' = candidate + Accuracy /\ pulse' = candidate'
            /\ count' = 0 /\ ClearHits /\ UNCHANGED trials
            /\ StartPulse(candidate')

EvaluateRound ==
    /\ Idle /\ count >= Pulses
    /\ \/ EnoughHits /\ Succeed /\ UNCHANGED <<pulse, verify, active, motor>>
       \/ ~EnoughHits /\ Retry

MeasureVerification ==
    /\ sub = "MEASURE_COMPLETE"
    /\ grounds' \in Measured
    /\ count' = count + 1
    /\ hits' = IF grounds' THEN hits + 1 ELSE hits
    /\ LET so == IF trials.len = active THEN trials ELSE [NoTrials EXCEPT !.len = active]
       IN  trials' = [so EXCEPT !.made = @ + 1, !.good = IF grounds' THEN @ + 1 ELSE @]
    /\ EnterSub("IDLE")
    /\ UNCHANGED <<pulse, candidate, round, active, motor>>

Verify ==
    /\ phase = "VERIFICATION"
    /\ \/ (VerificationPulse \/ EvaluateRound) /\ UNCHANGED grounds
       \/ MeasureVerification
    /\ UNCHANGED <<step, last, direction, foundLow, iteration, taring>>

\* The update() of the controller.  A cancelled tune would end with the next one;
\* the request is only made by handle_cancel(), which leaves the screen.
Advance ==
    IF cancelled
    THEN Fail("cancelled") /\ UNCHANGED <<search, verify, active, grounds, motor, taring>>
    ELSE AwaitPulse \/ Prime \/ Search \/ Verify

\* AutoTuneUIController::update(): the result is shown in the pass that finds it.
UpdateTune ==
    /\ screen = "AUTOTUNING" /\ running
    /\ Advance
    /\ IF started /\ phase' \in Complete
       THEN started' = FALSE
            /\ shown' = IF phase' = "COMPLETE_SUCCESS" THEN "success" ELSE "failure"
       ELSE UNCHANGED <<started, shown>>
    /\ UNCHANGED <<screen, cancelled, grinder>>

-----------------------------------------------------------------------------
\* The hardware and the power.

PulseEnds ==
    /\ motor = "running"
    /\ motor' = "done"
    /\ UNCHANGED <<ui, running, cancelled, phase, sub, reason, search, verify, active, grounds,
                   taring, saved, grinder>>

TareEnds ==
    /\ taring = "pending"
    /\ taring' = "done"
    /\ UNCHANGED <<ui, running, cancelled, phase, sub, reason, search, verify, active, grounds,
                   motor, saved, grinder>>

\* load_motor_latency() comes before the preferences are closed.  A factory reset
\* erases them.
Restart ==
    /\ stored' \in {stored, 0} /\ latency' = Loaded(stored')
    /\ screen' = "ELSEWHERE" /\ shown' = "console" /\ started' = FALSE
    /\ running' = FALSE /\ phase' = "IDLE" /\ reason' = "none"
    /\ ClearTune(0, 0) /\ motor' = "off" /\ taring' = "no"
    /\ UNCHANGED grinder

Press == BeginTune \/ PressCancel \/ PressOk \/ LoseScreen
Next  == Press \/ UpdateTune \/ PulseEnds \/ TareEnds \/ Restart

Spec == Init /\ [][Next]_vars

\* The user interface task runs, a pulse has an end, and the sensor samples.
Fairness == WF_vars(UpdateTune) /\ WF_vars(PulseEnds) /\ WF_vars(TareEnds)
FairSpec == Spec /\ Fairness

-----------------------------------------------------------------------------
\* Properties.

\* The latency changes only to a length whose last verification pulses, all of
\* exactly this length, were enough of them successful, whatever the grinder does
\* and however the rounds before it went; and back to what was stored when the
\* device restarts.
Restarted == phase' = "IDLE" /\ latency' = Loaded(stored')
LatencyIsVerified ==
    [][ latency' # latency =>
            \/ trials.len = latency' /\ trials.made = Pulses /\ trials.good >= Needed
            \/ Restarted ]_vars

\* A grinder that always answers a pulse that is long enough, at the latest the
\* longest of the search and the priming pulse, and never a shorter one.
Answers(ms) == Results(grinder, ms) = {TRUE}
Tried       == MinPulse \div Unit .. MaxPulse \div Unit
LongerIsEnough ==
    /\ \E shortest \in {ms \in Tried : Answers(ms)} :
           \A ms \in Tried : Results(grinder, ms) = {ms >= shortest}
    /\ Answers(Priming \div Unit)

\* The tune finds the length of such a grinder: it can only fail because the
\* scale does not settle.
SteadyGrinderIsTuned ==
    phase = "COMPLETE_FAILURE" /\ LongerIsEnough => reason = "settling"

\* And the length it finds is the shortest, but for the resolution of the search
\* and the rounding.
FoundPulseIsShortest ==
    phase = "COMPLETE_SUCCESS" /\ LongerIsEnough =>
        \A ms \in Tried : Answers(ms) => candidate - ms * Unit < Accuracy + Grid

\* A tune that keeps its screen ends: the search does not go round in circles,
\* whatever the pulses produce.
TuneEnds == running ~> ~running \/ screen # "AUTOTUNING"

-----------------------------------------------------------------------------
\* What the numbers of the search have to satisfy.

\* The steps of the search, w[0] the first: halved at every turn, whole, and fine
\* enough after H turns, with iterations for two pulses at each of them.
Halving(w, H) ==
    /\ H \in Nat \ {0} /\ w \in [0..H -> Nat]
    /\ w[0] = MaxPulse - MinPulse
    /\ \A i \in 0..H - 1 : w[i] = 2 * w[i + 1]
    /\ w[H] <= Accuracy
    /\ 2 * H < MaxIterations
=============================================================================
