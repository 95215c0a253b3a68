--------------------------- MODULE GrindController ---------------------------
(***************************************************************************)
(* The grind state machine of the firmware:                                *)
(* smart-grind-by-weight/src/controllers/grind_controller.cpp with its two *)
(* strategies and the motor driver hardware/grinder.cpp.                   *)
(*                                                                         *)
(* Core 0 calls update() every 20 ms.  A pass dispatches on the phase      *)
(* (UpdateCase) and then checks the failsafes (UpdateGuards).  The user    *)
(* interface calls the public handlers from Core 1.  In this module a      *)
(* handler never lands inside a pass or inside another handler; GrindCores *)
(* reuses the same actions without that assumption.                        *)
(*                                                                         *)
(* A weight is reduced to what the code decides from it, and is chosen     *)
(* when it is read.  Only the session clock is counted, in ticks.          *)
(***************************************************************************)
EXTENDS Integers

CONSTANTS
    MaxPulseAttempts,  \* GRIND_MAX_PULSE_ATTEMPTS, size of pulse_history
    Timeout,           \* GRIND_TIMEOUT_SEC in ticks
    MaxPause,          \* bound: ticks a purge confirmation may last
    MaxExtraPulses,    \* bound: pulses after one time-mode grind
    FlashQueueSize,    \* FLASH_OP_QUEUE_SIZE
    StartOutcomes      \* FALSE: rmt_new_copy_encoder may fail; TRUE: may succeed

ASSUME PulsesAssumption  == MaxPulseAttempts \in Nat /\ MaxExtraPulses \in Nat
ASSUME ClockAssumption   == Timeout \in Nat \ {0} /\ MaxPause \in Nat
ASSUME QueueAssumption   == FlashQueueSize \in Nat \ {0}
ASSUME OutcomeAssumption == StartOutcomes \subseteq BOOLEAN /\ StartOutcomes # {}

VARIABLES
    phase,        \* GrindPhase
    mode,         \* GrindMode of the session
    strategy,     \* active_strategy, "none" for nullptr
    attempts,     \* pulse_attempts
    extraPulses,  \* additional_pulse_count
    uiReady,      \* ui_ready_for_setup
    purgeMode,    \* grinder_purge_mode_for_session
    purged,       \* grinder_purged_since_boot
    result,       \* last_session_result_
    timeoutPhase, \* timeout_phase
    grinding,     \* Grinder::grinding
    pulseActive,  \* Grinder::pulse_active
    pin,          \* what the RMT channel drives: "low", "run" or "pulse"
    taring,       \* WeightSensor::doTare
    elapsed,      \* millis() - start_time
    offset,       \* timeout_offset_ms
    pauseAt,      \* timeout_pause_start relative to start_time, NoPause for 0
    active,       \* history: ticks of this session outside PURGE_CONFIRM
    logging,      \* GrindLogger::logging_active
    endQueued,    \* session_end_flash_queued
    ends,         \* END_GRIND_SESSION requests in flash_op_queue
    stage         \* "case" or "guards": the half of update() to run next

session == <<mode, strategy, uiReady, purgeMode>>
pulses  == <<attempts, extraPulses>>
outcome == <<purged, result, timeoutPhase>>
motor   == <<grinding, pulseActive, pin>>
clock   == <<elapsed, offset, pauseAt, active>>
journal == <<logging, endQueued, ends>>
vars    == <<phase, session, pulses, outcome, motor, taring, clock, journal, stage>>

-----------------------------------------------------------------------------
Preparing == {"INITIALIZING", "SETUP", "TARING", "TARE_CONFIRM"}
Dosing    == {"PRIME", "PRIME_SETTLING", "PREDICTIVE", "PULSE_DECISION", "PULSE_EXECUTE",
              "PULSE_SETTLING", "FINAL_SETTLING", "TIME_GRINDING", "TIME_ADDITIONAL_PULSE"}
Terminal  == {"COMPLETED", "TIMEOUT"}
Phase     == {"IDLE", "PURGE_CONFIRM"} \cup Preparing \cup Dosing \cup Terminal
Result    == {"UNKNOWN", "SUCCESS", "OVERSHOOT", "MAX_PULSES", "TIMEOUT", "ERROR"}
FinalWeight == {"none", "under", "on", "over"}  \* final_weight against the target
NoPause   == -1

OutcomeTypes ==
    phase \in Phase /\ result \in Result /\ timeoutPhase \in Phase /\ purged \in BOOLEAN
SessionTypes ==
    /\ mode \in {"WEIGHT", "TIME"} /\ strategy \in {"none", "WEIGHT", "TIME"}
    /\ uiReady \in BOOLEAN /\ purgeMode \in {"PRIME", "PURGE"}
PulsesTypes  == attempts \in Nat /\ extraPulses \in 0..MaxExtraPulses
MotorTypes   == grinding \in BOOLEAN /\ pulseActive \in BOOLEAN /\ pin \in {"low", "run", "pulse"}
ClockTypes   == elapsed \in Nat /\ offset \in Nat /\ pauseAt \in Nat \cup {NoPause} /\ active \in Nat
JournalTypes == logging \in BOOLEAN /\ endQueued \in BOOLEAN /\ ends \in 0..FlashQueueSize

TypeOK ==
    /\ OutcomeTypes /\ SessionTypes /\ PulsesTypes /\ MotorTypes /\ ClockTypes /\ JournalTypes
    /\ taring \in BOOLEAN /\ stage \in {"case", "guards"}

Init ==
    /\ phase = "IDLE" /\ mode = "WEIGHT" /\ strategy = "none" /\ stage = "case"
    /\ attempts = 0 /\ extraPulses = 0
    /\ uiReady = FALSE /\ purgeMode = "PURGE" /\ purged = FALSE
    /\ result = "UNKNOWN" /\ timeoutPhase = "IDLE"
    /\ grinding = FALSE /\ pulseActive = FALSE /\ pin = "low"
    /\ taring = FALSE
    /\ elapsed = 0 /\ offset = 0 /\ pauseAt = NoPause /\ active = 0
    /\ logging = FALSE /\ endQueued = FALSE /\ ends = 0

-----------------------------------------------------------------------------
\* The motor driver.  RMT hardware plays the signal once it is handed over.

MotorStart ==
    /\ pulseActive' = FALSE
    /\ \/ TRUE \in StartOutcomes /\ grinding' = TRUE /\ pin' = "run"
       \/ FALSE \in StartOutcomes /\ UNCHANGED <<grinding, pin>>

MotorStopKeepsPin ==  \* mutant: the flags are cleared, the channel plays on
    grinding' = FALSE /\ pulseActive' = FALSE /\ UNCHANGED pin
MotorStop ==
    /\ grinding' = FALSE
    /\ pulseActive' = FALSE
    /\ pin' = "low"

\* A pulse handed over while the endless loop plays waits behind it.
MotorPulse ==
    \/ /\ TRUE \in StartOutcomes
       /\ grinding' = TRUE
       /\ pulseActive' = TRUE
       /\ pin' = IF pin = "low" THEN "pulse" ELSE pin
    \/ FALSE \in StartOutcomes /\ UNCHANGED motor

\* is_pulse_complete() clears the flags of a pulse whose pin has gone low.
PulseComplete == ~pulseActive \/ pin = "low"
MotorAckPulse ==
    /\ pulseActive' = FALSE
    /\ grinding' = IF pulseActive THEN FALSE ELSE grinding
    /\ UNCHANGED pin

MotorStartUnlessGrinding == IF grinding THEN UNCHANGED motor ELSE MotorStart

-----------------------------------------------------------------------------
\* switch_phase(new) when last_session_result_ is r.  Entering the phase one
\* is already in returns early.
SwitchPhase(new, r) ==
    /\ phase' = new
    /\ result' = IF new = "TIMEOUT" /\ phase # new /\ r = "UNKNOWN" THEN "TIMEOUT" ELSE r
    /\ purged' = IF new = "COMPLETED" /\ phase # new THEN TRUE ELSE purged

SessionResultIgnoresAttempts(w) == IF w = "on" THEN "SUCCESS" ELSE "MAX_PULSES"  \* mutant

\* The result switch_phase(COMPLETED) computes for the measured weight w.
SessionResult(w) ==
    IF mode = "TIME" THEN "SUCCESS"
    ELSE IF w = "over" THEN "OVERSHOOT"
    ELSE IF attempts >= MaxPulseAttempts /\ w # "on" THEN "MAX_PULSES"
    ELSE "SUCCESS"

Goto(new) == SwitchPhase(new, result) /\ UNCHANGED timeoutPhase

-----------------------------------------------------------------------------
\* The cases of update().  p is the phase the switch dispatched on.

Initializing(p) ==
    /\ p = "INITIALIZING" /\ uiReady
    /\ Goto("SETUP")
    /\ UNCHANGED <<session, pulses, motor, taring, clock, journal>>

Setup(p) ==
    /\ p = "SETUP"
    /\ logging' = TRUE
    /\ Goto("TARING")
    /\ UNCHANGED <<session, pulses, motor, taring, clock, endQueued, ends>>

Taring(p) ==
    /\ p = "TARING"
    /\ taring' = TRUE
    /\ Goto("TARE_CONFIRM")
    /\ UNCHANGED <<session, pulses, motor, clock, journal>>

TareConfirm(p) ==
    /\ p = "TARE_CONFIRM" /\ ~taring
    /\ MotorStartUnlessGrinding
    /\ Goto(IF mode = "TIME" THEN "TIME_GRINDING" ELSE "PRIME")
    /\ UNCHANGED <<session, pulses, taring, clock, journal>>

Prime(p) ==
    /\ p = "PRIME"
    /\ \/ MotorStartUnlessGrinding /\ UNCHANGED <<phase, outcome>>
       \/ MotorStop /\ Goto("PRIME_SETTLING")
    /\ UNCHANGED <<session, pulses, taring, clock, journal>>

\* Stale grounds in purge mode wait for the user, all others grind on.
PrimeSettlingHold(p) ==
    /\ p = "PRIME_SETTLING" /\ purgeMode = "PURGE"
    /\ pauseAt' = elapsed
    /\ Goto("PURGE_CONFIRM")
    /\ UNCHANGED <<session, pulses, motor, taring, elapsed, offset, active, journal>>

PrimeSettlingGrind(p) ==
    /\ p = "PRIME_SETTLING" /\ (purgeMode = "PRIME" \/ purged)
    /\ MotorStart
    /\ Goto("PREDICTIVE")
    /\ UNCHANGED <<session, pulses, taring, clock, journal>>

Predictive(p) ==
    /\ p = "PREDICTIVE" /\ mode = "WEIGHT" /\ strategy # "none"
    /\ MotorStop
    /\ Goto("PULSE_SETTLING")
    /\ UNCHANGED <<session, pulses, taring, clock, journal>>

PulseDecisionDone(p) ==
    /\ p = "PULSE_DECISION" /\ mode = "WEIGHT" /\ strategy # "none"
    /\ Goto("FINAL_SETTLING")
    /\ UNCHANGED <<session, pulses, motor, taring, clock, journal>>

PulsesLeftOneMore == attempts <= MaxPulseAttempts  \* mutant: <= for <
PulsesLeft == attempts < MaxPulseAttempts

PulseDecisionPulse(p) ==
    /\ p = "PULSE_DECISION" /\ mode = "WEIGHT" /\ strategy # "none"
    /\ PulsesLeft
    /\ Goto("PULSE_EXECUTE")
    /\ MotorPulse
    /\ attempts' = attempts + 1
    /\ UNCHANGED <<session, extraPulses, taring, clock, journal>>

PulseExecute(p) ==
    /\ p = "PULSE_EXECUTE" /\ mode = "WEIGHT" /\ strategy # "none"
    /\ PulseComplete
    /\ MotorAckPulse
    /\ Goto("PULSE_SETTLING")
    /\ UNCHANGED <<session, pulses, taring, clock, journal>>

PulseSettling(p) ==
    /\ p = "PULSE_SETTLING" /\ mode = "WEIGHT" /\ strategy # "none"
    /\ Goto("PULSE_DECISION")
    /\ UNCHANGED <<session, pulses, motor, taring, clock, journal>>

TimeGrinding(p) ==
    /\ p = "TIME_GRINDING" /\ mode = "TIME" /\ strategy # "none"
    /\ MotorStop
    /\ Goto("FINAL_SETTLING")
    /\ UNCHANGED <<session, pulses, taring, clock, journal>>

\* "none": under 0.2 g although at least 1 g was asked for.
FinalMeasurement(p) ==
    /\ p = "FINAL_SETTLING"
    /\ \E w \in FinalWeight :
           IF mode = "WEIGHT" /\ w = "none"
           THEN timeoutPhase' = "FINAL_SETTLING" /\ SwitchPhase("TIMEOUT", "ERROR")
           ELSE SwitchPhase("COMPLETED", SessionResult(w)) /\ UNCHANGED timeoutPhase
    /\ UNCHANGED <<session, pulses, motor, taring, clock, journal>>

AdditionalPulse(p) ==
    /\ p = "TIME_ADDITIONAL_PULSE"
    /\ PulseComplete
    /\ MotorAckPulse
    /\ SwitchPhase("COMPLETED", SessionResult("on")) /\ UNCHANGED timeoutPhase
    /\ UNCHANGED <<session, pulses, taring, clock, journal>>

EnqueueEnd == ends' = IF ends < FlashQueueSize THEN ends + 1 ELSE ends

\* COMPLETED and TIMEOUT queue the end of the logged session, once; a full
\* queue drops the request.
QueueSessionEnd(p) ==
    /\ p \in Terminal /\ logging /\ ~endQueued
    /\ endQueued' = TRUE
    /\ EnqueueEnd
    /\ UNCHANGED <<phase, session, pulses, outcome, motor, taring, clock, logging>>

\* The case finds nothing to do: not settled, weight not reached, tare or
\* pulse still running.
Wait(p) ==
    /\ p \notin {"SETUP", "TARING", "PRIME"}
    /\ p = "INITIALIZING" => ~uiReady
    /\ p = "PULSE_EXECUTE" => ~PulseComplete \/ mode # "WEIGHT" \/ strategy = "none"
    /\ p = "TIME_ADDITIONAL_PULSE" => ~PulseComplete
    /\ p \in Terminal => ~logging \/ endQueued
    /\ UNCHANGED <<phase, session, pulses, outcome, motor, taring, clock, journal>>

Case(p) ==
    \/ Initializing(p) \/ Setup(p) \/ Taring(p) \/ TareConfirm(p)
    \/ Prime(p) \/ PrimeSettlingHold(p) \/ PrimeSettlingGrind(p)
    \/ Predictive(p) \/ PulseDecisionDone(p) \/ PulseDecisionPulse(p)
    \/ PulseExecute(p) \/ PulseSettling(p) \/ TimeGrinding(p)
    \/ FinalMeasurement(p) \/ AdditionalPulse(p) \/ QueueSessionEnd(p) \/ Wait(p)

\* update() returns at once when idle and while the control loop is paused.
UpdateCase ==
    /\ stage = "case" /\ phase \notin {"IDLE", "PURGE_CONFIRM"}
    /\ stage' = "guards"
    /\ Case(phase)

-----------------------------------------------------------------------------
\* The failsafes at the end of a pass; they look at the phase again.

\* millis() - start_time - timeout_offset_ms is unsigned: an offset beyond the
\* elapsed time wraps to a huge active time.
TimedOut == elapsed - offset >= Timeout \/ elapsed < offset

MustTimeOutUnlessTaring ==  \* mutant: the tare is trusted to end
    phase \notin Terminal \cup {"PURGE_CONFIRM", "TARE_CONFIRM"} /\ TimedOut

MustTimeOut == phase \notin Terminal \cup {"PURGE_CONFIRM"} /\ TimedOut

AbortKeepsMotor(r) ==  \* mutant: grinder->stop() is missing
    /\ timeoutPhase' = phase
    /\ SwitchPhase("TIMEOUT", r)
    /\ UNCHANGED motor

Abort(r) ==
    /\ timeoutPhase' = phase
    /\ MotorStop
    /\ SwitchPhase("TIMEOUT", r)

NegativeWeight == phase \in Dosing \cup {"PURGE_CONFIRM"} /\ Abort("ERROR")

GuardTimeout == MustTimeOut /\ Abort("TIMEOUT")

GuardPass == ~MustTimeOut /\ UNCHANGED <<phase, outcome, motor>>

UpdateGuards ==
    /\ stage = "guards"
    /\ stage' = "case"
    /\ NegativeWeight \/ GuardTimeout \/ GuardPass
    /\ UNCHANGED <<session, pulses, taring, clock, journal>>

-----------------------------------------------------------------------------
\* The public handlers, called by the user interface on Core 1.

EndFlagStays == UNCHANGED endQueued  \* mutant: session_end_flash_queued stays set
EndFlagReset == endQueued' = FALSE

StartGrind(m, pm) ==
    /\ phase = "IDLE"
    /\ mode' = m /\ strategy' = m /\ purgeMode' = pm
    /\ uiReady' = FALSE
    /\ attempts' = 0 /\ extraPulses' = 0
    /\ timeoutPhase' = "IDLE"
    /\ SwitchPhase("INITIALIZING", "UNKNOWN")
    /\ elapsed' = 0 /\ offset' = 0 /\ pauseAt' = NoPause /\ active' = 0
    /\ EndFlagReset
    /\ UNCHANGED <<motor, taring, logging, ends, stage>>

AcknowledgePhase ==
    /\ phase = "INITIALIZING"
    /\ uiReady' = TRUE
    /\ UNCHANGED <<phase, mode, strategy, purgeMode, pulses, outcome, motor, taring,
                   clock, journal, stage>>

LeaveSession == strategy' = "none" /\ purgeMode' = "PURGE" /\ UNCHANGED <<mode, uiReady>>

ReturnToIdle ==
    /\ phase \in Terminal
    /\ LeaveSession
    /\ Goto("IDLE")
    /\ UNCHANGED <<pulses, motor, taring, clock, journal, stage>>

StopGrind ==
    /\ MotorStop
    /\ logging' = FALSE
    /\ LeaveSession
    /\ Goto("IDLE")
    /\ UNCHANGED <<pulses, taring, clock, endQueued, ends, stage>>

ResumeClockForgetsPause == pauseAt' = NoPause /\ UNCHANGED offset  \* mutant
ResumeClock ==
    /\ offset' = IF pauseAt # NoPause THEN offset + (elapsed - pauseAt) ELSE offset
    /\ pauseAt' = NoPause

ContinueFromPurge ==
    /\ phase = "PURGE_CONFIRM"
    /\ ResumeClock
    /\ MotorStart
    /\ Goto("PREDICTIVE")
    /\ UNCHANGED <<session, pulses, taring, elapsed, active, journal, stage>>

CanPulse == mode = "TIME" /\ phase = "COMPLETED"

StartAdditionalPulse ==
    /\ CanPulse /\ extraPulses < MaxExtraPulses
    /\ extraPulses' = extraPulses + 1
    /\ elapsed' = 0 /\ active' = 0
    /\ Goto("TIME_ADDITIONAL_PULSE")
    /\ MotorPulse
    /\ UNCHANGED <<session, attempts, taring, offset, pauseAt, journal, stage>>

UiCall ==
    \/ \E m \in {"WEIGHT", "TIME"}, pm \in {"PRIME", "PURGE"} : StartGrind(m, pm)
    \/ AcknowledgePhase \/ ReturnToIdle \/ StopGrind
    \/ ContinueFromPurge \/ StartAdditionalPulse

-----------------------------------------------------------------------------
\* The surroundings: the clock, the RMT hardware, the sampling task that ends
\* a tare, and the file task that ends the logged session.

\* Ticks are counted while they can matter; MaxPause bounds the confirmation.
Tick ==
    /\ phase \notin Terminal \cup {"IDLE"}
    /\ IF phase = "PURGE_CONFIRM"
       THEN elapsed - pauseAt < MaxPause /\ UNCHANGED active
       ELSE active < Timeout /\ active' = active + 1
    /\ elapsed' = elapsed + 1
    /\ UNCHANGED <<phase, session, pulses, outcome, motor, taring, offset, pauseAt,
                   journal, stage>>

PulseEnds ==
    /\ pin = "pulse"
    /\ pin' = "low"
    /\ UNCHANGED <<phase, session, pulses, outcome, grinding, pulseActive, taring,
                   clock, journal, stage>>

TareDone ==
    /\ taring
    /\ taring' = FALSE
    /\ UNCHANGED <<phase, session, pulses, outcome, motor, clock, journal, stage>>

EndSession ==
    /\ ends > 0
    /\ ends' = ends - 1
    /\ logging' = FALSE
    /\ UNCHANGED <<phase, session, pulses, outcome, motor, taring, clock, endQueued, stage>>

Update == UpdateCase \/ UpdateGuards
Environment == Tick \/ PulseEnds \/ TareDone \/ EndSession

Next ==
    \/ Update
    \/ stage = "case" /\ UiCall
    \/ Environment

Spec == Init /\ [][Next]_vars

\* The control task is periodic and time passes; the user, the tare (a faulty
\* cell delivers no samples) and the file task owe nothing.
Fairness == WF_vars(UpdateCase) /\ WF_vars(UpdateGuards) /\ WF_vars(Tick)
FairSpec == Spec /\ Fairness

-----------------------------------------------------------------------------
\* Properties.

MotorPhases == {"PRIME", "PREDICTIVE", "PULSE_EXECUTE", "TIME_GRINDING",
                "TIME_ADDITIONAL_PULSE"}

\* Outside the phases that dispense, whatever path led out of them (target
\* reached, pulse over, failsafe, timeout, user), the grinder is not driven and
\* the flags of Grinder say so; a stale flag would keep TARE_CONFIRM from
\* starting the motor of the next grind.
MotorOffWhenNotDispensing ==
    phase \notin MotorPhases => pin = "low" /\ ~grinding /\ ~pulseActive

\* While update() waits for the weight or the time target, the motor runs,
\* provided the driver can always create its encoder.
MotorRunsTowardsTarget ==
    StartOutcomes = {TRUE} /\ phase \in {"PREDICTIVE", "TIME_GRINDING"} => pin = "run"

\* Corrections stay inside pulse_history: a pulse under way has used one of
\* its entries and no entry past the last.
PulseHistoryInBounds ==
    /\ attempts <= MaxPulseAttempts
    /\ phase = "PULSE_EXECUTE" => attempts > 0

\* The time check_timeout() compares is the time this session has been active:
\* the purge confirmation does not count, nothing is carried over from an
\* earlier session, and the unsigned subtraction does not wrap, also after an
\* additional pulse has restarted the clock.
TimeoutCountsActiveTime ==
    phase \in Preparing \cup Dosing => elapsed >= offset /\ elapsed - offset = active

\* The result shown and stored agrees with how the grind ended, and is open
\* while it has not ended.
ResultMatchesEnding ==
    /\ phase = "COMPLETED" => result \in {"SUCCESS", "OVERSHOOT", "MAX_PULSES"}
    /\ phase = "TIMEOUT" => result \in {"TIMEOUT", "ERROR"}
    /\ result = "MAX_PULSES" => attempts = MaxPulseAttempts
    /\ phase \in (Preparing \cup Dosing \cup {"PURGE_CONFIRM"}) \ {"TIME_ADDITIONAL_PULSE"}
           => result = "UNKNOWN"

\* A log whose end was requested is never orphaned: a request is in the queue
\* that will close it, even when its own was dropped because the queue was full.
RequestedEndArrives == logging /\ endQueued => ends > 0

\* Waiting for the purge confirmation is never cut short by the timeout.
ConfirmationNotTimedOut ==
    [][phase = "PURGE_CONFIRM" /\ phase' = "TIMEOUT" => result' = "ERROR"]_vars

\* A grind ends or waits for the user; the 60 s limit holds even when the cell
\* delivers no samples, the scale never settles or the user never comes back.
GrindEnds ==
    phase \in Preparing \cup Dosing ~> phase \in Terminal \cup {"IDLE", "PURGE_CONFIRM"}

-----------------------------------------------------------------------------
\* What makes the safety properties inductive (see GrindControllerProofs).

\* Weight sessions prime, hold and pulse; time sessions run and extend.
WeightPhases == {"PRIME", "PRIME_SETTLING", "PURGE_CONFIRM", "PREDICTIVE", "PULSE_DECISION",
                 "PULSE_EXECUTE", "PULSE_SETTLING"}
TimePhases   == {"TIME_GRINDING", "TIME_ADDITIONAL_PULSE"}

SessionInv ==
    /\ phase \in WeightPhases => mode = "WEIGHT"
    /\ phase \in TimePhases => mode = "TIME"
    /\ phase # "IDLE" => strategy = mode
    /\ stage = "guards" => phase # "IDLE"

\* A pulse is flagged exactly as long as it is unacknowledged.
MotorInv ==
    /\ phase \notin MotorPhases => pin = "low" /\ ~grinding /\ ~pulseActive
    /\ phase \in {"PULSE_EXECUTE", "TIME_ADDITIONAL_PULSE"} =>
           /\ grinding = pulseActive
           /\ pin # "run"
           /\ ~pulseActive => pin = "low"
    /\ phase \in {"PRIME", "PREDICTIVE", "TIME_GRINDING"} =>
           pin # "pulse" /\ ~pulseActive /\ grinding = (pin = "run")

ClockInv ==
    /\ phase \in Preparing \cup Dosing => elapsed >= offset /\ elapsed - offset = active
    /\ phase = "PURGE_CONFIRM" =>
           /\ pauseAt # NoPause /\ offset <= pauseAt /\ pauseAt <= elapsed
           /\ pauseAt - offset = active
    /\ mode = "TIME" => offset = 0

JournalInv ==
    /\ logging /\ endQueued => ends > 0
    /\ phase \in Preparing => ~endQueued

IInv == /\ TypeOK /\ SessionInv /\ MotorInv /\ ClockInv /\ JournalInv
        /\ MotorRunsTowardsTarget /\ PulseHistoryInBounds /\ ResultMatchesEnding

-----------------------------------------------------------------------------
\* The abstract session this state machine implements.
SessionState ==
    CASE phase = "IDLE" -> "idle"
      [] phase \in Preparing -> "preparing"
      [] phase \in Dosing -> "dosing"
      [] phase = "PURGE_CONFIRM" -> "held"
      [] phase = "COMPLETED" -> "done"
      [] phase = "TIMEOUT" -> "failed"

Session == INSTANCE GrindSession WITH session <- SessionState, motorOn <- (pin # "low")

\* Every behaviour of the controller is one of GrindSession.
ImplementsSession == Session!Spec
=============================================================================
