------------------------------ MODULE GrindCores ------------------------------
(***************************************************************************)
(* GrindController on its two cores, with no lock between them: Core 0     *)
(* runs a pass of update() as dispatch, case and failsafes, Core 1 runs    *)
(* the handlers that touch the motor and the phase as the steps they are   *)
(* made of, and the steps of the two interleave.  A pass works on the      *)
(* phase it was dispatched on, which Core 1 may have left meanwhile.       *)
(***************************************************************************)
EXTENDS GrindController

VARIABLES
    snap,  \* Core 0: the phase this pass was dispatched on, "none" between passes
    ui     \* Core 1: the step of the handler it is in, "none" outside handlers

cores == <<snap, ui>>
allVars == <<vars, cores>>

UiStep == {"none", "motor stopped", "log discarded", "motor resumed", "pulse announced"}

CoresTypeOK == TypeOK /\ snap \in Phase \cup {"none"} /\ ui \in UiStep

CoresInit == Init /\ snap = "none" /\ ui = "none"

-----------------------------------------------------------------------------
\* Core 0.

Dispatch ==
    /\ stage = "case" /\ snap = "none"
    /\ phase \notin {"IDLE", "PURGE_CONFIRM"}
    /\ snap' = phase
    /\ UNCHANGED <<vars, ui>>

RunCase ==
    /\ snap # "none"
    /\ Case(snap)
    /\ snap' = "none" /\ stage' = "guards"
    /\ UNCHANGED ui

RunGuards == UpdateGuards /\ UNCHANGED cores

-----------------------------------------------------------------------------
\* Core 1.  Handlers run one after the other in the task of the user interface.

Uninterrupted ==
    /\ ui = "none"
    /\ \/ \E m \in {"WEIGHT", "TIME"}, pm \in {"PRIME", "PURGE"} : StartGrind(m, pm)
       \/ AcknowledgePhase \/ ReturnToIdle
    /\ UNCHANGED cores

\* stop_grind() stops the motor, discards the log and leaves the session.
StopTheMotor ==
    /\ ui = "none"
    /\ ui' = "motor stopped"
    /\ MotorStop
    /\ UNCHANGED <<phase, session, pulses, outcome, taring, clock, journal, stage, snap>>

DiscardTheLog ==
    /\ ui = "motor stopped"
    /\ ui' = "log discarded"
    /\ logging' = FALSE
    /\ UNCHANGED <<phase, session, pulses, outcome, motor, taring, clock, endQueued, ends,
                   stage, snap>>

SwitchToIdle ==
    /\ ui = "log discarded"
    /\ ui' = "none"
    /\ LeaveSession
    /\ Goto("IDLE")
    /\ UNCHANGED <<pulses, motor, taring, clock, journal, stage, snap>>

\* continue_from_purge() starts the motor before it switches the phase.  The
\* user answers a dialog that appears after the pass that asked for it.
ResumeTheMotor ==
    /\ ui = "none" /\ phase = "PURGE_CONFIRM"
    /\ snap = "none" /\ stage = "case"
    /\ ui' = "motor resumed"
    /\ ResumeClock
    /\ MotorStart
    /\ UNCHANGED <<phase, session, pulses, outcome, taring, elapsed, active, journal, stage, snap>>

SwitchToPredictive ==
    /\ ui = "motor resumed"
    /\ ui' = "none"
    /\ Goto("PREDICTIVE")
    /\ UNCHANGED <<session, pulses, motor, taring, clock, journal, stage, snap>>

\* start_additional_pulse() switches the phase before it starts the pulse.
AnnouncePulse ==
    /\ ui = "none"
    /\ CanPulse /\ extraPulses < MaxExtraPulses
    /\ ui' = "pulse announced"
    /\ extraPulses' = extraPulses + 1
    /\ elapsed' = 0 /\ active' = 0
    /\ Goto("TIME_ADDITIONAL_PULSE")
    /\ UNCHANGED <<session, attempts, motor, taring, offset, pauseAt, journal, stage, snap>>

StartThePulse ==
    /\ ui = "pulse announced"
    /\ ui' = "none"
    /\ MotorPulse
    /\ UNCHANGED <<phase, session, pulses, outcome, taring, clock, journal, stage, snap>>

\* A finished grind stays on the display; its clock runs on, to the limit.
DisplayTick ==
    /\ phase \in Terminal
    /\ elapsed - offset < Timeout
    /\ elapsed' = elapsed + 1
    /\ UNCHANGED <<phase, session, pulses, outcome, motor, taring, offset, pauseAt, active,
                   journal, stage>>

-----------------------------------------------------------------------------
Core0 == Dispatch \/ RunCase \/ RunGuards
Core1 == Uninterrupted \/ StopTheMotor \/ DiscardTheLog \/ SwitchToIdle \/ ResumeTheMotor
            \/ SwitchToPredictive \/ AnnouncePulse \/ StartThePulse

\* A handler takes microseconds, far less than a tick.
Time == ui = "none" /\ (Tick \/ DisplayTick)
Surroundings == (Time \/ PulseEnds \/ TareDone \/ EndSession) /\ UNCHANGED cores

CoresNext == Core0 \/ Core1 \/ Surroundings
CoresSpec == CoresInit /\ [][CoresNext]_allVars

\* Both tasks are scheduled, a handler that was begun is finished, time passes.
CoresFairness ==
    /\ WF_allVars(Dispatch) /\ WF_allVars(RunCase) /\ WF_allVars(RunGuards)
    /\ WF_allVars(DiscardTheLog) /\ WF_allVars(SwitchToIdle)
    /\ WF_allVars(SwitchToPredictive) /\ WF_allVars(StartThePulse)
    /\ WF_allVars(ui = "none" /\ Tick /\ UNCHANGED cores)
CoresFairSpec == CoresSpec /\ CoresFairness

-----------------------------------------------------------------------------
\* Wherever a session settles, waits or has ended, the motor does not run
\* freely, whatever overlapped, except while the user resumes it; only IDLE and
\* the grind prepared next can inherit a motor from an overlapping stop.
MotorOffAfterDosing ==
    phase \in {"PRIME_SETTLING", "PURGE_CONFIRM", "PULSE_DECISION", "PULSE_SETTLING",
              "FINAL_SETTLING"} \cup Terminal => pin # "run" \/ ui = "motor resumed"

\* A running motor stops, or was forgotten in IDLE by an overlapping stop; also
\* a pass that brings a stopped session back to life runs into the time limit.
MotorStopsUnlessForgotten == pin = "run" ~> pin # "run" \/ phase = "IDLE"
-----------------------------------------------------------------------------
\* What makes the safety of the overlapping cores inductive (see
\* GrindControllerProofs).

\* A pass works on the phase the controller is in, or on one the user has left
\* since it was dispatched.
PassInv ==
    /\ snap # "none" => stage = "case" /\ snap \notin {"IDLE", "PURGE_CONFIRM"}
    /\ snap # "none" =>
           \/ phase \in {snap, "IDLE", "INITIALIZING"}
           \/ snap = "COMPLETED" /\ phase = "TIME_ADDITIONAL_PULSE"
    /\ ui = "motor resumed" => phase = "PURGE_CONFIRM" /\ snap = "none" /\ stage = "case"

\* The phases no step enters or works on with a motor that runs freely.
QuietPhases == {"PRIME_SETTLING", "PURGE_CONFIRM", "PULSE_DECISION", "PULSE_EXECUTE",
                "PULSE_SETTLING", "FINAL_SETTLING", "TIME_ADDITIONAL_PULSE"} \cup Terminal
QuietInv == phase \in QuietPhases \/ snap \in QuietPhases => pin # "run" \/ ui = "motor resumed"

\* The active time is right for the phase a pass works on too; a timed session
\* that an overlapping pass sent to the purge confirmation cannot complete.
OverlappedClockInv ==
    /\ phase \in Preparing \cup Dosing \/ snap \in Preparing \cup Dosing \/ ui = "motor resumed" =>
           elapsed >= offset /\ elapsed - offset = active
    /\ phase = "PURGE_CONFIRM" /\ ui # "motor resumed" =>
           /\ pauseAt # NoPause /\ offset <= pauseAt /\ pauseAt <= elapsed
           /\ pauseAt - offset = active
    /\ mode = "TIME" /\ offset # 0 =>
           /\ phase \in {"PURGE_CONFIRM", "PREDICTIVE", "TIMEOUT", "IDLE"}
           /\ snap \in {"none", "PREDICTIVE", "TIMEOUT"}

\* The phases of a grind without a result.
OpenPhases == (Preparing \cup Dosing \cup {"PURGE_CONFIRM"}) \ {"TIME_ADDITIONAL_PULSE"}
OverlappedResultInv == ResultMatchesEnding /\ (snap \in OpenPhases => result = "UNKNOWN")

CoresInv == /\ CoresTypeOK /\ PassInv /\ QuietInv /\ OverlappedClockInv
            /\ PulseHistoryInBounds /\ OverlappedResultInv
=============================================================================
