------------------------ MODULE GrindControllerProofs ------------------------
(***************************************************************************)
(* Proofs about GrindController and GrindCores for every value of their    *)
(* constants.  IInv is inductive for the controller: each of its parts is  *)
(* preserved by every step, given the parts proved before it.  The safety  *)
(* properties the model checker checks on a small instance follow from     *)
(* IInv, and with it every step of the controller is a step of             *)
(* GrindSession.  CoresInv is inductive for the two cores, whose passes    *)
(* and handlers overlap; the lemmas about a case of update() are stated    *)
(* for any phase it was dispatched on and serve both.                      *)
(***************************************************************************)
EXTENDS GrindCores, TLAPS

-----------------------------------------------------------------------------
\* Types.

\* A part of the state that is left alone keeps its types.
LEMMA UnchangedTypes ==
    /\ SessionTypes /\ UNCHANGED session => SessionTypes'
    /\ PulsesTypes /\ UNCHANGED pulses => PulsesTypes'
    /\ MotorTypes /\ UNCHANGED motor => MotorTypes'
    /\ ClockTypes /\ UNCHANGED clock => ClockTypes'
    /\ JournalTypes /\ UNCHANGED journal => JournalTypes'
    /\ OutcomeTypes /\ UNCHANGED outcome /\ UNCHANGED phase => OutcomeTypes'
BY DEF SessionTypes, PulsesTypes, MotorTypes, ClockTypes, JournalTypes, OutcomeTypes,
       session, pulses, motor, clock, journal, outcome

LEMMA MotorOperations ==
    ASSUME MotorTypes,
           MotorStart \/ MotorStop \/ MotorPulse \/ MotorAckPulse \/ MotorStartUnlessGrinding
    PROVE  MotorTypes'
BY DEF MotorTypes, MotorStart, MotorStop, MotorPulse, MotorAckPulse,
       MotorStartUnlessGrinding, motor

LEMMA PhaseSwitches ==
    ASSUME OutcomeTypes, NEW new \in Phase, NEW r \in Result, SwitchPhase(new, r),
           UNCHANGED timeoutPhase \/ timeoutPhase' \in Phase
    PROVE  OutcomeTypes'
BY DEF OutcomeTypes, SwitchPhase, Result

LEMMA Gotos ==
    ASSUME OutcomeTypes, NEW new \in Phase, Goto(new)
    PROVE  OutcomeTypes'
BY PhaseSwitches DEF Goto, OutcomeTypes

\* A case of update() keeps the types, whichever phase p it was dispatched on.
LEMMA CaseTypes ==
    ASSUME TypeOK, NEW p, Case(p), stage' = "guards"
    PROVE  TypeOK'
<1> USE UnchangedTypes, MotorOperations, PhaseSwitches, Gotos
    DEF TypeOK, Phase, Preparing, Dosing, Terminal
<1>1. CASE Initializing(p)
  BY <1>1 DEF Initializing
<1>2. CASE Setup(p)
  BY <1>2 DEF Setup, JournalTypes
<1>3. CASE Taring(p)
  BY <1>3 DEF Taring
<1>4. CASE TareConfirm(p)
  BY <1>4 DEF TareConfirm
<1>5. CASE Prime(p)
  BY <1>5 DEF Prime
<1>6. CASE PrimeSettlingHold(p)
  BY <1>6 DEF PrimeSettlingHold, ClockTypes
<1>7. CASE PrimeSettlingGrind(p)
  BY <1>7 DEF PrimeSettlingGrind
<1>8. CASE Predictive(p)
  BY <1>8 DEF Predictive
<1>9. CASE PulseDecisionDone(p)
  BY <1>9 DEF PulseDecisionDone
<1>10. CASE PulseDecisionPulse(p)
  BY <1>10 DEF PulseDecisionPulse, PulsesLeft, PulsesTypes
<1>11. CASE PulseExecute(p)
  BY <1>11 DEF PulseExecute
<1>12. CASE PulseSettling(p)
  BY <1>12 DEF PulseSettling
<1>13. CASE TimeGrinding(p)
  BY <1>13 DEF TimeGrinding
<1>14. CASE FinalMeasurement(p)
  BY <1>14 DEF FinalMeasurement, SessionResult, FinalWeight, Result, OutcomeTypes
<1>15. CASE AdditionalPulse(p)
  BY <1>15 DEF AdditionalPulse, SessionResult, Result, OutcomeTypes
<1>16. CASE QueueSessionEnd(p)
  BY QueueAssumption, <1>16 DEF QueueSessionEnd, EnqueueEnd, JournalTypes
<1>17. CASE Wait(p)
  BY <1>17 DEF Wait
<1> QED  BY <1>1, <1>2, <1>3, <1>4, <1>5, <1>6, <1>7, <1>8, <1>9, <1>10, <1>11,
      <1>12, <1>13, <1>14, <1>15, <1>16, <1>17 DEF Case

\* So do the failsafes.
LEMMA GuardTypes ==
    ASSUME TypeOK, UpdateGuards
    PROVE  TypeOK'
BY UnchangedTypes, MotorOperations, PhaseSwitches
DEF TypeOK, Phase, Preparing, Dosing, Terminal, UpdateGuards, NegativeWeight, GuardTimeout,
    GuardPass, MustTimeOut, Abort, OutcomeTypes, Result

LEMMA StartTypes ==
    ASSUME TypeOK, NEW m \in {"WEIGHT", "TIME"}, NEW pm \in {"PRIME", "PURGE"}, StartGrind(m, pm)
    PROVE  TypeOK'
<1> USE UnchangedTypes DEF TypeOK, Phase, Preparing
<1>1. OutcomeTypes'  BY DEF StartGrind, SwitchPhase, OutcomeTypes, Result
<1>2. SessionTypes'  BY DEF StartGrind, SessionTypes
<1>3. PulsesTypes'  BY PulsesAssumption DEF StartGrind, PulsesTypes
<1>4. ClockTypes' /\ JournalTypes'  BY DEF StartGrind, ClockTypes, JournalTypes, NoPause, EndFlagReset
<1> QED  BY <1>1, <1>2, <1>3, <1>4 DEF StartGrind

LEMMA EnvironmentTypes ==
    ASSUME TypeOK, Environment
    PROVE  TypeOK'
<1> USE UnchangedTypes DEF TypeOK
<1>1. CASE Tick
  BY <1>1 DEF Tick, ClockTypes, NoPause
<1>2. CASE PulseEnds
  BY <1>2 DEF PulseEnds, MotorTypes
<1>3. CASE TareDone
  BY <1>3 DEF TareDone
<1>4. CASE EndSession
  <2>1. ends' \in 0..FlashQueueSize  BY QueueAssumption, <1>4 DEF EndSession, JournalTypes
  <2>2. JournalTypes'  BY <1>4, <2>1 DEF EndSession, JournalTypes
  <2> QED  BY <1>4, <2>2 DEF EndSession
<1> QED  BY <1>1, <1>2, <1>3, <1>4 DEF Environment

\* Every step keeps the types.
LEMMA TypeStep ==
    ASSUME TypeOK, ClockInv, [Next]_vars
    PROVE  TypeOK'
<1> USE UnchangedTypes, MotorOperations, PhaseSwitches, Gotos
    DEF TypeOK, Phase, Preparing, Dosing, Terminal
<1>1. CASE Update
  BY <1>1, CaseTypes, GuardTypes DEF Update, UpdateCase
<1>2. CASE stage = "case" /\ UiCall
  <2>1. CASE \E m \in {"WEIGHT", "TIME"}, pm \in {"PRIME", "PURGE"} : StartGrind(m, pm)
    BY <2>1, StartTypes
  <2>2. CASE AcknowledgePhase
    BY <1>2, <2>2 DEF AcknowledgePhase, SessionTypes
  <2>3. CASE ReturnToIdle
    BY <1>2, <2>3 DEF ReturnToIdle, LeaveSession, SessionTypes
  <2>4. CASE StopGrind
    BY <1>2, <2>4 DEF StopGrind, LeaveSession, SessionTypes, JournalTypes
  <2>5. CASE ContinueFromPurge
    <3>1. ClockTypes'  BY <2>5 DEF ContinueFromPurge, ResumeClock, ClockTypes, ClockInv, NoPause
    <3> QED  BY <1>2, <2>5, <3>1 DEF ContinueFromPurge
  <2>6. CASE StartAdditionalPulse
    BY PulsesAssumption, <1>2, <2>6 DEF StartAdditionalPulse, CanPulse, PulsesTypes, ClockTypes
  <2> QED  BY <1>2, <2>1, <2>2, <2>3, <2>4, <2>5, <2>6 DEF UiCall
<1>3. CASE Environment
  BY <1>3, EnvironmentTypes
<1>4. CASE UNCHANGED vars
  BY <1>4 DEF vars
<1> QED  BY <1>1, <1>2, <1>3, <1>4 DEF Next

-----------------------------------------------------------------------------
\* The other parts of the invariant.

\* The phase, the mode and the strategy fit each other.
LEMMA SessionStep ==
    ASSUME SessionInv, SessionTypes, [Next]_vars
    PROVE  SessionInv'
<1> USE DEF Preparing, Dosing, Terminal, Goto, SwitchPhase, SessionInv, SessionTypes,
            session, WeightPhases, TimePhases
<1>1. ASSUME phase \notin {"IDLE", "PURGE_CONFIRM"}, stage' = "guards", Case(phase)
     PROVE  SessionInv'
  <2>1. CASE Initializing(phase) \/ Setup(phase) \/ Taring(phase) \/
             PrimeSettlingHold(phase) \/ PrimeSettlingGrind(phase)
    BY <1>1, <2>1 DEF Initializing, Setup, Taring, PrimeSettlingHold, PrimeSettlingGrind
  <2>2. CASE TareConfirm(phase)
    BY <1>1, <2>2 DEF TareConfirm
  <2>3. CASE Prime(phase)
    BY <1>1, <2>3 DEF Prime
  <2>4. CASE Predictive(phase) \/ PulseDecisionDone(phase) \/ PulseDecisionPulse(phase) \/
             PulseExecute(phase) \/ PulseSettling(phase)
    BY <1>1, <2>4 DEF Predictive, PulseDecisionDone, PulseDecisionPulse, PulsesLeft,
      PulseExecute, PulseSettling
  <2>5. CASE TimeGrinding(phase)
    BY <1>1, <2>5 DEF TimeGrinding
  <2>6. CASE FinalMeasurement(phase) \/ AdditionalPulse(phase)
    BY <1>1, <2>6 DEF FinalMeasurement, AdditionalPulse
  <2>7. CASE QueueSessionEnd(phase) \/ Wait(phase)
    BY <1>1, <2>7 DEF QueueSessionEnd, EnqueueEnd, Wait
  <2> QED  BY <1>1, <2>1, <2>2, <2>3, <2>4, <2>5, <2>6, <2>7 DEF Case
<1>2. CASE UpdateGuards
  BY <1>2 DEF UpdateGuards, NegativeWeight, GuardTimeout, GuardPass, MustTimeOut, Abort
<1>3. CASE stage = "case" /\ UiCall
  <2>1. CASE \E m \in {"WEIGHT", "TIME"}, pm \in {"PRIME", "PURGE"} : StartGrind(m, pm)
    BY <1>3, <2>1 DEF StartGrind, EndFlagReset
  <2>2. CASE AcknowledgePhase
    BY <1>3, <2>2 DEF AcknowledgePhase
  <2>3. CASE ReturnToIdle
    BY <1>3, <2>3 DEF ReturnToIdle, LeaveSession
  <2>4. CASE StopGrind
    BY <1>3, <2>4 DEF StopGrind, LeaveSession
  <2>5. CASE ContinueFromPurge
    BY <1>3, <2>5 DEF ContinueFromPurge, ResumeClock
  <2>6. CASE StartAdditionalPulse
    BY <1>3, <2>6 DEF StartAdditionalPulse, CanPulse
  <2> QED  BY <1>3, <2>1, <2>2, <2>3, <2>4, <2>5, <2>6 DEF UiCall
<1>4. CASE Environment
  BY <1>4 DEF Environment, Tick, PulseEnds, TareDone, EndSession
<1>5. CASE UNCHANGED vars
  BY <1>5 DEF vars
<1> QED  BY <1>1, <1>2, <1>3, <1>4, <1>5 DEF Next, Update, UpdateCase

\* The motor's flags fit its output, which is on only in the phases that dispense.
LEMMA MotorStep ==
    ASSUME MotorInv, MotorRunsTowardsTarget, MotorTypes, SessionInv, [Next]_vars
    PROVE  (MotorInv /\ MotorRunsTowardsTarget)'
<1> USE OutcomeAssumption
        DEF Preparing, Dosing, Terminal, Goto, SwitchPhase, MotorInv,
            MotorRunsTowardsTarget, MotorTypes, MotorPhases, motor
<1>1. ASSUME phase \notin {"IDLE", "PURGE_CONFIRM"}, stage' = "guards", Case(phase)
     PROVE  (MotorInv /\ MotorRunsTowardsTarget)'
  <2>1. CASE Initializing(phase)
    BY <1>1, <2>1 DEF Initializing
  <2>2. CASE Setup(phase)
    BY <1>1, <2>2 DEF Setup
  <2>3. CASE Taring(phase)
    BY <1>1, <2>3 DEF Taring
  <2>4. CASE TareConfirm(phase)
    BY <1>1, <2>4 DEF TareConfirm, MotorStartUnlessGrinding, MotorStart
  <2>5. CASE Prime(phase)
    BY <1>1, <2>5 DEF Prime, MotorStartUnlessGrinding, MotorStart, MotorStop
  <2>6. CASE PrimeSettlingHold(phase)
    BY <1>1, <2>6 DEF PrimeSettlingHold
  <2>7. CASE PrimeSettlingGrind(phase)
    BY <1>1, <2>7 DEF PrimeSettlingGrind, MotorStart
  <2>8. CASE Predictive(phase)
    BY <1>1, <2>8 DEF Predictive, MotorStop
  <2>9. CASE PulseDecisionDone(phase)
    BY <1>1, <2>9 DEF PulseDecisionDone
  <2>10. CASE PulseDecisionPulse(phase)
    BY <1>1, <2>10 DEF PulseDecisionPulse, MotorPulse, PulsesLeft
  <2>11. CASE PulseExecute(phase)
    BY <1>1, <2>11 DEF PulseExecute, PulseComplete, MotorAckPulse
  <2>12. CASE PulseSettling(phase)
    BY <1>1, <2>12 DEF PulseSettling
  <2>13. CASE TimeGrinding(phase)
    BY <1>1, <2>13 DEF TimeGrinding, MotorStop
  <2>14. CASE FinalMeasurement(phase)
    BY <1>1, <2>14 DEF FinalMeasurement
  <2>15. CASE AdditionalPulse(phase)
    BY <1>1, <2>15 DEF AdditionalPulse, PulseComplete, MotorAckPulse
  <2>16. CASE QueueSessionEnd(phase)
    BY <1>1, <2>16 DEF QueueSessionEnd, EnqueueEnd
  <2>17. CASE Wait(phase)
    BY <1>1, <2>17 DEF Wait, PulseComplete
  <2> QED  BY <1>1, <2>1, <2>2, <2>3, <2>4, <2>5, <2>6, <2>7, <2>8, <2>9, <2>10, <2>11,
        <2>12, <2>13, <2>14, <2>15, <2>16, <2>17 DEF Case
<1>2. CASE UpdateGuards
  <2>1. CASE GuardPass
    BY <1>2, <2>1 DEF UpdateGuards, GuardPass
  <2>2. CASE NegativeWeight \/ GuardTimeout
    BY <1>2, <2>2 DEF NegativeWeight, GuardTimeout, Abort, MotorStop
  <2> QED  BY <1>2, <2>1, <2>2 DEF UpdateGuards
<1>3. CASE stage = "case" /\ UiCall
  <2>1. CASE \E m \in {"WEIGHT", "TIME"}, pm \in {"PRIME", "PURGE"} : StartGrind(m, pm)
    BY <1>3, <2>1 DEF StartGrind, EndFlagReset
  <2>2. CASE AcknowledgePhase
    BY <1>3, <2>2 DEF AcknowledgePhase
  <2>3. CASE ReturnToIdle
    BY <1>3, <2>3 DEF ReturnToIdle, LeaveSession
  <2>4. CASE StopGrind
    BY <1>3, <2>4 DEF StopGrind, LeaveSession, MotorStop
  <2>5. CASE ContinueFromPurge
    BY <1>3, <2>5 DEF ContinueFromPurge, MotorStart, ResumeClock
  <2>6. CASE StartAdditionalPulse
    BY <1>3, <2>6 DEF StartAdditionalPulse, CanPulse, MotorPulse
  <2> QED  BY <1>3, <2>1, <2>2, <2>3, <2>4, <2>5, <2>6 DEF UiCall
<1>4. CASE Environment
  <2>1. CASE Tick
    BY <1>4, <2>1 DEF Tick
  <2>2. CASE PulseEnds
    BY <1>4, <2>2 DEF PulseEnds
  <2>3. CASE TareDone
    BY <1>4, <2>3 DEF TareDone
  <2>4. CASE EndSession
    BY <1>4, <2>4 DEF EndSession
  <2> QED  BY <1>4, <2>1, <2>2, <2>3, <2>4 DEF Environment
<1>5. CASE UNCHANGED vars
  BY <1>5 DEF vars
<1> QED  BY <1>1, <1>2, <1>3, <1>4, <1>5 DEF Next, Update, UpdateCase

\* The pause is measured inside the session, and a timed session has no offset.
LEMMA ClockStep ==
    ASSUME ClockInv, ClockTypes, SessionInv, [Next]_vars
    PROVE  ClockInv'
<1> USE DEF Preparing, Dosing, Terminal, Goto, SwitchPhase, ClockInv, ClockTypes,
            SessionInv, WeightPhases, clock, session, NoPause
<1>1. ASSUME phase \notin {"IDLE", "PURGE_CONFIRM"}, stage' = "guards", Case(phase)
     PROVE  ClockInv'
  <2>1. CASE Initializing(phase) \/ Setup(phase) \/ Taring(phase)
    BY <1>1, <2>1 DEF Initializing, Setup, Taring
  <2>2. CASE TareConfirm(phase)
    BY <1>1, <2>2 DEF TareConfirm
  <2>3. CASE Prime(phase)
    BY <1>1, <2>3 DEF Prime
  <2>4. CASE PrimeSettlingGrind(phase) \/ PrimeSettlingHold(phase)
    BY <1>1, <2>4 DEF PrimeSettlingGrind, PrimeSettlingHold
  <2>5. CASE Predictive(phase) \/ PulseDecisionDone(phase) \/ PulseDecisionPulse(phase) \/
             PulseExecute(phase) \/ PulseSettling(phase)
    BY <1>1, <2>5 DEF Predictive, PulseDecisionDone, PulseDecisionPulse, PulsesLeft,
      PulseExecute, PulseSettling
  <2>6. CASE TimeGrinding(phase) \/ FinalMeasurement(phase) \/ AdditionalPulse(phase) \/
             QueueSessionEnd(phase) \/ Wait(phase)
    BY <1>1, <2>6 DEF TimeGrinding, FinalMeasurement, AdditionalPulse, QueueSessionEnd,
      EnqueueEnd, Wait
  <2> QED  BY <1>1, <2>1, <2>2, <2>3, <2>4, <2>5, <2>6 DEF Case
<1>2. CASE UpdateGuards
  BY <1>2 DEF UpdateGuards, NegativeWeight, GuardTimeout, GuardPass, MustTimeOut, Abort
<1>3. CASE stage = "case" /\ UiCall
  <2>1. CASE \E m \in {"WEIGHT", "TIME"}, pm \in {"PRIME", "PURGE"} : StartGrind(m, pm)
    BY <1>3, <2>1 DEF StartGrind, EndFlagReset
  <2>2. CASE AcknowledgePhase
    BY <1>3, <2>2 DEF AcknowledgePhase
  <2>3. CASE ReturnToIdle
    BY <1>3, <2>3 DEF ReturnToIdle, LeaveSession
  <2>4. CASE StopGrind
    BY <1>3, <2>4 DEF StopGrind, LeaveSession
  <2>5. CASE ContinueFromPurge
    BY <1>3, <2>5 DEF ContinueFromPurge, ResumeClock
  <2>6. CASE StartAdditionalPulse
    <3>1. offset = 0  BY <2>6 DEF StartAdditionalPulse, CanPulse
    <3> QED  BY <2>6, <3>1 DEF StartAdditionalPulse
  <2> QED  BY <1>3, <2>1, <2>2, <2>3, <2>4, <2>5, <2>6 DEF UiCall
<1>4. CASE Environment
  <2>1. CASE Tick
    BY <1>4, <2>1 DEF Tick
  <2>2. CASE PulseEnds \/ TareDone \/ EndSession
    BY <1>4, <2>2 DEF PulseEnds, TareDone, EndSession
  <2> QED  BY <1>4, <2>1, <2>2 DEF Environment
<1>5. CASE UNCHANGED vars
  BY <1>5 DEF vars
<1> QED  BY <1>1, <1>2, <1>3, <1>4, <1>5 DEF Next, Update, UpdateCase

\* A log that waits for its end has a request in the queue.
LEMMA JournalStep ==
    ASSUME JournalInv, JournalTypes, [Next]_vars
    PROVE  JournalInv'
<1> USE QueueAssumption
        DEF Preparing, Dosing, Terminal, Goto, SwitchPhase, JournalInv, JournalTypes,
            journal
<1>1. ASSUME phase \notin {"IDLE", "PURGE_CONFIRM"}, stage' = "guards", Case(phase)
     PROVE  JournalInv'
  <2>1. CASE Setup(phase)
    BY <1>1, <2>1 DEF Setup
  <2>2. CASE QueueSessionEnd(phase)
    BY <1>1, <2>2 DEF QueueSessionEnd, EnqueueEnd
  <2>3. CASE Initializing(phase) \/ Taring(phase) \/ TareConfirm(phase) \/ Prime(phase)
    BY <1>1, <2>3 DEF Initializing, Taring, TareConfirm, Prime
  <2>4. CASE PrimeSettlingHold(phase) \/ PrimeSettlingGrind(phase) \/ Wait(phase)
    BY <1>1, <2>4 DEF PrimeSettlingHold, PrimeSettlingGrind, Wait
  <2>5. CASE Predictive(phase) \/ PulseDecisionDone(phase) \/ PulseDecisionPulse(phase) \/
             PulseExecute(phase) \/ PulseSettling(phase)
    BY <1>1, <2>5 DEF Predictive, PulseDecisionDone, PulseDecisionPulse, PulsesLeft,
      PulseExecute, PulseSettling
  <2>6. CASE TimeGrinding(phase)
    BY <1>1, <2>6 DEF TimeGrinding
  <2>7. CASE FinalMeasurement(phase) \/ AdditionalPulse(phase)
    <3>1. phase' \in Terminal /\ UNCHANGED journal  BY <1>1, <2>7 DEF AdditionalPulse, FinalMeasurement
    <3> QED  BY <3>1
  <2> QED  BY <1>1, <2>1, <2>2, <2>3, <2>4, <2>5, <2>6, <2>7 DEF Case
<1>2. CASE UpdateGuards
  BY <1>2 DEF UpdateGuards, NegativeWeight, GuardTimeout, GuardPass, MustTimeOut, Abort
<1>3. CASE stage = "case" /\ UiCall
  <2>1. CASE \E m \in {"WEIGHT", "TIME"}, pm \in {"PRIME", "PURGE"} : StartGrind(m, pm)
    BY <1>3, <2>1 DEF StartGrind, EndFlagReset
  <2>2. CASE AcknowledgePhase \/ ReturnToIdle \/ StopGrind \/ ContinueFromPurge \/
             StartAdditionalPulse
    BY <1>3, <2>2 DEF AcknowledgePhase, ReturnToIdle, LeaveSession, StopGrind,
      ContinueFromPurge, ResumeClock, StartAdditionalPulse, CanPulse
  <2> QED  BY <1>3, <2>1, <2>2 DEF UiCall
<1>4. CASE Environment
  <2>1. CASE EndSession
    BY <1>4, <2>1 DEF EndSession
  <2>2. CASE Tick \/ PulseEnds \/ TareDone
    BY <1>4, <2>2 DEF Tick, PulseEnds, TareDone
  <2> QED  BY <1>4, <2>1, <2>2 DEF Environment
<1>5. CASE UNCHANGED vars
  BY <1>5 DEF vars
<1> QED  BY <1>1, <1>2, <1>3, <1>4, <1>5 DEF Next, Update, UpdateCase

\* A correction pulse takes one of the entries that are left.
LEMMA CasePulses ==
    ASSUME PulseHistoryInBounds, PulsesTypes, NEW p, Case(p)
    PROVE  PulseHistoryInBounds'
<1> USE PulsesAssumption
        DEF Preparing, Dosing, Terminal, Goto, SwitchPhase, PulseHistoryInBounds,
            PulsesTypes, pulses
<1>1. CASE PulseDecisionPulse(p)
  BY <1>1 DEF PulseDecisionPulse, PulsesLeft
<1>2. CASE Initializing(p) \/ Setup(p) \/ Taring(p) \/ TareConfirm(p) \/
           Prime(p) \/ PrimeSettlingHold(p) \/ PrimeSettlingGrind(p) \/
           Wait(p)
  BY <1>2 DEF Initializing, Setup, Taring, TareConfirm, Prime, PrimeSettlingHold,
    PrimeSettlingGrind, Wait
<1>3. CASE Predictive(p) \/ PulseDecisionDone(p) \/ PulseExecute(p) \/
           PulseSettling(p) \/ TimeGrinding(p) \/ FinalMeasurement(p) \/
           AdditionalPulse(p) \/ QueueSessionEnd(p)
  BY <1>3 DEF Predictive, PulseDecisionDone, PulseExecute, PulseSettling,
    TimeGrinding, FinalMeasurement, AdditionalPulse, QueueSessionEnd, EnqueueEnd
<1> QED  BY <1>1, <1>2, <1>3 DEF Case

LEMMA PulsesStep ==
    ASSUME PulseHistoryInBounds, PulsesTypes, [Next]_vars
    PROVE  PulseHistoryInBounds'
<1> USE PulsesAssumption
        DEF Preparing, Dosing, Terminal, Goto, SwitchPhase, PulseHistoryInBounds,
            PulsesTypes, pulses
<1>1. CASE UpdateCase
  BY <1>1, CasePulses DEF UpdateCase
<1>2. CASE UpdateGuards
  BY <1>2 DEF UpdateGuards, NegativeWeight, GuardTimeout, GuardPass, MustTimeOut, Abort
<1>3. CASE stage = "case" /\ UiCall
  <2>1. CASE \E m \in {"WEIGHT", "TIME"}, pm \in {"PRIME", "PURGE"} : StartGrind(m, pm)
    BY <1>3, <2>1 DEF StartGrind, EndFlagReset
  <2>2. CASE AcknowledgePhase \/ ReturnToIdle \/ StopGrind \/ ContinueFromPurge \/
             StartAdditionalPulse
    BY <1>3, <2>2 DEF AcknowledgePhase, ReturnToIdle, LeaveSession, StopGrind,
      ContinueFromPurge, ResumeClock, StartAdditionalPulse, CanPulse
  <2> QED  BY <1>3, <2>1, <2>2 DEF UiCall
<1>4. CASE Environment
  BY <1>4 DEF Environment, Tick, PulseEnds, TareDone, EndSession
<1>5. CASE UNCHANGED vars
  BY <1>5 DEF vars
<1> QED  BY <1>1, <1>2, <1>3, <1>4, <1>5 DEF Next, Update

\* A grind that is under way has no result yet.
LEMMA CaseResult ==
    ASSUME ResultMatchesEnding, PulsesTypes, OutcomeTypes, PulseHistoryInBounds,
           NEW p, Case(p), p \in OpenPhases => result = "UNKNOWN"
    PROVE  ResultMatchesEnding'
<1> USE PulsesAssumption
        DEF Preparing, Dosing, Terminal, Goto, SwitchPhase, ResultMatchesEnding, Result,
            PulsesTypes, PulseHistoryInBounds, OutcomeTypes, OpenPhases, pulses, outcome
<1>1. CASE Initializing(p)
  BY <1>1 DEF Initializing
<1>2. CASE Setup(p)
  BY <1>2 DEF Setup
<1>3. CASE Taring(p)
  BY <1>3 DEF Taring
<1>4. CASE TareConfirm(p)
  BY <1>4 DEF TareConfirm
<1>5. CASE Prime(p)
  BY <1>5 DEF Prime
<1>6. CASE PrimeSettlingHold(p)
  BY <1>6 DEF PrimeSettlingHold
<1>7. CASE PrimeSettlingGrind(p)
  BY <1>7 DEF PrimeSettlingGrind
<1>8. CASE Predictive(p)
  BY <1>8 DEF Predictive
<1>9. CASE PulseDecisionDone(p)
  BY <1>9 DEF PulseDecisionDone
<1>10. CASE PulseDecisionPulse(p)
  BY <1>10 DEF PulseDecisionPulse, PulsesLeft
<1>11. CASE PulseExecute(p)
  BY <1>11 DEF PulseExecute
<1>12. CASE PulseSettling(p)
  BY <1>12 DEF PulseSettling
<1>13. CASE TimeGrinding(p)
  BY <1>13 DEF TimeGrinding
<1>14. CASE FinalMeasurement(p)
  <2>1. \A w : /\ SessionResult(w) \in {"SUCCESS", "OVERSHOOT", "MAX_PULSES"}
               /\ SessionResult(w) = "MAX_PULSES" => attempts = MaxPulseAttempts
    BY DEF SessionResult
  <2> QED  BY <1>14, <2>1 DEF FinalMeasurement
<1>15. CASE AdditionalPulse(p)
  BY <1>15 DEF AdditionalPulse, SessionResult
<1>16. CASE QueueSessionEnd(p)
  BY <1>16 DEF QueueSessionEnd, EnqueueEnd
<1>17. CASE Wait(p)
  BY <1>17 DEF Wait
<1> QED  BY <1>1, <1>2, <1>3, <1>4, <1>5, <1>6, <1>7, <1>8, <1>9, <1>10, <1>11,
      <1>12, <1>13, <1>14, <1>15, <1>16, <1>17 DEF Case

LEMMA ResultStep ==
    ASSUME ResultMatchesEnding, PulsesTypes, OutcomeTypes, PulseHistoryInBounds, [Next]_vars
    PROVE  ResultMatchesEnding'
<1> USE PulsesAssumption
        DEF Preparing, Dosing, Terminal, Goto, SwitchPhase, ResultMatchesEnding, Result,
            PulsesTypes, PulseHistoryInBounds, OutcomeTypes, pulses, outcome
<1>1. CASE UpdateCase
  <2>1. phase \in OpenPhases => result = "UNKNOWN"
    BY DEF OpenPhases
  <2> QED  BY <1>1, <2>1, CaseResult DEF UpdateCase
<1>2. CASE UpdateGuards
  BY <1>2 DEF UpdateGuards, NegativeWeight, GuardTimeout, GuardPass, MustTimeOut, Abort
<1>3. CASE stage = "case" /\ UiCall
  <2>1. CASE \E m \in {"WEIGHT", "TIME"}, pm \in {"PRIME", "PURGE"} : StartGrind(m, pm)
    BY <1>3, <2>1 DEF StartGrind, EndFlagReset
  <2>2. CASE AcknowledgePhase
    BY <1>3, <2>2 DEF AcknowledgePhase
  <2>3. CASE ReturnToIdle
    BY <1>3, <2>3 DEF ReturnToIdle, LeaveSession
  <2>4. CASE StopGrind
    BY <1>3, <2>4 DEF StopGrind, LeaveSession
  <2>5. CASE ContinueFromPurge
    BY <1>3, <2>5 DEF ContinueFromPurge, ResumeClock
  <2>6. CASE StartAdditionalPulse
    BY <1>3, <2>6 DEF StartAdditionalPulse, CanPulse
  <2> QED  BY <1>3, <2>1, <2>2, <2>3, <2>4, <2>5, <2>6 DEF UiCall
<1>4. CASE Environment
  BY <1>4 DEF Environment, Tick, PulseEnds, TareDone, EndSession
<1>5. CASE UNCHANGED vars
  BY <1>5 DEF vars
<1> QED  BY <1>1, <1>2, <1>3, <1>4, <1>5 DEF Next, Update

-----------------------------------------------------------------------------
\* The invariant.

LEMMA InitInv == Init => IInv
<1> SUFFICES ASSUME Init PROVE IInv
  OBVIOUS
<1> USE PulsesAssumption, ClockAssumption, QueueAssumption
    DEF Init, Preparing, Dosing, Terminal, NoPause
<1>1. OutcomeTypes /\ SessionTypes /\ MotorTypes
  BY DEF OutcomeTypes, SessionTypes, MotorTypes, Phase, Result
<1>2. PulsesTypes /\ ClockTypes /\ JournalTypes
  <2>1. extraPulses \in 0..MaxExtraPulses /\ ends \in 0..FlashQueueSize
    OBVIOUS
  <2> QED  BY <2>1 DEF PulsesTypes, ClockTypes, JournalTypes
<1>3. TypeOK
  BY <1>1, <1>2 DEF TypeOK
<1>4. SessionInv /\ MotorInv /\ MotorRunsTowardsTarget
  BY DEF SessionInv, WeightPhases, TimePhases, MotorInv, MotorPhases, MotorRunsTowardsTarget
<1>5. ClockInv /\ JournalInv
  BY DEF ClockInv, JournalInv
<1>6. PulseHistoryInBounds /\ ResultMatchesEnding
  BY DEF PulseHistoryInBounds, ResultMatchesEnding
<1> QED  BY <1>3, <1>4, <1>5, <1>6 DEF IInv

LEMMA StepInv == IInv /\ [Next]_vars => IInv'
<1> SUFFICES ASSUME IInv, [Next]_vars PROVE IInv'
  OBVIOUS
<1>1. TypeOK'  BY TypeStep DEF IInv
<1>2. SessionInv'  BY SessionStep DEF IInv, TypeOK
<1>3. (MotorInv /\ MotorRunsTowardsTarget)'  BY MotorStep DEF IInv, TypeOK
<1>4. ClockInv'  BY ClockStep DEF IInv, TypeOK
<1>5. JournalInv'  BY JournalStep DEF IInv, TypeOK
<1>6. PulseHistoryInBounds'  BY PulsesStep DEF IInv, TypeOK
<1>7. ResultMatchesEnding'  BY ResultStep DEF IInv, TypeOK
<1> QED  BY <1>1, <1>2, <1>3, <1>4, <1>5, <1>6, <1>7 DEF IInv

\* IInv holds in every reachable state of the controller.
THEOREM Invariance == Spec => []IInv
<1> QED  BY InitInv, StepInv, PTL DEF Spec

-----------------------------------------------------------------------------
\* The safety properties.

\* Every variable of the controller keeps its type.
THEOREM TypeCorrectness == Spec => []TypeOK
<1>1. IInv => TypeOK  BY DEF IInv
<1> QED  BY <1>1, Invariance, PTL

\* Whatever ends a dispensing phase, the motor is off and Grinder knows it.
THEOREM MotorSafety == Spec => []MotorOffWhenNotDispensing
<1>1. IInv => MotorOffWhenNotDispensing  BY DEF IInv, MotorInv, MotorOffWhenNotDispensing
<1> QED  BY <1>1, Invariance, PTL

\* A driver that can start the motor has it running whenever update() waits
\* for its effect.
THEOREM MotorProgress == Spec => []MotorRunsTowardsTarget
<1>1. IInv => MotorRunsTowardsTarget  BY DEF IInv
<1> QED  BY <1>1, Invariance, PTL

\* pulse_history is never indexed past its end.
THEOREM PulseBound == Spec => []PulseHistoryInBounds
<1>1. IInv => PulseHistoryInBounds  BY DEF IInv
<1> QED  BY <1>1, Invariance, PTL

\* check_timeout() measures the active time, and its subtraction never wraps.
THEOREM TimeoutClock == Spec => []TimeoutCountsActiveTime
<1>1. IInv => TimeoutCountsActiveTime  BY DEF IInv, ClockInv, TimeoutCountsActiveTime
<1> QED  BY <1>1, Invariance, PTL

\* The result agrees with how the grind ended.
THEOREM ResultCorrectness == Spec => []ResultMatchesEnding
<1>1. IInv => ResultMatchesEnding  BY DEF IInv
<1> QED  BY <1>1, Invariance, PTL

\* The request to end a log is never lost, also when the queue is full.
THEOREM EndArrives == Spec => []RequestedEndArrives
<1>1. IInv => RequestedEndArrives  BY DEF IInv, JournalInv, RequestedEndArrives
<1> QED  BY <1>1, Invariance, PTL

\* The 60 s limit never ends a purge confirmation.
THEOREM NoTimeoutWhileHeld == Spec => ConfirmationNotTimedOut
<1>1. ASSUME [Next]_vars
      PROVE  [phase = "PURGE_CONFIRM" /\ phase' = "TIMEOUT" => result' = "ERROR"]_vars
  <2> SUFFICES ASSUME phase = "PURGE_CONFIRM", phase' = "TIMEOUT" PROVE result' = "ERROR"
    OBVIOUS
  <2>1. CASE UpdateCase
    BY <2>1 DEF UpdateCase
  <2>2. CASE UpdateGuards
    BY <2>2 DEF UpdateGuards, NegativeWeight, GuardTimeout, GuardPass, MustTimeOut, Abort,
      SwitchPhase
  <2>3. CASE UiCall
    BY <2>3 DEF UiCall, StartGrind, AcknowledgePhase, ReturnToIdle, StopGrind,
      ContinueFromPurge, StartAdditionalPulse, CanPulse, Goto, SwitchPhase, Terminal
  <2>4. CASE Environment
    BY <2>4 DEF Environment, Tick, PulseEnds, TareDone, EndSession
  <2>5. CASE UNCHANGED vars
    BY <2>5 DEF vars
  <2> QED  BY <1>1, <2>1, <2>2, <2>3, <2>4, <2>5 DEF Next, Update
<1> QED  BY <1>1, PTL DEF Spec, ConfirmationNotTimedOut

-----------------------------------------------------------------------------
\* The controller implements GrindSession.

\* The phases that may follow each other.
PhaseMove ==
    \/ phase \in Preparing /\ phase' \in Preparing \cup Dosing \cup {"TIMEOUT", "IDLE"}
    \/ /\ phase \in Dosing
       /\ phase' \in Dosing \cup {"PURGE_CONFIRM", "COMPLETED", "TIMEOUT", "IDLE"}
    \/ phase = "PURGE_CONFIRM" /\ phase' \in {"PURGE_CONFIRM", "PREDICTIVE", "TIMEOUT", "IDLE"}
    \/ phase = "COMPLETED" /\ phase' \in {"COMPLETED", "TIME_ADDITIONAL_PULSE", "IDLE"}
    \/ phase = "TIMEOUT" /\ phase' \in {"TIMEOUT", "IDLE"}
    \/ phase = "IDLE" /\ phase' \in {"IDLE", "INITIALIZING"}

\* The phase moves along the edges of PhaseMove.
LEMMA PhaseMoves ==
    ASSUME OutcomeTypes, SessionInv, [Next]_vars
    PROVE  PhaseMove
<1> USE DEF Phase, Preparing, Dosing, Terminal, Goto, SwitchPhase, PhaseMove, SessionInv,
            OutcomeTypes
<1>1. ASSUME phase \notin {"IDLE", "PURGE_CONFIRM"}, stage' = "guards", Case(phase)
     PROVE  PhaseMove
  <2>1. CASE Initializing(phase) \/ Setup(phase) \/ Taring(phase) \/ TareConfirm(phase)
    BY <1>1, <2>1 DEF Initializing, Setup, Taring, TareConfirm
  <2>2. CASE Prime(phase) \/ PrimeSettlingHold(phase) \/ PrimeSettlingGrind(phase)
    BY <1>1, <2>2 DEF Prime, PrimeSettlingHold, PrimeSettlingGrind
  <2>3. CASE Predictive(phase) \/ PulseDecisionDone(phase) \/ PulseDecisionPulse(phase) \/
             PulseExecute(phase) \/ PulseSettling(phase)
    BY <1>1, <2>3 DEF Predictive, PulseDecisionDone, PulseDecisionPulse, PulsesLeft,
      PulseExecute, PulseSettling
  <2>4. CASE TimeGrinding(phase)
    BY <1>1, <2>4 DEF TimeGrinding
  <2>5. CASE FinalMeasurement(phase)
    BY <1>1, <2>5 DEF FinalMeasurement
  <2>6. CASE AdditionalPulse(phase)
    BY <1>1, <2>6 DEF AdditionalPulse
  <2>7. CASE QueueSessionEnd(phase) \/ Wait(phase)
    BY <1>1, <2>7 DEF QueueSessionEnd, EnqueueEnd, outcome, Wait
  <2> QED  BY <1>1, <2>1, <2>2, <2>3, <2>4, <2>5, <2>6, <2>7 DEF Case
<1>2. CASE UpdateGuards
  BY <1>2 DEF UpdateGuards, NegativeWeight, GuardTimeout, GuardPass, MustTimeOut, Abort
<1>3. CASE stage = "case" /\ UiCall
  <2>1. CASE \E m \in {"WEIGHT", "TIME"}, pm \in {"PRIME", "PURGE"} : StartGrind(m, pm)
    BY <1>3, <2>1 DEF StartGrind, EndFlagReset
  <2>2. CASE AcknowledgePhase
    BY <1>3, <2>2 DEF AcknowledgePhase
  <2>3. CASE ReturnToIdle
    BY <1>3, <2>3 DEF ReturnToIdle, LeaveSession
  <2>4. CASE StopGrind
    BY <1>3, <2>4 DEF StopGrind, LeaveSession
  <2>5. CASE ContinueFromPurge
    BY <1>3, <2>5 DEF ContinueFromPurge, ResumeClock
  <2>6. CASE StartAdditionalPulse
    BY <1>3, <2>6 DEF StartAdditionalPulse, CanPulse
  <2> QED  BY <1>3, <2>1, <2>2, <2>3, <2>4, <2>5, <2>6 DEF UiCall
<1>4. CASE Environment
  BY <1>4 DEF Environment, Tick, PulseEnds, TareDone, EndSession
<1>5. CASE UNCHANGED vars
  BY <1>5 DEF vars
<1> QED  BY <1>1, <1>2, <1>3, <1>4, <1>5 DEF Next, Update, UpdateCase

\* What SessionState maps the phases to.
LEMMA SessionStates ==
    /\ phase = "IDLE" => SessionState = "idle"
    /\ phase \in Preparing => SessionState = "preparing"
    /\ phase \in Dosing => SessionState = "dosing"
    /\ phase = "PURGE_CONFIRM" => SessionState = "held"
    /\ phase = "COMPLETED" => SessionState = "done"
    /\ phase = "TIMEOUT" => SessionState = "failed"
    /\ phase' = "IDLE" => SessionState' = "idle"
    /\ phase' \in Preparing => SessionState' = "preparing"
    /\ phase' \in Dosing => SessionState' = "dosing"
    /\ phase' = "PURGE_CONFIRM" => SessionState' = "held"
    /\ phase' = "COMPLETED" => SessionState' = "done"
    /\ phase' = "TIMEOUT" => SessionState' = "failed"
BY DEF SessionState, Preparing, Dosing

\* A step between two states of IInv is a step of the session or leaves it.
LEMMA SessionStepOrStutter ==
    ASSUME IInv, IInv', [Next]_vars
    PROVE  [Session!Next]_<<SessionState, pin # "low">>
<1>1. PhaseMove  BY PhaseMoves DEF IInv, TypeOK
<1>2. phase \notin MotorPhases => ~(pin # "low")  BY DEF IInv, MotorInv
<1>3. phase' \notin MotorPhases => ~(pin # "low")'  BY DEF IInv, MotorInv
<1>4. (pin # "low") \in BOOLEAN /\ (pin # "low")' \in BOOLEAN  OBVIOUS
<1> USE SessionStates DEF Session!Next
<1>5. CASE phase \in Preparing
  <2>1. ~(pin # "low")  BY <1>2, <1>5 DEF Preparing, MotorPhases
  <2>2. CASE phase' \in Preparing
    <3>1. ~(pin # "low")'  BY <1>3, <2>2 DEF Preparing, MotorPhases
    <3> QED  BY <1>5, <2>1, <2>2, <3>1
  <2>3. CASE phase' \in Dosing  BY <1>4, <1>5, <2>3 DEF Session!Dose
  <2>4. CASE phase' = "TIMEOUT"  BY <1>3, <1>5, <2>4 DEF Session!Fail, MotorPhases
  <2>5. CASE phase' = "IDLE"  BY <1>3, <1>5, <2>5 DEF Session!Leave, MotorPhases
  <2> QED  BY <1>1, <1>5, <2>2, <2>3, <2>4, <2>5 DEF PhaseMove, Preparing, Dosing
<1>6. CASE phase \in Dosing
  <2>1. CASE phase' \in Dosing  BY <1>4, <1>6, <2>1 DEF Session!SwitchMotor
  <2>2. CASE phase' = "PURGE_CONFIRM"  BY <1>3, <1>6, <2>2 DEF Session!Hold, MotorPhases
  <2>3. CASE phase' = "COMPLETED"  BY <1>3, <1>6, <2>3 DEF Session!Finish, MotorPhases
  <2>4. CASE phase' = "TIMEOUT"  BY <1>3, <1>6, <2>4 DEF Session!Fail, MotorPhases
  <2>5. CASE phase' = "IDLE"  BY <1>3, <1>6, <2>5 DEF Session!Leave, MotorPhases
  <2> QED  BY <1>1, <1>6, <2>1, <2>2, <2>3, <2>4, <2>5 DEF PhaseMove, Preparing, Dosing
<1>7. CASE phase = "PURGE_CONFIRM"
  <2>1. CASE phase' = "PURGE_CONFIRM"  BY <1>2, <1>3, <1>7, <2>1 DEF MotorPhases
  <2>2. CASE phase' = "PREDICTIVE"  BY <1>4, <1>7, <2>2 DEF Session!Resume, Dosing
  <2>3. CASE phase' = "TIMEOUT"  BY <1>3, <1>7, <2>3 DEF Session!Fail, MotorPhases
  <2>4. CASE phase' = "IDLE"  BY <1>3, <1>7, <2>4 DEF Session!Leave, MotorPhases
  <2> QED  BY <1>1, <1>7, <2>1, <2>2, <2>3, <2>4 DEF PhaseMove, Preparing, Dosing
<1>8. CASE phase = "COMPLETED"
  <2>1. CASE phase' = "COMPLETED"  BY <1>2, <1>3, <1>8, <2>1 DEF MotorPhases
  <2>2. CASE phase' = "TIME_ADDITIONAL_PULSE"  BY <1>4, <1>8, <2>2 DEF Session!Extend, Dosing
  <2>3. CASE phase' = "IDLE"  BY <1>3, <1>8, <2>3 DEF Session!Leave, MotorPhases
  <2> QED  BY <1>1, <1>8, <2>1, <2>2, <2>3 DEF PhaseMove, Preparing, Dosing
<1>9. CASE phase = "TIMEOUT"
  <2>1. CASE phase' = "TIMEOUT"  BY <1>2, <1>3, <1>9, <2>1 DEF MotorPhases
  <2>2. CASE phase' = "IDLE"  BY <1>3, <1>9, <2>2 DEF Session!Leave, MotorPhases
  <2> QED  BY <1>1, <1>9, <2>1, <2>2 DEF PhaseMove, Preparing, Dosing
<1>10. CASE phase = "IDLE"
  <2>1. CASE phase' = "IDLE"  BY <1>2, <1>3, <1>10, <2>1 DEF MotorPhases
  <2>2. CASE phase' = "INITIALIZING"
    BY <1>2, <1>3, <1>10, <2>2 DEF Session!Begin, MotorPhases, Preparing
  <2> QED  BY <1>1, <1>10, <2>1, <2>2 DEF PhaseMove, Preparing, Dosing
<1> QED  BY <1>1, <1>5, <1>6, <1>7, <1>8, <1>9, <1>10 DEF PhaseMove

\* A user who watches only the session and the motor sees a GrindSession.
THEOREM Refinement == Spec => ImplementsSession
<1>1. Init => Session!Init
  <2> SUFFICES ASSUME Init PROVE Session!Init
    OBVIOUS
  <2>1. SessionState = "idle"  BY SessionStates DEF Init
  <2>2. (pin # "low") = FALSE  BY DEF Init
  <2> QED  BY <2>1, <2>2 DEF Session!Init
<1>2. IInv /\ IInv' /\ [Next]_vars => [Session!Next]_<<SessionState, pin # "low">>
  BY SessionStepOrStutter
<1> QED  BY <1>1, <1>2, Invariance, PTL DEF Spec, ImplementsSession, Session!Spec
-----------------------------------------------------------------------------
\* The two cores.  CoresInv needs no exclusion between a pass and the handlers.

LEMMA CoresTypes ==
    ASSUME CoresTypeOK, OverlappedClockInv, [CoresNext]_allVars
    PROVE  CoresTypeOK'
<1>0. TypeOK /\ snap \in Phase \cup {"none"} /\ ui \in UiStep
  BY DEF CoresTypeOK
<1> SUFFICES TypeOK' /\ snap' \in Phase \cup {"none"} /\ ui' \in UiStep
  BY DEF CoresTypeOK
<1>1. CASE Dispatch
  <2>1. TypeOK'  BY <1>0, <1>1, UnchangedTypes DEF Dispatch, vars, TypeOK
  <2>2. snap' \in Phase \cup {"none"}  BY <1>0, <1>1 DEF Dispatch, TypeOK, OutcomeTypes
  <2> QED  BY <1>0, <1>1, <2>1, <2>2 DEF Dispatch
<1>2. CASE RunCase
  BY <1>0, <1>2, CaseTypes DEF RunCase
<1>3. CASE RunGuards
  BY <1>0, <1>3, GuardTypes DEF RunGuards, cores
<1>4. CASE Uninterrupted
  <2>1. CASE \E m \in {"WEIGHT", "TIME"}, pm \in {"PRIME", "PURGE"} : StartGrind(m, pm)
    BY <1>0, <1>4, <2>1, StartTypes DEF Uninterrupted, cores
  <2>2. CASE AcknowledgePhase
    BY <1>0, <1>4, <2>2, UnchangedTypes DEF Uninterrupted, cores, AcknowledgePhase, TypeOK, SessionTypes
  <2>3. CASE ReturnToIdle
    BY <1>0, <1>4, <2>3, UnchangedTypes, Gotos
    DEF Uninterrupted, cores, ReturnToIdle, LeaveSession, TypeOK, SessionTypes, Phase
  <2> QED  BY <1>0, <1>4, <2>1, <2>2, <2>3 DEF Uninterrupted
<1>5. CASE StopTheMotor \/ DiscardTheLog
  BY <1>0, <1>5, UnchangedTypes, MotorOperations DEF StopTheMotor, DiscardTheLog, UiStep, TypeOK, JournalTypes
<1>6. CASE SwitchToIdle
  BY <1>0, <1>6, UnchangedTypes, Gotos DEF SwitchToIdle, UiStep, LeaveSession, TypeOK, SessionTypes, Phase
<1>7. CASE ResumeTheMotor
  <2>1. pauseAt <= elapsed /\ elapsed \in Nat /\ offset \in Nat /\ pauseAt \in Nat
    BY <1>0, <1>7 DEF ResumeTheMotor, TypeOK, ClockTypes, OverlappedClockInv
  <2>2. ResumeClock /\ elapsed' = elapsed /\ active' = active /\ ClockTypes
    BY <1>0, <1>7 DEF ResumeTheMotor, TypeOK
  <2>3. ClockTypes'  BY <2>1, <2>2 DEF ResumeClock, ClockTypes, NoPause
  <2>4. MotorTypes'  BY <1>0, <1>7, MotorOperations DEF ResumeTheMotor, TypeOK
  <2> QED  BY <1>0, <1>7, <2>3, <2>4, UnchangedTypes DEF ResumeTheMotor, UiStep, TypeOK
<1>8. CASE SwitchToPredictive
  BY <1>0, <1>8, UnchangedTypes, Gotos DEF SwitchToPredictive, UiStep, TypeOK, Phase, Dosing
<1>9. CASE AnnouncePulse
  <2>1. PulsesTypes' /\ ClockTypes'
    <3>1. /\ elapsed' = 0 /\ active' = 0 /\ offset' = offset /\ pauseAt' = pauseAt
          /\ extraPulses < MaxExtraPulses /\ extraPulses' = extraPulses + 1 /\ attempts' = attempts
          /\ PulsesTypes /\ ClockTypes
      BY <1>0, <1>9 DEF AnnouncePulse, TypeOK
    <3> QED  BY <3>1, PulsesAssumption DEF PulsesTypes, ClockTypes
  <2> QED  BY <1>0, <1>9, <2>1, UnchangedTypes, Gotos DEF AnnouncePulse, UiStep, TypeOK, Phase, Dosing
<1>10. CASE StartThePulse
  BY <1>0, <1>10, UnchangedTypes, MotorOperations DEF StartThePulse, UiStep, TypeOK
<1>11. CASE Surroundings
  <2>1. CASE Environment
    BY <1>0, <1>11, <2>1, EnvironmentTypes DEF Surroundings, cores
  <2>2. CASE DisplayTick
    <3>3. /\ ClockTypes /\ elapsed' = elapsed + 1
          /\ offset' = offset /\ pauseAt' = pauseAt /\ active' = active
      BY <1>0, <2>2, Zenon DEF DisplayTick, TypeOK
    <3>1. ClockTypes'  BY <3>3 DEF ClockTypes
    <3>2. TypeOK'  BY <1>0, <2>2, <3>1, UnchangedTypes DEF DisplayTick, TypeOK
    <3> QED  BY <1>0, <1>11, <3>2 DEF Surroundings, cores
  <2> QED  BY <1>0, <1>11, <2>1, <2>2 DEF Surroundings, Time, Environment
<1>12. CASE UNCHANGED allVars
  BY <1>0, <1>12, UnchangedTypes DEF allVars, cores, vars, TypeOK
<1> QED  BY <1>1, <1>2, <1>3, <1>4, <1>5, <1>6, <1>7, <1>8, <1>9, <1>10, <1>11, <1>12
      DEF CoresNext, Core0, Core1

\* A pass works on the phase of the session, or on one that was left.
LEMMA PassStep ==
    ASSUME CoresTypeOK, PassInv, [CoresNext]_allVars
    PROVE  PassInv'
<1> USE DEF PassInv, Goto, SwitchPhase
<1>1. CASE Dispatch
  <2>1. phase # "none"  BY DEF CoresTypeOK, TypeOK, OutcomeTypes, Phase, Preparing, Dosing, Terminal
  <2> QED  BY <1>1, <2>1 DEF Dispatch, vars, motor
<1>2. CASE RunCase \/ RunGuards
  BY <1>2 DEF RunCase, RunGuards, UpdateGuards, cores
<1>3. CASE Uninterrupted
  BY <1>3 DEF Uninterrupted, cores, StartGrind, AcknowledgePhase, ReturnToIdle, Terminal
<1>4. CASE StopTheMotor \/ DiscardTheLog \/ SwitchToIdle
  BY <1>4 DEF StopTheMotor, DiscardTheLog, SwitchToIdle
<1>5. CASE ResumeTheMotor \/ SwitchToPredictive \/ AnnouncePulse \/ StartThePulse
  BY <1>5 DEF ResumeTheMotor, SwitchToPredictive, AnnouncePulse, CanPulse, StartThePulse
<1>6. CASE Surroundings
  BY <1>6 DEF Surroundings, Time, cores, Tick, DisplayTick, PulseEnds, TareDone, EndSession
<1>7. CASE UNCHANGED allVars
  BY <1>7 DEF allVars, cores, vars
<1> QED  BY <1>1, <1>2, <1>3, <1>4, <1>5, <1>6, <1>7 DEF CoresNext, Core0, Core1

\* A case that ends in a quiet phase, or works on one, does not let the motor run.
LEMMA CaseQuiet ==
    ASSUME MotorTypes, NEW p, Case(p), p # "none",
           phase \in {p, "IDLE", "INITIALIZING"} \/ (p = "COMPLETED" /\ phase = "TIME_ADDITIONAL_PULSE"),
           p \in QuietPhases => pin # "run",
           phase' \in QuietPhases
    PROVE  pin' # "run"
<1> USE DEF QuietPhases, Terminal, Goto, SwitchPhase, MotorTypes, motor
<1>1. CASE Initializing(p) \/ Setup(p) \/ Taring(p) \/ TareConfirm(p)
  BY <1>1 DEF Initializing, Setup, Taring, TareConfirm
<1>2. CASE Prime(p)
  BY <1>2 DEF Prime, MotorStop, outcome
<1>3. CASE PrimeSettlingHold(p) \/ PrimeSettlingGrind(p)
  BY <1>3 DEF PrimeSettlingHold, PrimeSettlingGrind
<1>4. CASE Predictive(p) \/ TimeGrinding(p)
  BY <1>4 DEF Predictive, TimeGrinding, MotorStop
<1>5. CASE PulseDecisionDone(p) \/ PulseSettling(p) \/ FinalMeasurement(p)
  BY <1>5 DEF PulseDecisionDone, PulseSettling, FinalMeasurement
<1>6. CASE PulseDecisionPulse(p)
  BY <1>6 DEF PulseDecisionPulse, MotorPulse
<1>7. CASE PulseExecute(p) \/ AdditionalPulse(p)
  BY <1>7 DEF PulseExecute, AdditionalPulse, MotorAckPulse
<1>8. CASE QueueSessionEnd(p) \/ Wait(p)
  BY <1>8 DEF QueueSessionEnd, Wait
<1> QED  BY <1>1, <1>2, <1>3, <1>4, <1>5, <1>6, <1>7, <1>8 DEF Case

LEMMA QuietStep ==
    ASSUME CoresTypeOK, PassInv, QuietInv, [CoresNext]_allVars
    PROVE  QuietInv'
<1> USE DEF QuietInv
<1>0. MotorTypes  BY DEF CoresTypeOK, TypeOK
<1>1. CASE Dispatch
  BY <1>1 DEF Dispatch, vars, motor
<1>2. CASE RunCase
  <2>1. ui # "motor resumed" /\ snap' = "none" /\ "none" \notin QuietPhases
    BY <1>2 DEF RunCase, PassInv, QuietPhases, Terminal
  <2>2. phase' \in QuietPhases => pin' # "run"
    BY <1>0, <1>2, <2>1, CaseQuiet DEF RunCase, PassInv
  <2> QED  BY <1>2, <2>1, <2>2
<1>3. CASE RunGuards
  <2>1. pin' = "low" \/ UNCHANGED <<phase, pin>>
    BY <1>3 DEF RunGuards, UpdateGuards, NegativeWeight, GuardTimeout, GuardPass, Abort, MotorStop, motor
  <2> QED  BY <1>3, <2>1 DEF RunGuards, cores
<1>4. CASE Uninterrupted
  <2>1. UNCHANGED <<pin, snap, ui>> /\ (phase' = phase \/ phase' \in {"INITIALIZING", "IDLE"})
    BY <1>4 DEF Uninterrupted, cores, StartGrind, AcknowledgePhase, ReturnToIdle, Goto, SwitchPhase, motor
  <2> QED  BY <2>1 DEF QuietPhases, Terminal
<1>5. CASE StopTheMotor
  BY <1>5 DEF StopTheMotor, MotorStop
<1>6. CASE DiscardTheLog \/ SwitchToIdle
  <2>1. UNCHANGED <<pin, snap>> /\ (phase' = phase \/ phase' = "IDLE") /\ ui # "motor resumed"
    BY <1>6 DEF DiscardTheLog, SwitchToIdle, Goto, SwitchPhase, motor
  <2> QED  BY <2>1 DEF QuietPhases, Terminal
<1>7. CASE ResumeTheMotor
  BY <1>7 DEF ResumeTheMotor
<1>8. CASE SwitchToPredictive
  <2>1. phase' = "PREDICTIVE" /\ snap' = "none"
    BY <1>8 DEF SwitchToPredictive, Goto, SwitchPhase, PassInv
  <2> QED  BY <2>1 DEF QuietPhases, Terminal
<1>9. CASE AnnouncePulse
  <2>1. phase = "COMPLETED" /\ UNCHANGED <<pin, snap>> /\ ui # "motor resumed"
    BY <1>9 DEF AnnouncePulse, CanPulse, motor
  <2> QED  BY <2>1 DEF QuietPhases, Terminal
<1>10. CASE StartThePulse
  <2>1. (pin' = pin \/ pin' = "pulse") /\ UNCHANGED <<phase, snap>> /\ ui # "motor resumed"
    BY <1>10 DEF StartThePulse, MotorPulse, motor
  <2> QED  BY <2>1
<1>11. CASE Surroundings
  <2>1. (pin' = pin \/ pin' = "low") /\ UNCHANGED <<phase, snap, ui>>
    BY <1>11 DEF Surroundings, Time, cores, Tick, DisplayTick, PulseEnds, TareDone, EndSession, motor
  <2> QED  BY <2>1
<1>12. CASE UNCHANGED allVars
  BY <1>12 DEF allVars, cores, vars, motor
<1> QED  BY <1>1, <1>2, <1>3, <1>4, <1>5, <1>6, <1>7, <1>8, <1>9, <1>10, <1>11, <1>12
      DEF CoresNext, Core0, Core1

\* A case does not touch the clock, but for the pause it starts; it leaves a
\* phase to which the active time applies for another one, or for the end.
LEMMA CaseClock ==
    ASSUME OutcomeTypes, NEW p, Case(p)
    PROVE  /\ UNCHANGED <<elapsed, offset, active, mode>>
           /\ \/ UNCHANGED phase
              \/ p \in Preparing \cup Dosing /\ phase' \in Preparing \cup Dosing /\ phase' # "IDLE"
              \/ p = "PRIME_SETTLING" /\ phase' = "PURGE_CONFIRM" /\ pauseAt' = elapsed
              \/ p \in {"FINAL_SETTLING", "TIME_ADDITIONAL_PULSE"} /\ phase' \in Terminal
           /\ phase' # "PURGE_CONFIRM" \/ p # "PRIME_SETTLING" => UNCHANGED pauseAt
           /\ p = "PREDICTIVE" /\ phase' # phase => mode = "WEIGHT"
<1> USE DEF Preparing, Dosing, Terminal, Goto, SwitchPhase, clock, session, OutcomeTypes
<1>1. CASE Initializing(p) \/ Setup(p) \/ Taring(p) \/ TareConfirm(p)
  BY <1>1 DEF Initializing, Setup, Taring, TareConfirm
<1>2. CASE Prime(p) \/ PrimeSettlingHold(p) \/ PrimeSettlingGrind(p)
  BY <1>2 DEF Prime, PrimeSettlingHold, PrimeSettlingGrind
<1>3. CASE Predictive(p) \/ TimeGrinding(p)
  BY <1>3 DEF Predictive, TimeGrinding
<1>4. CASE PulseDecisionDone(p) \/ PulseDecisionPulse(p) \/ PulseExecute(p) \/ PulseSettling(p)
  BY <1>4 DEF PulseDecisionDone, PulseDecisionPulse, PulseExecute, PulseSettling
<1>5. CASE FinalMeasurement(p) \/ AdditionalPulse(p)
  BY <1>5 DEF FinalMeasurement, AdditionalPulse
<1>6. CASE QueueSessionEnd(p) \/ Wait(p)
  BY <1>6 DEF QueueSessionEnd, Wait
<1> QED  BY <1>1, <1>2, <1>3, <1>4, <1>5, <1>6 DEF Case

\* The clock of a pass that was overtaken is the one of its own session.
LEMMA OverlappedClockStep ==
    ASSUME CoresTypeOK, PassInv, OverlappedClockInv, [CoresNext]_allVars
    PROVE  OverlappedClockInv'
<1> DEFINE Busy == Preparing \cup Dosing
           Right == elapsed >= offset /\ elapsed - offset = active
           Paused == /\ pauseAt # NoPause /\ offset <= pauseAt /\ pauseAt <= elapsed
                     /\ pauseAt - offset = active
           Timed == /\ phase \in {"PURGE_CONFIRM", "PREDICTIVE", "TIMEOUT", "IDLE"}
                    /\ snap \in {"none", "PREDICTIVE", "TIMEOUT"}
<1>a. OutcomeTypes /\ ClockTypes /\ SessionTypes  BY DEF CoresTypeOK, TypeOK
<1>b. /\ (phase \in Busy \/ snap \in Busy \/ ui = "motor resumed") => Right
      /\ phase = "PURGE_CONFIRM" /\ ui # "motor resumed" => Paused
      /\ mode = "TIME" /\ offset # 0 => Timed
  BY DEF OverlappedClockInv
<1>c. SUFFICES /\ (phase' \in Busy \/ snap' \in Busy \/ ui' = "motor resumed") => Right'
               /\ phase' = "PURGE_CONFIRM" /\ ui' # "motor resumed" => Paused'
               /\ mode' = "TIME" /\ offset' # 0 => Timed'
  BY DEF OverlappedClockInv
<1>d. /\ {"none", "IDLE", "PURGE_CONFIRM", "COMPLETED", "TIMEOUT"} \cap Busy = {}
      /\ Terminal = {"COMPLETED", "TIMEOUT"}
  BY DEF Preparing, Dosing, Terminal
<1> HIDE DEF Busy
<1>1. CASE Dispatch
  <2>1. /\ UNCHANGED <<phase, ui, mode, elapsed, offset, active, pauseAt>>
        /\ snap' = phase /\ phase # "IDLE" /\ phase # "PURGE_CONFIRM"
    BY <1>1 DEF Dispatch, vars, session, clock
  <2> QED  BY <1>b, <2>1
<1>2. CASE RunCase
  <2>1. /\ snap # "none" /\ Case(snap) /\ snap' = "none" /\ ui' = ui /\ ui # "motor resumed"
        /\ \/ phase \in {snap, "IDLE", "INITIALIZING"}
           \/ snap = "COMPLETED" /\ phase = "TIME_ADDITIONAL_PULSE"
    BY <1>2 DEF RunCase, PassInv
  <2>2. UNCHANGED <<elapsed, offset, active, mode>>
    BY <1>a, <2>1, CaseClock
  <2>3. CASE UNCHANGED phase
    <3>1. phase # "PURGE_CONFIRM"
      BY <1>2, <2>1 DEF PassInv
    <3> QED  BY <1>b, <1>d, <2>1, <2>2, <2>3, <3>1
  <2>4. CASE snap \in Busy /\ phase' \in Busy /\ phase' # phase
    <3>1. mode = "TIME" => offset = 0
      <4>1. CASE snap = "PREDICTIVE"  BY <1>a, <2>1, <2>4, <4>1, CaseClock
      <4>2. CASE snap # "PREDICTIVE"  BY <1>b, <1>d, <2>1, <2>4, <4>2
      <4> QED  BY <4>1, <4>2
    <3> QED  BY <1>b, <1>d, <2>1, <2>2, <2>4, <3>1
  <2>5. CASE snap = "PRIME_SETTLING" /\ phase' = "PURGE_CONFIRM" /\ pauseAt' = elapsed
    <3>1. Right  BY <1>b, <2>5 DEF Busy, Dosing
    <3>2. Paused'  BY <1>a, <2>2, <2>5, <3>1 DEF ClockTypes, NoPause
    <3>3. Timed'  BY <2>1, <2>5
    <3> QED  BY <1>d, <2>1, <2>5, <3>2, <3>3
  <2>6. CASE snap \in {"FINAL_SETTLING", "TIME_ADDITIONAL_PULSE"} /\ phase' \in Terminal
    <3>1. mode = "TIME" => offset = 0  BY <1>b, <2>6
    <3> QED  BY <1>d, <2>1, <2>2, <2>6, <3>1
  <2> QED  BY <1>a, <2>1, <2>3, <2>4, <2>5, <2>6, CaseClock DEF Busy
<1>3. CASE RunGuards
  <2>1. UNCHANGED <<snap, ui, mode, elapsed, offset, active, pauseAt>> /\ stage = "guards"
    BY <1>3 DEF RunGuards, UpdateGuards, cores, session, clock
  <2>2. UNCHANGED phase \/ phase' = "TIMEOUT"
    BY <1>3 DEF RunGuards, UpdateGuards, NegativeWeight, GuardTimeout, GuardPass, Abort, SwitchPhase
  <2>3. snap = "none" /\ ui # "motor resumed"
    BY <2>1 DEF PassInv
  <2> QED  BY <1>b, <1>d, <2>1, <2>2, <2>3
<1>4. CASE Uninterrupted
  <2>1. CASE \E m \in {"WEIGHT", "TIME"}, pm \in {"PRIME", "PURGE"} : StartGrind(m, pm)
    <3>1. /\ elapsed' = 0 /\ offset' = 0 /\ active' = 0 /\ phase' = "INITIALIZING"
          /\ snap' = snap /\ ui' = ui
      BY <1>4, <2>1 DEF Uninterrupted, cores, StartGrind, SwitchPhase
    <3> QED  BY <3>1
  <2>2. CASE AcknowledgePhase
    <3>1. UNCHANGED <<phase, mode, elapsed, offset, active, pauseAt, snap, ui>>
      BY <1>4, <2>2 DEF Uninterrupted, cores, AcknowledgePhase, clock
    <3> QED  BY <1>b, <3>1
  <2>3. CASE ReturnToIdle
    <3>1. UNCHANGED <<mode, elapsed, offset, active, pauseAt, snap, ui>> /\ phase' = "IDLE"
      BY <1>4, <2>3 DEF Uninterrupted, cores, ReturnToIdle, LeaveSession, Goto, SwitchPhase, clock
    <3> QED  BY <1>b, <1>d, <3>1
  <2> QED  BY <1>4, <2>1, <2>2, <2>3 DEF Uninterrupted
<1>5. CASE StopTheMotor \/ DiscardTheLog \/ StartThePulse
  <2>1. /\ UNCHANGED <<phase, mode, elapsed, offset, active, pauseAt, snap>>
        /\ ui # "motor resumed" /\ ui' # "motor resumed"
    BY <1>5 DEF StopTheMotor, DiscardTheLog, StartThePulse, session, clock
  <2> QED  BY <1>b, <2>1
<1>6. CASE SwitchToIdle
  <2>1. /\ UNCHANGED <<mode, elapsed, offset, active, pauseAt, snap>>
        /\ phase' = "IDLE" /\ ui' = "none"
    BY <1>6 DEF SwitchToIdle, LeaveSession, Goto, SwitchPhase, clock
  <2> QED  BY <1>b, <1>d, <2>1
<1>7. CASE ResumeTheMotor
  <2>1. Paused /\ UNCHANGED <<phase, mode, snap>> /\ phase = "PURGE_CONFIRM" /\ snap = "none"
        /\ ui' = "motor resumed"
    BY <1>7, <1>b DEF ResumeTheMotor, session
  <2>2. ResumeClock /\ elapsed' = elapsed /\ active' = active /\ ClockTypes /\ Paused
    BY <1>a, <1>7, <2>1 DEF ResumeTheMotor
  <2>3. Right'  BY <2>2 DEF ResumeClock, ClockTypes, NoPause
  <2>4. Timed'  BY <2>1
  <2> QED  BY <2>1, <2>3, <2>4
<1>8. CASE SwitchToPredictive
  <2>1. Right /\ snap = "none"  BY <1>8, <1>b DEF SwitchToPredictive, PassInv
  <2>2. /\ UNCHANGED <<mode, elapsed, offset, active, snap>>
        /\ phase' = "PREDICTIVE" /\ ui' = "none"
    BY <1>8 DEF SwitchToPredictive, Goto, SwitchPhase, session, clock
  <2> QED  BY <2>1, <2>2
<1>9. CASE AnnouncePulse
  <2>1. mode = "TIME" /\ phase = "COMPLETED" /\ phase' = "TIME_ADDITIONAL_PULSE"
        /\ elapsed' = 0 /\ active' = 0 /\ UNCHANGED <<mode, offset>>
    BY <1>9 DEF AnnouncePulse, CanPulse, Goto, SwitchPhase, session
  <2>2. offset = 0  BY <1>b, <2>1
  <2> QED  BY <2>1, <2>2
<1>10. CASE Surroundings
  <2>1. CASE ui = "none" /\ Tick
    <3>1. UNCHANGED <<phase, mode, offset, pauseAt, snap, ui>> /\ elapsed' = elapsed + 1
      BY <1>10, <2>1 DEF Surroundings, cores, Tick, session
    <3>2. CASE phase = "PURGE_CONFIRM"
      <4>1. active' = active /\ snap = "none" /\ ui = "none"
        BY <2>1, <3>2 DEF Tick, PassInv
      <4>2. Paused /\ elapsed' = elapsed + 1 /\ pauseAt' = pauseAt /\ offset' = offset /\ ClockTypes
        BY <1>a, <1>b, <3>1, <3>2, <4>1
      <4>3. Paused'  BY <4>1, <4>2 DEF ClockTypes, NoPause
      <4> QED  BY <1>b, <1>d, <3>1, <3>2, <4>1, <4>3
    <3>3. CASE phase # "PURGE_CONFIRM"
      <4>1. /\ active' = active + 1 /\ elapsed' = elapsed + 1 /\ offset' = offset /\ ClockTypes
        BY <1>a, <2>1, <3>1, <3>3, Zenon DEF Tick
      <4>2. Right => Right'  BY <4>1 DEF ClockTypes
      <4> QED  BY <1>b, <3>1, <3>3, <4>2
    <3> QED  BY <3>2, <3>3
  <2>2. CASE DisplayTick
    <3>1. UNCHANGED <<phase, mode, offset, snap, ui>> /\ phase \in Terminal
      BY <1>10, <2>2 DEF Surroundings, cores, DisplayTick, session
    <3>2. snap \notin Busy /\ ui # "motor resumed"
      BY <1>d, <3>1 DEF PassInv
    <3> QED  BY <1>b, <1>d, <3>1, <3>2
  <2>3. CASE PulseEnds \/ TareDone \/ EndSession
    <3>1. UNCHANGED <<phase, mode, elapsed, offset, active, pauseAt, snap, ui>>
      BY <1>10, <2>3 DEF Surroundings, cores, PulseEnds, TareDone, EndSession, session, clock
    <3> QED  BY <1>b, <3>1
  <2> QED  BY <1>10, <2>1, <2>2, <2>3 DEF Surroundings, Time
<1>11. CASE UNCHANGED allVars
  BY <1>11, <1>b DEF allVars, cores, vars, session, clock
<1> QED  BY <1>1, <1>2, <1>3, <1>4, <1>5, <1>6, <1>7, <1>8, <1>9, <1>10, <1>11
      DEF CoresNext, Core0, Core1

LEMMA OverlappedPulsesStep ==
    ASSUME CoresTypeOK, PulseHistoryInBounds, [CoresNext]_allVars
    PROVE  PulseHistoryInBounds'
<1>0. PulsesTypes  BY DEF CoresTypeOK, TypeOK
<1>1. CASE RunCase
  BY <1>0, <1>1, CasePulses DEF RunCase
<1>2. CASE \E m \in {"WEIGHT", "TIME"}, pm \in {"PRIME", "PURGE"} : StartGrind(m, pm)
  BY <1>2, PulsesAssumption DEF StartGrind, SwitchPhase, PulseHistoryInBounds
<1>3. ASSUME ~RunCase,
             ~\E m \in {"WEIGHT", "TIME"}, pm \in {"PRIME", "PURGE"} : StartGrind(m, pm)
      PROVE  attempts' = attempts /\ (phase' = "PULSE_EXECUTE" => phase' = phase)
  <2> USE DEF pulses, Goto, SwitchPhase
  <2>1. CASE Dispatch \/ RunGuards
    BY <2>1 DEF Dispatch, vars, RunGuards, UpdateGuards, NegativeWeight, GuardTimeout, GuardPass, Abort
  <2>2. CASE Uninterrupted
    BY <1>3, <2>2 DEF Uninterrupted, AcknowledgePhase, ReturnToIdle
  <2>3. CASE StopTheMotor \/ DiscardTheLog \/ SwitchToIdle \/ ResumeTheMotor
    BY <2>3 DEF StopTheMotor, DiscardTheLog, SwitchToIdle, ResumeTheMotor
  <2>4. CASE SwitchToPredictive \/ AnnouncePulse \/ StartThePulse
    BY <2>4 DEF SwitchToPredictive, AnnouncePulse, StartThePulse
  <2>5. CASE Surroundings
    BY <2>5 DEF Surroundings, Time, Tick, DisplayTick, PulseEnds, TareDone, EndSession
  <2>6. CASE UNCHANGED allVars
    BY <2>6 DEF allVars, vars
  <2> QED  BY <1>3, <2>1, <2>2, <2>3, <2>4, <2>5, <2>6 DEF CoresNext, Core0, Core1
<1>4. ASSUME attempts' = attempts, phase' = "PULSE_EXECUTE" => phase' = phase
      PROVE  PulseHistoryInBounds'
  BY <1>4 DEF PulseHistoryInBounds
<1> QED  BY <1>1, <1>2, <1>3, <1>4

\* A pass that was overtaken has no result to spoil.
LEMMA OverlappedResultStep ==
    ASSUME CoresTypeOK, PassInv, PulseHistoryInBounds, OverlappedResultInv, [CoresNext]_allVars
    PROVE  OverlappedResultInv'
<1>0. PulsesTypes /\ OutcomeTypes /\ ResultMatchesEnding  BY DEF CoresTypeOK, TypeOK, OverlappedResultInv
<1>a. "none" \notin OpenPhases /\ (phase \in OpenPhases => result = "UNKNOWN")
  BY <1>0 DEF ResultMatchesEnding, OpenPhases, Preparing, Dosing
<1>1. CASE RunCase
  BY <1>0, <1>1, <1>a, CaseResult DEF RunCase, OverlappedResultInv
<1>2. CASE \E m \in {"WEIGHT", "TIME"}, pm \in {"PRIME", "PURGE"} : StartGrind(m, pm)
  <2>1. phase' = "INITIALIZING" /\ result' = "UNKNOWN"
    BY <1>2 DEF StartGrind, SwitchPhase
  <2> QED  BY <2>1 DEF OverlappedResultInv, ResultMatchesEnding, Terminal
<1>3. CASE Dispatch
  BY <1>3, <1>a DEF Dispatch, vars, outcome, pulses, OverlappedResultInv, ResultMatchesEnding
<1>4. CASE RunGuards
  <2>1. snap' = "none" /\ attempts' = attempts
    BY <1>4 DEF RunGuards, UpdateGuards, cores, pulses, PassInv
  <2>2. UNCHANGED <<phase, result>> \/ (phase' = "TIMEOUT" /\ result' \in {result, "ERROR", "TIMEOUT"}
                                          /\ result' \in {"ERROR", "TIMEOUT"})
    BY <1>4 DEF RunGuards, UpdateGuards, NegativeWeight, GuardTimeout, GuardPass, Abort, SwitchPhase, outcome
  <2> QED  BY <1>0, <1>a, <2>1, <2>2 DEF OverlappedResultInv, ResultMatchesEnding, Preparing, Dosing
<1>5. ASSUME ~RunCase, ~Dispatch, ~RunGuards,
             ~\E m \in {"WEIGHT", "TIME"}, pm \in {"PRIME", "PURGE"} : StartGrind(m, pm)
      PROVE  /\ UNCHANGED <<result, attempts, snap>>
             /\ \/ phase' = phase \/ phase' \in {"IDLE", "TIME_ADDITIONAL_PULSE"}
                \/ phase = "PURGE_CONFIRM" /\ phase' = "PREDICTIVE"
  <2> USE DEF pulses, outcome, Goto, SwitchPhase
  <2>2. CASE Uninterrupted
    BY <1>5, <2>2 DEF Uninterrupted, cores, AcknowledgePhase, ReturnToIdle
  <2>3. CASE StopTheMotor \/ DiscardTheLog \/ SwitchToIdle \/ ResumeTheMotor
    BY <2>3 DEF StopTheMotor, DiscardTheLog, SwitchToIdle, ResumeTheMotor
  <2>4. CASE SwitchToPredictive \/ AnnouncePulse \/ StartThePulse
    BY <2>4 DEF SwitchToPredictive, AnnouncePulse, StartThePulse, PassInv
  <2>5. CASE Surroundings
    BY <2>5 DEF Surroundings, Time, cores, Tick, DisplayTick, PulseEnds, TareDone, EndSession
  <2>6. CASE UNCHANGED allVars
    BY <2>6 DEF allVars, cores, vars
  <2> QED  BY <1>5, <2>2, <2>3, <2>4, <2>5, <2>6 DEF CoresNext, Core0, Core1
<1>6. ASSUME UNCHANGED <<result, attempts, snap>>,
             \/ phase' = phase \/ phase' \in {"IDLE", "TIME_ADDITIONAL_PULSE"}
             \/ phase = "PURGE_CONFIRM" /\ phase' = "PREDICTIVE"
      PROVE  OverlappedResultInv'
  BY <1>6 DEF OverlappedResultInv, ResultMatchesEnding, Preparing, Dosing, Terminal
<1> QED  BY <1>1, <1>2, <1>3, <1>4, <1>5, <1>6

LEMMA CoresInitInv == CoresInit => CoresInv
<1> SUFFICES ASSUME CoresInit PROVE CoresInv
  OBVIOUS
<1>1. IInv  BY InitInv DEF CoresInit
<1>2. CoresTypeOK  BY <1>1 DEF IInv, CoresInit, CoresTypeOK, UiStep
<1>3. phase = "IDLE" /\ pin = "low" /\ offset = 0  BY DEF CoresInit, Init
<1>4. PassInv /\ QuietInv
  BY <1>3 DEF CoresInit, PassInv, QuietInv
<1>5. OverlappedClockInv
  BY <1>3 DEF CoresInit, OverlappedClockInv, Preparing, Dosing
<1>6. PulseHistoryInBounds /\ OverlappedResultInv
  BY <1>1 DEF IInv, CoresInit, OverlappedResultInv, OpenPhases, Preparing, Dosing
<1> QED  BY <1>2, <1>4, <1>5, <1>6 DEF CoresInv

LEMMA CoresStepInv == CoresInv /\ [CoresNext]_allVars => CoresInv'
BY CoresTypes, PassStep, QuietStep, OverlappedClockStep, OverlappedPulsesStep, OverlappedResultStep
DEF CoresInv

\* CoresInv holds in every reachable state of the two cores.
THEOREM CoresInvariance == CoresSpec => []CoresInv
<1> QED  BY CoresInitInv, CoresStepInv, PTL DEF CoresSpec

\* However a pass of update() overlaps the handlers of the user interface, the
\* motor does not run freely once a session settles, waits or has ended.
THEOREM OverlappedMotorSafety == CoresSpec => []MotorOffAfterDosing
<1>1. CoresInv => MotorOffAfterDosing
  BY DEF CoresInv, QuietInv, QuietPhases, MotorOffAfterDosing
<1> QED  BY <1>1, CoresInvariance, PTL

\* Nor does an overlap index pulse_history past its end, count the wrong time
\* towards the 60 s limit, or store a result that contradicts the ending.
THEOREM OverlappedSessions ==
    CoresSpec => [](PulseHistoryInBounds /\ TimeoutCountsActiveTime /\ ResultMatchesEnding)
<1>1. CoresInv => PulseHistoryInBounds /\ TimeoutCountsActiveTime /\ ResultMatchesEnding
  BY DEF CoresInv, OverlappedClockInv, TimeoutCountsActiveTime, OverlappedResultInv
<1> QED  BY <1>1, CoresInvariance, PTL
=============================================================================
