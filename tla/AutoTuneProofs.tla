---------------------------- MODULE AutoTuneProofs ----------------------------
(***************************************************************************)
(* Proofs about AutoTune, for every grinder, every range of the search and *)
(* any number of verification pulses and rounds: what is saved was         *)
(* verified, and a steady grinder is tuned to its shortest pulse.          *)
(***************************************************************************)
EXTENDS AutoTune, TLAPS

\* The lengths and counts are numbers.
NumbersInv ==
    /\ pulse \in Int /\ step \in Int /\ last \in Int /\ candidate \in Int
    /\ count \in Nat /\ hits \in Nat
    /\ trials \in [len : Int, made : Int, good : Int]

\* Before it comes to the verification there are no trials.
NoTrialsInv ==
    phase \in {"PRIMING", "BINARY_SEARCH"} => count = 0 /\ hits = 0 /\ trials = NoTrials

\* In a round of the verification, all trials since its first pulse were of the
\* candidate, and the hits are theirs.
RoundInv ==
    phase = "VERIFICATION" =>
        /\ count <= Pulses
        /\ sub # "IDLE" => active = candidate /\ count < Pulses
        /\ count = 0 => hits = 0 /\ (trials = NoTrials \/ trials.len # candidate)
        /\ count # 0 => trials = [len |-> candidate, made |-> count, good |-> hits]

-----------------------------------------------------------------------------
LEMMA CandidateIsNumber == ASSUME NEW len \in Int PROVE RoundUp(len) \in Int
<1>1. Grid \in Nat \ {0}
  BY LengthsAssumption
<1>2. (len + Grid - 1) \div Grid \in Int
  BY <1>1
<1> QED  BY <1>1, <1>2 DEF RoundUp

LEMMA NextPulseIsNumber == ASSUME NEW len \in Int PROVE Clamp(len) \in Int
<1>1. MinPulse \in Nat /\ MaxPulse \in Nat
  BY LengthsAssumption
<1> QED  BY <1>1 DEF Clamp

LEMMA NextStepIsNumber == ASSUME NEW s \in Int, NEW turns PROVE NextStep(s, turns) \in Int
BY DEF NextStep

LEMMA Concluded ==
    ASSUME NEW found \in Int, NumbersInv, Conclude(found)
    PROVE  /\ candidate' \in Int
           /\ phase' = "VERIFICATION" => sub' = "IDLE"
           /\ phase' # "VERIFICATION" => phase' = "COMPLETE_FAILURE"
           /\ UNCHANGED saved
BY CandidateIsNumber DEF Conclude, Fail, EnterPhase, NumbersInv

LEMMA Tested ==
    ASSUME NEW found \in Int, NEW low, NEW towards, NumbersInv, NextTest(found, low, towards)
    PROVE  /\ candidate' \in Int /\ pulse' \in Int /\ step' \in Int
           /\ phase' = "VERIFICATION" => sub' = "IDLE" \/ phase = "VERIFICATION"
           /\ phase' \notin {phase, "VERIFICATION"} => phase' = "COMPLETE_FAILURE"
           /\ UNCHANGED saved
<1> DEFINE s    == NextStep(step, direction # towards)
           next == Clamp(IF towards = "DOWN" THEN pulse - s ELSE pulse + s)
<1>1. s \in Int
  BY NextStepIsNumber DEF NumbersInv
<1>2. next \in Int
  BY <1>1, NextPulseIsNumber DEF NumbersInv
<1>3. step' = s
  BY DEF NextTest
<1>4. CASE pulse' = next /\ EnterSub("IDLE") /\ UNCHANGED candidate
  BY <1>1, <1>2, <1>3, <1>4 DEF EnterSub, NumbersInv
<1>5. CASE Conclude(found) /\ pulse' = IF found = 0 THEN next ELSE candidate'
  BY <1>1, <1>2, <1>3, <1>5, Concluded
<1> QED  BY <1>4, <1>5 DEF NextTest

\* A decision either goes on with the search, fails, or begins the verification.
LEMMA Decided ==
    ASSUME NumbersInv, phase = "BINARY_SEARCH", Decide
    PROVE  /\ candidate' \in Int /\ pulse' \in Int /\ step' \in Int /\ last' \in Int
           /\ phase' = "VERIFICATION" => sub' = "IDLE"
           /\ phase' \in {"BINARY_SEARCH", "VERIFICATION", "COMPLETE_FAILURE"}
           /\ UNCHANGED <<count, hits, trials, saved>>
<1>1. UNCHANGED <<count, hits, trials>>
  BY DEF Decide
<1>2. CASE DecideOnGrounds
  <2>1. last' \in Int
    BY <1>2 DEF DecideOnGrounds, Record, NumbersInv
  <2>2. CASE EndSearch(pulse)
    <3>1. Conclude(pulse) /\ pulse' \in {pulse, candidate'} /\ step' = step
      BY <2>2 DEF EndSearch
    <3> QED  BY <1>1, <2>1, <3>1, Concluded DEF NumbersInv
  <2>3. CASE NextTest(pulse, foundLow, "DOWN")
    <3>1. pulse \in Int
      BY DEF NumbersInv
    <3> QED  BY <1>1, <2>1, <2>3, <3>1, Tested
  <2> QED  BY <1>2, <2>2, <2>3 DEF DecideOnGrounds
<1>3. CASE DecideOnNone
  <2>1. last' \in Int /\ last \in Int
    BY <1>3 DEF DecideOnNone, NumbersInv
  <2>2. CASE EndSearch(last)
    <3>1. Conclude(last) /\ pulse' \in {pulse, candidate'} /\ step' = step
      BY <2>2 DEF EndSearch
    <3> QED  BY <1>1, <2>1, <3>1, Concluded DEF NumbersInv
  <2>3. CASE NextTest(last, TRUE, "UP")
    BY <1>1, <2>1, <2>3, Tested
  <2> QED  BY <1>3, <2>2, <2>3 DEF DecideOnNone
<1> QED  BY <1>2, <1>3 DEF Decide

-----------------------------------------------------------------------------
All == NumbersInv /\ NoTrialsInv /\ RoundInv

\* What leaves the trials and the phase alone, or ends the tune.
LEMMA NothingTried ==
    ASSUME All, UNCHANGED <<pulse, step, last, verify>>,
           \/ phase' = phase /\ active' = active /\ (sub' = "IDLE" \/ sub # "IDLE")
           \/ phase' \notin {"PRIMING", "BINARY_SEARCH", "VERIFICATION"}
    PROVE  All'
<1> USE DEF verify
<1>1. NumbersInv'
  BY DEF All, NumbersInv
<1>2. NoTrialsInv'
  BY DEF All, NoTrialsInv
<1>3. RoundInv'
  BY DEF All, RoundInv
<1> QED  BY <1>1, <1>2, <1>3 DEF All

\* What starts a tune anew.
LEMMA Cleared ==
    ASSUME NEW p \in Int, NEW s \in Int, ClearTune(p, s),
           phase' \in {"PRIMING", "IDLE"}
    PROVE  All'
<1>1. NumbersInv'
  BY DEF ClearTune, NumbersInv, NoTrials
<1>2. NoTrialsInv' /\ RoundInv'
  BY DEF ClearTune, NoTrialsInv, RoundInv
<1> QED  BY <1>1, <1>2 DEF All

LEMMA PrimeStep == ASSUME All, Prime PROVE All'
<1>1. UNCHANGED <<pulse, step, last, candidate, count, hits, trials>> /\ phase = "PRIMING"
  BY DEF Prime, search, verify
<1>2. phase' \in {"PRIMING", "BINARY_SEARCH", "COMPLETE_FAILURE"}
  BY DEF Prime, StartPulse, EnterSub, EnterPhase, Fail
<1>3. NumbersInv'
  BY <1>1 DEF All, NumbersInv
<1>4. NoTrialsInv'
  BY <1>1, <1>2 DEF All, NoTrialsInv
<1>5. RoundInv'
  BY <1>2 DEF RoundInv
<1> QED  BY <1>3, <1>4, <1>5 DEF All

LEMMA SearchStep == ASSUME All, Search PROVE All'
<1>0. phase = "BINARY_SEARCH"
  BY DEF Search
<1>1. CASE TestPulse \/ MeasureTest
  <2>1. UNCHANGED <<pulse, step, last, candidate, count, hits, trials>>
    BY <1>1 DEF TestPulse, MeasureTest, search, verify
  <2>2. phase' \in {"BINARY_SEARCH", "COMPLETE_FAILURE"}
    BY <1>0, <1>1 DEF TestPulse, MeasureTest, StartPulse, EnterSub, Fail
  <2>3. NumbersInv'
    BY <2>1 DEF All, NumbersInv
  <2>4. NoTrialsInv' /\ RoundInv'
    BY <1>0, <2>1, <2>2 DEF All, NoTrialsInv, RoundInv
  <2> QED  BY <2>3, <2>4 DEF All
<1>2. CASE Decide
  <2>1. /\ candidate' \in Int /\ pulse' \in Int /\ step' \in Int /\ last' \in Int
        /\ phase' = "VERIFICATION" => sub' = "IDLE"
        /\ phase' \in {"BINARY_SEARCH", "VERIFICATION", "COMPLETE_FAILURE"}
        /\ UNCHANGED <<count, hits, trials>>
    BY <1>0, <1>2, Decided DEF All
  <2>2. count = 0 /\ hits = 0 /\ trials = NoTrials
    BY <1>0 DEF All, NoTrialsInv
  <2>3. NumbersInv'
    BY <2>1 DEF All, NumbersInv
  <2>4. NoTrialsInv'
    BY <2>1, <2>2 DEF NoTrialsInv
  <2>5. RoundInv'
    BY <2>1, <2>2, CountsAssumption DEF RoundInv
  <2> QED  BY <2>3, <2>4, <2>5 DEF All
<1> QED  BY <1>1, <1>2 DEF Search

\* A trial of the verification is counted in the round and among the trials.
LEMMA MeasureStep ==
    ASSUME All, phase = "VERIFICATION", MeasureVerification, UNCHANGED <<step, last>> PROVE All'
<1> DEFINE so == IF trials.len = active THEN trials ELSE [NoTrials EXCEPT !.len = active]
<1>1. /\ count' = count + 1 /\ phase' = phase /\ sub' = "IDLE" /\ UNCHANGED <<candidate, pulse>>
      /\ active = candidate /\ count < Pulses
  BY DEF MeasureVerification, EnterSub, All, RoundInv
<1>2. count \in Nat /\ hits \in Nat /\ candidate \in Int
  BY DEF All, NumbersInv
<1>3. so = [len |-> candidate, made |-> count, good |-> hits]
  <2>1. CASE count = 0 /\ trials = NoTrials
    BY <1>1, <2>1 DEF All, RoundInv, NoTrials
  <2>2. CASE count = 0 /\ trials.len # candidate
    BY <1>1, <2>2 DEF All, RoundInv, NoTrials
  <2>3. CASE count # 0
    BY <1>1, <2>3 DEF All, RoundInv
  <2> QED  BY <2>1, <2>2, <2>3 DEF All, RoundInv
<1> HIDE DEF so
<1>4. hits' \in Nat /\ trials' = [len |-> candidate, made |-> count + 1, good |-> hits']
  <2>1. CASE grounds'
    <3>1. hits' = hits + 1 /\ trials' = [so EXCEPT !.made = @ + 1, !.good = @ + 1]
      BY <2>1 DEF MeasureVerification, so
    <3>2. hits' \in Nat
      BY <1>2, <3>1
    <3>3. trials' = [len |-> candidate, made |-> count + 1, good |-> hits + 1]
      BY <1>3, <3>1
    <3> QED  BY <3>1, <3>2, <3>3
  <2>2. CASE ~grounds'
    <3>1. hits' = hits /\ trials' = [so EXCEPT !.made = @ + 1, !.good = @]
      BY <2>2 DEF MeasureVerification, so
    <3>2. hits' \in Nat
      BY <1>2, <3>1
    <3>3. trials' = [len |-> candidate, made |-> count + 1, good |-> hits]
      BY <1>3, <3>1
    <3> QED  BY <3>1, <3>2, <3>3
  <2> QED  BY <2>1, <2>2
<1>5. NumbersInv'
  BY <1>1, <1>2, <1>4 DEF All, NumbersInv
<1>6. NoTrialsInv' /\ RoundInv'
  BY <1>1, <1>2, <1>4, CountsAssumption DEF NoTrialsInv, RoundInv
<1> QED  BY <1>5, <1>6 DEF All

LEMMA RetryStep ==
    ASSUME All, phase = "VERIFICATION", EvaluateRound, UNCHANGED <<step, last>> PROVE All'
<1>1. count = Pulses /\ count # 0 /\ trials.len = candidate /\ candidate \in Int
  BY CountsAssumption DEF EvaluateRound, Idle, All, RoundInv, NumbersInv
<1>2. CASE Succeed /\ UNCHANGED <<pulse, verify, active, motor>>
  BY <1>2, NothingTried DEF Succeed
<1>3. CASE Fail("verification") /\ UNCHANGED <<pulse, candidate, count, hits, trials, active, motor>>
  <2>1. phase' = "COMPLETE_FAILURE"
    BY <1>3 DEF Fail
  <2>2. NumbersInv'
    BY <1>3 DEF All, NumbersInv
  <2> QED  BY <2>1, <2>2 DEF All, NoTrialsInv, RoundInv
<1>4. CASE /\ candidate' = candidate + Accuracy /\ pulse' = candidate'
           /\ count' = 0 /\ ClearHits /\ UNCHANGED trials
           /\ StartPulse(candidate')
  <2>1. Accuracy \in Nat \ {0}
    BY LengthsAssumption
  <2>2. candidate' \in Int /\ trials'.len # candidate' /\ pulse' = candidate'
    BY <1>1, <1>4, <2>1
  <2>3. count' = 0 /\ hits' = 0 /\ phase' = phase /\ active' = candidate'
    BY <1>4 DEF ClearHits, StartPulse, EnterSub
  <2>4. NumbersInv'
    BY <1>4, <2>2, <2>3 DEF All, NumbersInv
  <2>5. NoTrialsInv' /\ RoundInv'
    BY <2>2, <2>3, CountsAssumption DEF NoTrialsInv, RoundInv
  <2> QED  BY <2>4, <2>5 DEF All
<1> QED  BY <1>2, <1>3, <1>4 DEF EvaluateRound, Retry

LEMMA VerifyStep == ASSUME All, Verify PROVE All'
<1>1. phase = "VERIFICATION" /\ UNCHANGED <<step, last>>
  BY DEF Verify
<1>2. CASE VerificationPulse
  <2>1. /\ count < Pulses /\ active' = candidate /\ phase' = phase /\ pulse' = candidate
        /\ UNCHANGED <<candidate, count, hits, trials>>
    BY <1>2 DEF VerificationPulse, StartPulse, EnterSub, verify
  <2>2. NumbersInv'
    BY <1>1, <2>1 DEF All, NumbersInv
  <2>3. NoTrialsInv' /\ RoundInv'
    BY <1>1, <2>1 DEF All, NoTrialsInv, RoundInv
  <2> QED  BY <2>2, <2>3 DEF All
<1> QED  BY <1>1, <1>2, RetryStep, MeasureStep DEF Verify

LEMMA PulseStep == ASSUME All, AwaitPulse PROVE All'
<1>1. UNCHANGED <<pulse, step, last, verify, active>>
  BY DEF AwaitPulse, PulseExecuted, DelayOver, ScaleSettled, search
<1>2. sub # "IDLE"
  BY DEF AwaitPulse, PulseExecuted, DelayOver, ScaleSettled
<1>3. phase' = phase \/ phase' = "COMPLETE_FAILURE"
  BY DEF AwaitPulse, PulseExecuted, DelayOver, ScaleSettled, EnterSub, Fail
<1> QED  BY <1>1, <1>2, <1>3, NothingTried

LEMMA TuneInit == Init => All
<1> SUFFICES ASSUME Init PROVE All
  OBVIOUS
<1>1. NumbersInv
  BY DEF Init, NumbersInv, NoTrials
<1> QED  BY <1>1 DEF Init, All, NoTrialsInv, RoundInv

LEMMA TuneStep == ASSUME All, [Next]_vars PROVE All'
<1>1. CASE BeginTune
  <2>1. CASE running
    <3>1. UNCHANGED <<pulse, step, last, verify, phase, sub, active>>
      BY <1>1, <2>1 DEF BeginTune, search
    <3> QED  BY <3>1, NothingTried
  <2>2. CASE ~running
    <3>1. ClearTune(MaxPulse, MaxPulse - MinPulse) /\ phase' = "PRIMING"
      BY <1>1, <2>2 DEF BeginTune
    <3> QED  BY <3>1, Cleared, LengthsAssumption
  <2> QED  BY <2>1, <2>2
<1>2. CASE UpdateTune
  <2>1. CASE cancelled
    <3>1. UNCHANGED <<pulse, step, last, verify>> /\ phase' = "COMPLETE_FAILURE"
      BY <1>2, <2>1 DEF UpdateTune, Advance, Fail, search
    <3> QED  BY <3>1, NothingTried
  <2>2. CASE ~cancelled
    BY <1>2, <2>2, PulseStep, PrimeStep, SearchStep, VerifyStep DEF UpdateTune, Advance
  <2> QED  BY <2>1, <2>2
<1>3. CASE Restart
  BY <1>3, Cleared DEF Restart
<1>4. CASE PressCancel \/ PressOk \/ LoseScreen \/ PulseEnds \/ TareEnds \/ UNCHANGED vars
  <2>1. UNCHANGED <<pulse, step, last, verify, phase, sub, active>>
    BY <1>4 DEF PressCancel, PressOk, LoseScreen, PulseEnds, TareEnds, vars, search
  <2> QED  BY <2>1, NothingTried
<1> QED  BY <1>1, <1>2, <1>3, <1>4 DEF Next, Press

-----------------------------------------------------------------------------
\* Only a verified candidate is saved.
LEMMA OnlyVerifiedIsSaved ==
    ASSUME NumbersInv, UpdateTune
    PROVE  \/ UNCHANGED saved
           \/ phase = "VERIFICATION" /\ EvaluateRound /\ EnoughHits /\ Save(candidate)
<1>1. CASE Fail("cancelled")
  BY <1>1 DEF Fail
<1>2. CASE AwaitPulse
  BY <1>2 DEF AwaitPulse, PulseExecuted, DelayOver, ScaleSettled, EnterSub, Fail
<1>3. CASE Prime
  BY <1>3 DEF Prime, StartPulse, EnterSub, EnterPhase, Fail
<1>4. CASE Search
  <2>1. phase = "BINARY_SEARCH"
    BY <1>4 DEF Search
  <2>2. CASE TestPulse \/ MeasureTest
    BY <2>2 DEF TestPulse, MeasureTest, StartPulse, EnterSub, Fail
  <2>3. CASE Decide
    BY <2>1, <2>3, Decided
  <2> QED  BY <1>4, <2>2, <2>3 DEF Search
<1>5. CASE Verify
  <2>1. CASE VerificationPulse \/ MeasureVerification
    BY <2>1 DEF VerificationPulse, MeasureVerification, StartPulse, EnterSub
  <2>2. CASE EvaluateRound
    <3>1. CASE EnoughHits /\ Succeed
      BY <1>5, <2>2, <3>1 DEF Succeed, Verify
    <3>2. CASE Retry
      BY <3>2 DEF Retry, Fail, StartPulse, EnterSub
    <3> QED  BY <2>2, <3>1, <3>2 DEF EvaluateRound
  <2> QED  BY <1>5, <2>1, <2>2 DEF Verify
<1> QED  BY <1>1, <1>2, <1>3, <1>4, <1>5 DEF UpdateTune, Advance

\* What comes into use was verified, or loaded.
LEMMA LatencyStep ==
    ASSUME All, [Next]_vars, latency' # latency
    PROVE  \/ trials.len = latency' /\ trials.made = Pulses /\ trials.good >= Needed
           \/ Restarted
<1>1. CASE Restart
  BY <1>1 DEF Restart, Restarted
<1>2. CASE phase = "VERIFICATION" /\ EvaluateRound /\ EnoughHits /\ Save(candidate)
  <2>1. count = Pulses /\ count # 0
    BY <1>2, CountsAssumption DEF EvaluateRound, Idle, All, RoundInv, NumbersInv
  <2>2. trials = [len |-> candidate, made |-> Pulses, good |-> hits] /\ hits >= Needed
    BY <1>2, <2>1 DEF All, RoundInv, EnoughHits
  <2>3. latency' = candidate
    BY <1>2 DEF Save
  <2> QED  BY <2>2, <2>3
<1>3. CASE UpdateTune
  BY <1>2, <1>3, OnlyVerifiedIsSaved DEF All, saved
<1>4. CASE Press \/ PulseEnds \/ TareEnds \/ UNCHANGED vars
  BY <1>4 DEF Press, BeginTune, PressCancel, PressOk, LoseScreen, PulseEnds, TareEnds, vars, saved
<1> QED
  BY <1>1, <1>3, <1>4 DEF Next

\* The latency in use only ever changes to a candidate whose last verification
\* pulses, all of this length, were enough of them successful, for every grinder
\* and however the search and the rounds before went, or back to what a restart
\* loads (run_verification(), save_motor_latency(), load_motor_latency()).
THEOREM SavedIsVerified == Spec => LatencyIsVerified
<1>1. All /\ [Next]_vars => All'
  BY TuneStep
<1>2. All /\ [Next]_vars =>
          [ latency' # latency =>
                \/ trials.len = latency' /\ trials.made = Pulses /\ trials.good >= Needed
                \/ Restarted ]_vars
  BY LatencyStep
<1> QED  BY TuneInit, <1>1, <1>2, PTL DEF Spec, LatencyIsVerified

-----------------------------------------------------------------------------
\* The search for the length of a steady grinder (LongerIsEnough).

InSearch(len) == len \in MinPulse..MaxPulse
Good(len)  == InSearch(len) /\ Answers(len \div Unit)
Bad(len)   == InSearch(len) /\ ~Answers(len \div Unit)
Close(len) == \A ms \in Tried : Answers(ms) => len - ms * Unit < Accuracy + Grid

\* No pulse was too short yet: first the longest is tried, then the shortest.
AtLongest(w) ==
    /\ ~foundLow /\ last = 0 /\ pulse = MaxPulse /\ direction = "DOWN" /\ step = w[0]
    /\ iteration = 0
AtShortest(w) ==
    /\ ~foundLow /\ last = MaxPulse /\ pulse = MinPulse /\ direction = "DOWN" /\ step = w[0]
    /\ iteration = 1

\* After i turns: a pulse halfway between a bad and a good length, or a second
\* one at either end of the half that is left.
Middle(i) ==
    pulse = last - step /\ Good(last) /\ Bad(last - 2 * step) /\ iteration <= 2 * i
LowerEnd(i) ==
    /\ direction = "DOWN" /\ pulse = last - step /\ Good(last) /\ Bad(pulse)
    /\ iteration <= 2 * i + 1 /\ step > Accuracy
UpperEnd(i) ==
    /\ direction = "UP" /\ pulse = last /\ Good(last) /\ Bad(last - step)
    /\ iteration <= 2 * i + 1 /\ step > Accuracy
Turned(w, H) ==
    /\ foundLow /\ step > 0
    /\ \E i \in 1..H : step = w[i] /\ (Middle(i) \/ LowerEnd(i) \/ UpperEnd(i))

NotCancelled == screen = "AUTOTUNING" /\ running => ~cancelled
PrimingPlan(w) ==
    phase = "PRIMING" => AtLongest(w) /\ (sub # "IDLE" => active = Priming)
SearchPlan(w, H) ==
    phase = "BINARY_SEARCH" =>
        /\ AtLongest(w) \/ AtShortest(w) \/ Turned(w, H)
        /\ sub # "IDLE" => active = pulse
        /\ sub = "RESULT_LOGGED" => grounds = Answers(pulse \div Unit)
VerifyPlan ==
    phase = "VERIFICATION" => Good(candidate) /\ Close(candidate) /\ hits = count
Outcome ==
    /\ phase = "COMPLETE_FAILURE" => reason = "settling"
    /\ phase = "COMPLETE_SUCCESS" => Close(candidate)
Plan(w, H) == NotCancelled /\ PrimingPlan(w) /\ SearchPlan(w, H) /\ VerifyPlan /\ Outcome

-----------------------------------------------------------------------------
\* Lengths and the milliseconds they are cut to.

LEMMA Quotient ==
    ASSUME NEW a \in Nat, NEW d \in Nat \ {0}
    PROVE  a \div d \in Nat /\ d * (a \div d) <= a /\ a < d * (a \div d) + d
BY Z3

LEMMA ExactQuotient ==
    ASSUME NEW a \in Nat, NEW d \in Nat \ {0}, a % d = 0 PROVE a = d * (a \div d)
BY Z3

LEMMA TimesMonotone ==
    ASSUME NEW a \in Int, NEW b \in Int, NEW d \in Nat \ {0}, a < b PROVE d * a + d <= d * b
BY Z3

LEMMA QuotientMonotone ==
    ASSUME NEW a \in Nat, NEW b \in Nat, NEW d \in Nat \ {0}, a <= b PROVE a \div d <= b \div d
<1> DEFINE x == a \div d
           y == b \div d
<1>1. x \in Nat /\ y \in Nat /\ d * x <= a /\ b < d * y + d
  BY Quotient
<1>2. ASSUME y < x PROVE FALSE
  <2>1. d * y + d <= d * x
    BY <1>1, <1>2, TimesMonotone
  <2>2. d * y \in Int /\ d * x \in Int
    BY <1>1
  <2> HIDE DEF x, y
  <2> QED  BY <1>1, <2>1, <2>2
<1> QED  BY <1>1, <1>2

LEMMA Lengths ==
    /\ MinPulse \in Nat \ {0} /\ MaxPulse \in Nat \ {0} /\ MinPulse <= MaxPulse
    /\ Accuracy \in Nat \ {0} /\ Grid \in Nat \ {0} /\ Unit \in Nat \ {0}
<1>1. /\ MinPulse \in Nat \ {0} /\ MaxPulse \in Nat \ {0} /\ Default \in Nat \ {0}
      /\ Accuracy \in Nat \ {0} /\ Grid \in Nat \ {0} /\ Unit \in Nat \ {0}
  BY LengthsAssumption
<1>2. MinPulse <= Default /\ Default <= MaxPulse
  BY LengthsAssumption
<1> QED  BY <1>1, <1>2

LEMMA IsTried == ASSUME NEW len, InSearch(len) PROVE len \div Unit \in Tried
<1>1. len \in Nat /\ MinPulse <= len /\ len <= MaxPulse
  BY Lengths DEF InSearch
<1>2. MinPulse \div Unit \in Nat /\ MaxPulse \div Unit \in Nat /\ len \div Unit \in Nat
  BY <1>1, Lengths, Quotient
<1>3. MinPulse \div Unit <= len \div Unit /\ len \div Unit <= MaxPulse \div Unit
  BY <1>1, Lengths, QuotientMonotone
<1> QED  BY <1>2, <1>3 DEF Tried

\* Such a grinder has one answer to a pulse, and never less to a longer one.
LEMMA Steady ==
    ASSUME LongerIsEnough
    PROVE  /\ \A ms \in Tried : Results(grinder, ms) = {Answers(ms)}
           /\ \A a, b \in Tried : a <= b /\ Answers(a) => Answers(b)
           /\ Good(MaxPulse)
<1>1. PICK t \in Tried : \A ms \in Tried : Results(grinder, ms) = {ms >= t}
  BY DEF LongerIsEnough
<1>2. \A ms \in Tried : Answers(ms) = (ms >= t)
  <2> SUFFICES ASSUME NEW ms \in Tried PROVE Answers(ms) = (ms >= t)
    OBVIOUS
  <2>1. Results(grinder, ms) = {ms >= t}
    BY <1>1
  <2>2. CASE ms >= t
    <3>1. (ms >= t) = TRUE
      BY <2>2
    <3> QED  BY <2>1, <3>1, Zenon DEF Answers
  <2>3. CASE ~(ms >= t)
    <3>1. (ms >= t) = FALSE
      BY <2>3
    <3>2. {FALSE} # {TRUE}
      BY Zenon
    <3> QED  BY <2>1, <3>1, <3>2, Zenon DEF Answers
  <2> QED  BY <2>2, <2>3
<1>3. Tried \subseteq Int
  BY Lengths, Quotient DEF Tried
<1>4. \A ms \in Tried : Results(grinder, ms) = {Answers(ms)}
  BY <1>1, <1>2, Zenon
<1>5. \A a, b \in Tried : a <= b /\ Answers(a) => Answers(b)
  <2> SUFFICES ASSUME NEW a \in Tried, NEW b \in Tried, a <= b, Answers(a) PROVE Answers(b)
    OBVIOUS
  <2>1. a >= t
    BY <1>2
  <2>2. b >= t
    BY <1>3, <2>1
  <2> QED  BY <1>2, <2>2
<1>6. Good(MaxPulse)
  <2>1. InSearch(MaxPulse)
    BY Lengths DEF InSearch
  <2>2. MaxPulse \div Unit \in Tried
    BY <2>1, IsTried
  <2>3. MaxPulse \div Unit >= t
    BY <2>2, <1>3 DEF Tried
  <2> QED  BY <1>2, <2>1, <2>2, <2>3 DEF Good
<1> QED  BY <1>4, <1>5, <1>6

LEMMA Rounded ==
    ASSUME NEW len, InSearch(len)
    PROVE  RoundUp(len) \in Nat /\ len <= RoundUp(len) /\ RoundUp(len) < len + Grid
           /\ InSearch(RoundUp(len))
<1> DEFINE q == (len + Grid - 1) \div Grid
           m == MaxPulse \div Grid
<1>1. len \in Nat /\ MinPulse <= len /\ len <= MaxPulse
  BY Lengths DEF InSearch
<1>2. len + Grid - 1 \in Nat
  BY <1>1, Lengths
<1>3. q \in Nat /\ Grid * q <= len + Grid - 1 /\ len + Grid - 1 < Grid * q + Grid
  BY <1>2, Lengths, Quotient
<1>4. m \in Nat /\ MaxPulse = Grid * m
  BY Lengths, GridAssumption, Quotient, ExactQuotient
<1>5. RoundUp(len) = Grid * q /\ Grid * q \in Nat /\ Grid * m \in Nat
  BY <1>3, <1>4, Lengths DEF RoundUp
<1> HIDE DEF q, m
<1>6. ~(m < q)
  <2> SUFFICES ASSUME m < q PROVE FALSE
    OBVIOUS
  <2>1. Grid * m + Grid <= Grid * q
    BY <1>3, <1>4, Lengths, TimesMonotone
  <2> QED  BY <1>1, <1>3, <1>4, <1>5, <2>1, Lengths
<1>7. Grid * q <= Grid * m
  <2>1. CASE q = m
    BY <1>5, <2>1
  <2>2. CASE q < m
    <3>1. Grid * q + Grid <= Grid * m
      BY <1>3, <1>4, <2>2, Lengths, TimesMonotone
    <3> QED  BY <1>5, <3>1, Lengths
  <2> QED  BY <1>3, <1>4, <1>6, <2>1, <2>2
<1> QED  BY <1>1, <1>3, <1>4, <1>5, <1>7, Lengths DEF InSearch

\* A good length is the candidate to verify when it is the shortest of the search,
\* or a length just below it is bad.
LEMMA Candidate ==
    ASSUME LongerIsEnough, NEW found, Good(found),
           found = MinPulse \/ \E len : Bad(len) /\ found - len <= Accuracy
    PROVE  Good(RoundUp(found)) /\ Close(RoundUp(found))
<1> DEFINE c == RoundUp(found)
<1>1. InSearch(found) /\ Answers(found \div Unit) /\ found \in Nat
  BY Lengths DEF Good, InSearch
<1>2. c \in Nat /\ found <= c /\ c < found + Grid /\ InSearch(c)
  BY <1>1, Rounded
<1>3. Good(c)
  <2>1. found \div Unit <= c \div Unit
    BY <1>1, <1>2, Lengths, QuotientMonotone
  <2>2. found \div Unit \in Tried /\ c \div Unit \in Tried
    BY <1>1, <1>2, IsTried
  <2> QED  BY <1>1, <1>2, <2>1, <2>2, Steady DEF Good
<1>4. Close(c)
  <2> SUFFICES ASSUME NEW ms \in Tried, Answers(ms) PROVE c - ms * Unit < Accuracy + Grid
    BY DEF Close
  <2>1. ms \in Nat /\ MinPulse \div Unit <= ms
    BY Lengths, Quotient DEF Tried
  <2>2. CASE found = MinPulse
    <3> DEFINE a == MinPulse \div Unit
    <3>1. MinPulse = Unit * a /\ a \in Nat
      BY Lengths, GridAssumption, Quotient, ExactQuotient
    <3>2. Unit * a <= Unit * ms
      <4>1. CASE a = ms
        BY <4>1, <2>1, Lengths
      <4>2. CASE a < ms
        <5>1. Unit * a + Unit <= Unit * ms
          BY <2>1, <3>1, <4>2, Lengths, TimesMonotone
        <5>2. Unit * a \in Nat /\ Unit * ms \in Nat
          BY <2>1, <3>1, Lengths
        <5> HIDE DEF a
        <5> QED  BY <5>1, <5>2, Lengths
      <4> QED  BY <2>1, <3>1, <4>1, <4>2
    <3>3. Unit * ms \in Nat /\ ms * Unit = Unit * ms
      BY <2>1, Lengths
    <3> HIDE DEF a, c
    <3> QED  BY <1>2, <2>2, <3>1, <3>2, <3>3, Lengths
  <2>3. ASSUME NEW len, Bad(len), found - len <= Accuracy
        PROVE  c - ms * Unit < Accuracy + Grid
    <3> DEFINE b == len \div Unit
    <3>1. InSearch(len) /\ ~Answers(b) /\ len \in Nat
      BY <2>3, Lengths DEF Bad, InSearch
    <3>2. b \in Nat /\ len < Unit * b + Unit
      BY <3>1, Lengths, Quotient
    <3>3. b \in Tried
      BY <3>1, IsTried
    <3>4. b < ms
      BY <2>1, <3>1, <3>2, <3>3, Steady
    <3>5. Unit * b + Unit <= Unit * ms
      BY <2>1, <3>2, <3>4, Lengths, TimesMonotone
    <3>6. Unit * ms \in Nat /\ ms * Unit = Unit * ms /\ Unit * b \in Nat
      BY <2>1, <3>2, Lengths
    <3> HIDE DEF b, c
    <3> QED  BY <1>1, <1>2, <2>3, <3>1, <3>2, <3>5, <3>6, Lengths
  <2> QED  BY <2>2, <2>3
<1> QED  BY <1>3, <1>4

-----------------------------------------------------------------------------
\* The steps of the search.

LEMMA HalfStep ==
    ASSUME NEW w, NEW H, Halving(w, H), NEW i \in 0..H, w[i] > Accuracy
    PROVE  /\ i + 1 \in 1..H /\ w[i + 1] \in Nat /\ w[i + 1] > 0
           /\ w[i] = 2 * w[i + 1] /\ w[i] \div 2 = w[i + 1]
<1>1. H \in Nat \ {0} /\ w \in [0..H -> Nat] /\ w[H] <= Accuracy
  BY DEF Halving
<1>2. i \in Nat /\ i <= H /\ w[i] \in Nat /\ w[H] \in Nat
  BY <1>1
<1>3. i # H
  BY <1>1, <1>2, Lengths
<1>4. i + 1 \in 1..H /\ i + 1 \in 0..H /\ i \in 0..H - 1
  BY <1>1, <1>2, <1>3
<1>5. w[i + 1] \in Nat /\ w[i] = 2 * w[i + 1]
  BY <1>1, <1>4 DEF Halving
<1> QED  BY <1>2, <1>4, <1>5, Lengths

\* The search goes on with the next pulse, or ends with a candidate.
GoesOn(next, s, towards) ==
    /\ pulse' = next /\ step' = s /\ direction' = towards /\ iteration' = iteration + 1
    /\ phase' = phase /\ sub' = "IDLE"
Concludes(found) ==
    phase' = "VERIFICATION" /\ sub' = "IDLE" /\ candidate' = RoundUp(found)

LEMMA Continued ==
    ASSUME NEW found \in Nat, NEW low, NEW towards, NextTest(found, low, towards),
           NEW s \in Nat, s = NextStep(step, direction # towards),
           NEW next, next = IF towards = "DOWN" THEN pulse - s ELSE pulse + s,
           InSearch(next),
           \/ next > MinPulse
           \/ low /\ s > Accuracy
           \/ ~low /\ found > MinPulse
    PROVE  GoesOn(next, s, towards)
<1>1. Clamp(next) = next
  BY Lengths DEF Clamp, InSearch
<1> DEFINE goOn == \/ next > MinPulse \/ (low /\ s > Accuracy)
                   \/ (~low /\ ~(found > 0 /\ found <= MinPulse))
<1>2. goOn
  <2>1. CASE next > MinPulse
    BY <2>1
  <2>2. CASE low /\ s > Accuracy
    BY <2>2
  <2>3. CASE ~low /\ found > MinPulse
    <3>1. ~(found <= MinPulse)
      BY <2>3, Lengths
    <3> QED  BY <2>3, <3>1
  <2> QED  BY <2>1, <2>2, <2>3
<1>3. /\ step' = s /\ direction' = towards
      /\ goOn => /\ pulse' = next /\ iteration' = NextIteration(iteration) /\ EnterSub("IDLE")
  BY <1>1, Zenon DEF NextTest
<1> QED  BY <1>2, <1>3 DEF GoesOn, NextIteration, EnterSub

LEMMA ContinuedDown ==
    ASSUME NEW found \in Nat, NEW low, NextTest(found, low, "DOWN"),
           NEW s \in Nat, s = NextStep(step, direction # "DOWN"), InSearch(pulse - s),
           pulse - s > MinPulse \/ (low /\ s > Accuracy) \/ (~low /\ found > MinPulse)
    PROVE  GoesOn(pulse - s, s, "DOWN")
<1> DEFINE next == pulse - s
<1>1. next = IF "DOWN" = "DOWN" THEN pulse - s ELSE pulse + s
  OBVIOUS
<1>2. InSearch(next) /\ (next > MinPulse \/ (low /\ s > Accuracy) \/ (~low /\ found > MinPulse))
  OBVIOUS
<1> HIDE DEF next
<1>3. GoesOn(next, s, "DOWN")
  BY <1>1, <1>2, Continued
<1> QED  BY <1>3 DEF next

LEMMA ContinuedUp ==
    ASSUME NEW found \in Nat, NEW low, NextTest(found, low, "UP"),
           NEW s \in Nat, s = NextStep(step, direction # "UP"), InSearch(pulse + s),
           pulse + s > MinPulse
    PROVE  GoesOn(pulse + s, s, "UP")
<1> DEFINE next == pulse + s
<1>1. next = IF "UP" = "DOWN" THEN pulse - s ELSE pulse + s
  OBVIOUS
<1>2. InSearch(next) /\ next > MinPulse
  OBVIOUS
<1> HIDE DEF next
<1>3. GoesOn(next, s, "UP")
  BY <1>1, <1>2, Continued
<1> QED  BY <1>3 DEF next

LEMMA Stopped ==
    ASSUME NEW found \in Nat, NEW low, NEW towards, NextTest(found, low, towards),
           Clamp(IF towards = "DOWN" THEN pulse - NextStep(step, direction # towards)
                                     ELSE pulse + NextStep(step, direction # towards)) = MinPulse,
           ~low, found > 0 /\ found <= MinPulse
    PROVE  Conclude(found)
<1>1. ~(MinPulse > MinPulse)
  BY Lengths
<1> QED  BY <1>1, Zenon DEF NextTest

LEMMA Concluding == ASSUME NEW found, Conclude(found), Good(found) PROVE Concludes(found)
<1>1. found # 0
  BY Lengths DEF Good, InSearch
<1> QED  BY <1>1 DEF Conclude, Concludes, EnterPhase

\* What the search can come to from a decision.
Decision(w, H) ==
    \/ phase' = phase /\ sub' = "IDLE" /\ (AtShortest(w)' \/ Turned(w, H)')
    \/ phase' = "VERIFICATION" /\ sub' = "IDLE" /\ Good(candidate') /\ Close(candidate')

LEMMA GrinderStays ==
    ASSUME UNCHANGED grinder
    PROVE  /\ LongerIsEnough' <=> LongerIsEnough
           /\ \A ms : Answers(ms)' <=> Answers(ms)
           /\ \A len : (Good(len)' <=> Good(len)) /\ (Bad(len)' <=> Bad(len))
                       /\ (Close(len)' <=> Close(len))
BY DEF LongerIsEnough, Answers, Good, Bad, Close, InSearch, Tried

\* A length that is good concludes the search when none much shorter is.
LEMMA Found ==
    ASSUME LongerIsEnough, NEW w, NEW H, NEW found, Good(found), Conclude(found),
           found = MinPulse \/ \E len : Bad(len) /\ found - len <= Accuracy
    PROVE  Decision(w, H)
<1>1. Concludes(found)
  BY Concluding
<1>2. Good(RoundUp(found)) /\ Close(RoundUp(found))
  BY Candidate
<1> QED  BY <1>1, <1>2 DEF Decision, Concludes

LEMMA FromLongest ==
    ASSUME NEW w, NEW H, Halving(w, H), LongerIsEnough, UNCHANGED grinder,
           AtLongest(w), Decide, grounds = Answers(pulse \div Unit)
    PROVE  Decision(w, H)
<1>1. Good(MaxPulse) /\ InSearch(MaxPulse)
  BY Steady DEF Good
<1>2. grounds /\ DecideOnGrounds
  BY <1>1 DEF AtLongest, Good, Decide, DecideOnNone
<1>3. NextTest(pulse, foundLow, "DOWN") /\ last' = MaxPulse /\ ~foundLow /\ foundLow' = foundLow
  BY <1>2 DEF DecideOnGrounds, AtLongest, Record
<1>4. pulse = MaxPulse /\ step = MaxPulse - MinPulse /\ direction = "DOWN" /\ iteration = 0
  BY DEF AtLongest, Halving
<1>5. NextStep(step, direction # "DOWN") = step
  BY <1>4 DEF NextStep
<1>6. pulse - step = MinPulse /\ InSearch(MinPulse) /\ Clamp(MinPulse) = MinPulse
  BY <1>4, Lengths DEF InSearch, Clamp
<1>7. CASE MaxPulse > MinPulse
  <2>1. pulse \in Nat /\ step \in Nat /\ pulse > MinPulse
    BY <1>4, <1>7, Lengths
  <2>2. GoesOn(pulse - step, step, "DOWN")
    BY <1>3, <1>5, <1>6, <2>1, ContinuedDown
  <2>3. AtShortest(w)'
    BY <1>3, <1>4, <1>6, <2>2 DEF AtShortest, GoesOn, AtLongest
  <2> QED  BY <2>2, <2>3 DEF Decision, GoesOn
<1>8. CASE ~(MaxPulse > MinPulse)
  <2>1. MaxPulse = MinPulse
    BY <1>8, Lengths
  <2>2. Conclude(pulse)
    BY <1>3, <1>4, <1>5, <1>6, <2>1, Lengths, Stopped
  <2> QED  BY <1>1, <1>4, <2>1, <2>2, Found
<1> QED  BY <1>7, <1>8

\* A turn of the search halves the step.
LEMMA Halved ==
    ASSUME NEW w, NEW H, Halving(w, H), NEW i \in 0..H, step = w[i], step > Accuracy,
           NEW next, NEW towards, GoesOn(next, NextStep(step, TRUE), towards),
           UNCHANGED grinder, iteration \in Int, iteration <= 2 * i + 1,
           foundLow', Good(last'), next = last' - step', Bad(last' - 2 * step')
    PROVE  Turned(w, H)'
<1>1. /\ i + 1 \in 1..H /\ w[i + 1] \in Nat /\ w[i + 1] > 0 /\ step' = w[i + 1]
  BY HalfStep DEF GoesOn, NextStep
<1>2. iteration' = iteration + 1 /\ pulse' = next
  BY DEF GoesOn
<1>3. iteration' <= 2 * (i + 1)
  BY <1>2
<1>4. Middle(i + 1)'
  BY <1>2, <1>3, GrinderStays DEF Middle
<1> QED  BY <1>1, <1>4 DEF Turned

LEMMA FromShortest ==
    ASSUME NEW w, NEW H, Halving(w, H), LongerIsEnough, UNCHANGED grinder,
           AtShortest(w), Decide, grounds = Answers(pulse \div Unit)
    PROVE  Decision(w, H)
<1>1. Good(MaxPulse)
  BY Steady
<1>2. /\ pulse = MinPulse /\ step = w[0] /\ w[0] = MaxPulse - MinPulse /\ direction = "DOWN"
      /\ iteration = 1 /\ last = MaxPulse /\ ~foundLow
  BY DEF AtShortest, Halving
<1>3. InSearch(MinPulse) /\ InSearch(MaxPulse)
  BY Lengths DEF InSearch
<1>4. CASE grounds
  <2>1. NextTest(pulse, foundLow, "DOWN")
    BY <1>2, <1>4 DEF Decide, DecideOnGrounds, DecideOnNone
  <2>2. NextStep(step, direction # "DOWN") = step /\ Clamp(pulse - step) = MinPulse
    BY <1>2, Lengths DEF NextStep, Clamp
  <2>3. Conclude(pulse)
    BY <1>2, <2>1, <2>2, Lengths, Stopped
  <2>4. Good(pulse)
    BY <1>2, <1>3, <1>4 DEF Good
  <2> QED  BY <1>2, <2>3, <2>4, Found
<1>5. CASE ~grounds
  <2>1. Bad(MinPulse)
    BY <1>2, <1>3, <1>5 DEF Bad
  <2>2. DecideOnNone /\ foundLow' /\ last' = MaxPulse
    BY <1>2, <1>5 DEF Decide, DecideOnGrounds, DecideOnNone
  <2>3. CASE step <= Accuracy
    <3>1. Conclude(last)
      BY <2>2, <2>3 DEF DecideOnNone, EndSearch
    <3>2. last - MinPulse <= Accuracy
      BY <1>2, <2>3
    <3> QED  BY <1>1, <1>2, <2>1, <3>1, <3>2, Found
  <2>4. CASE ~(step <= Accuracy)
    <3>1. NextTest(last, TRUE, "UP")
      BY <2>2, <2>4 DEF DecideOnNone
    <3>2. step \in Nat /\ step > Accuracy /\ 0 \in 0..H
      BY <1>2, <2>4, Lengths DEF Halving
    <3> DEFINE s == NextStep(step, TRUE)
    <3>3. s \in Nat /\ s > 0 /\ step = 2 * s /\ s = NextStep(step, direction # "UP")
      BY <1>2, <3>2, HalfStep DEF NextStep
    <3> HIDE DEF s
    <3>4. pulse + s = MaxPulse - s /\ InSearch(pulse + s) /\ pulse + s > MinPulse
      BY <1>2, <3>3, Lengths DEF InSearch
    <3>5. GoesOn(pulse + s, s, "UP")
      BY <1>2, <3>1, <3>3, <3>4, Lengths, ContinuedUp
    <3>6. last' - 2 * s = MinPulse /\ step' = s /\ Good(last') /\ Bad(last' - 2 * s)
      BY <1>1, <1>2, <2>1, <2>2, <3>3, <3>5, Lengths DEF GoesOn
    <3>7. iteration \in Int /\ iteration <= 2 * 0 + 1
      BY <1>2
    <3>8. Turned(w, H)'
      BY <1>2, <2>2, <3>2, <3>4, <3>5, <3>6, <3>7, Halved DEF s
    <3> QED  BY <3>5, <3>8 DEF Decision, GoesOn
  <2> QED  BY <2>3, <2>4
<1> QED  BY <1>4, <1>5

\* A turn after a pulse that was long enough, and one after a pulse that was not.
LEMMA TurnDown ==
    ASSUME NEW w, NEW H, Halving(w, H), NEW i \in 0..H, step = w[i], step > Accuracy,
           UNCHANGED grinder, iteration \in Int, iteration <= 2 * i + 1, foundLow', last' = pulse,
           Good(pulse), Bad(pulse - step), NEW found \in Nat, NEW low,
           NextTest(found, low, "DOWN"), direction # "DOWN"
    PROVE  phase' = phase /\ sub' = "IDLE" /\ Turned(w, H)'
<1> DEFINE s == NextStep(step, TRUE)
<1>1. s \in Nat /\ s > 0 /\ step = 2 * s /\ s = NextStep(step, direction # "DOWN")
  BY HalfStep DEF NextStep
<1> HIDE DEF s
<1>2. /\ pulse \in Nat /\ MinPulse <= pulse /\ pulse <= MaxPulse
      /\ MinPulse <= pulse - step
  BY <1>1, Lengths DEF Good, Bad, InSearch
<1>3. InSearch(pulse - s) /\ pulse - s > MinPulse /\ pulse - 2 * s = pulse - step
  BY <1>1, <1>2, Lengths DEF InSearch
<1>4. GoesOn(pulse - s, s, "DOWN")
  BY <1>1, <1>3, ContinuedDown
<1>5. pulse - s = last' - step' /\ Good(last') /\ Bad(last' - 2 * step')
  BY <1>3, <1>4 DEF GoesOn
<1>6. Turned(w, H)'
  BY <1>4, <1>5, Halved DEF s
<1> QED  BY <1>4, <1>6 DEF GoesOn

LEMMA TurnUp ==
    ASSUME NEW w, NEW H, Halving(w, H), NEW i \in 0..H, step = w[i], step > Accuracy,
           UNCHANGED grinder, iteration \in Int, iteration <= 2 * i + 1, foundLow', last' = last,
           Good(last), Bad(pulse), pulse = last - step, NEW found \in Nat, NEW low,
           NextTest(found, low, "UP"), direction # "UP"
    PROVE  phase' = phase /\ sub' = "IDLE" /\ Turned(w, H)'
<1> DEFINE s == NextStep(step, TRUE)
<1>1. s \in Nat /\ s > 0 /\ step = 2 * s /\ s = NextStep(step, direction # "UP")
  BY HalfStep DEF NextStep
<1> HIDE DEF s
<1>2. /\ pulse \in Nat /\ MinPulse <= pulse /\ last \in Nat /\ last <= MaxPulse
  BY <1>1, Lengths DEF Good, Bad, InSearch
<1>3. /\ InSearch(pulse + s) /\ pulse + s > MinPulse
      /\ pulse + s = last - s /\ last - 2 * s = pulse
  BY <1>1, <1>2, Lengths DEF InSearch
<1>4. GoesOn(pulse + s, s, "UP")
  BY <1>1, <1>3, ContinuedUp
<1>5. pulse + s = last' - step' /\ Good(last') /\ Bad(last' - 2 * step')
  BY <1>3, <1>4 DEF GoesOn
<1>6. Turned(w, H)'
  BY <1>4, <1>5, Halved DEF s
<1> QED  BY <1>4, <1>6 DEF GoesOn

LEMMA FromTurned ==
    ASSUME NEW w, NEW H, Halving(w, H), LongerIsEnough, UNCHANGED grinder, iteration \in Int,
           Turned(w, H), Decide, grounds = Answers(pulse \div Unit)
    PROVE  Decision(w, H)
<1>1. PICK i \in 1..H : step = w[i] /\ (Middle(i) \/ LowerEnd(i) \/ UpperEnd(i))
  BY DEF Turned
<1>2. foundLow /\ step > 0 /\ step \in Nat /\ i \in 0..H /\ i \in Nat
  BY <1>1 DEF Turned, Halving
<1>3. Good(last) /\ last \in Nat /\ MinPulse <= last /\ last <= MaxPulse
  BY <1>1, Lengths DEF Middle, LowerEnd, UpperEnd, Good, InSearch
<1>4. CASE Middle(i)
  <2>1. /\ pulse = last - step /\ Bad(last - 2 * step) /\ iteration <= 2 * i
        /\ MinPulse <= last - 2 * step
    BY <1>3, <1>4, Lengths DEF Middle, Bad, InSearch
  <2>2. InSearch(pulse) /\ pulse \in Nat /\ pulse - step = last - 2 * step
    BY <1>2, <1>3, <2>1, Lengths DEF InSearch
  <2>3. CASE grounds
    <3>1. Good(pulse)
      BY <2>2, <2>3 DEF Good
    <3>2. DecideOnGrounds /\ last' = pulse /\ foundLow'
      BY <1>2, <2>3 DEF Decide, DecideOnGrounds, DecideOnNone, Record
    <3>3. CASE step <= Accuracy
      <4>1. Conclude(pulse)
        BY <1>2, <3>2, <3>3 DEF DecideOnGrounds, EndSearch
      <4>2. pulse - (last - 2 * step) <= Accuracy
        BY <1>2, <1>3, <2>1, <3>3, Lengths
      <4> QED  BY <2>1, <3>1, <4>1, <4>2, Found
    <3>4. CASE ~(step <= Accuracy)
      <4>1. NextTest(pulse, foundLow, "DOWN")
        BY <3>2, <3>4 DEF DecideOnGrounds
      <4>2. step > Accuracy /\ iteration <= 2 * i + 1 /\ Bad(pulse - step)
        BY <1>2, <2>1, <2>2, <3>4, Lengths
      <4>3. CASE direction # "DOWN"
        BY <1>1, <1>2, <2>2, <3>1, <3>2, <4>1, <4>2, <4>3, TurnDown DEF Decision
      <4>4. CASE direction = "DOWN"
        <5>1. step = NextStep(step, direction # "DOWN")
          BY <4>4 DEF NextStep
        <5>2. InSearch(pulse - step)
          BY <4>2 DEF Bad
        <5>3. GoesOn(pulse - step, step, "DOWN")
          BY <1>2, <2>2, <4>1, <4>2, <5>1, <5>2, ContinuedDown
        <5>4. iteration' <= 2 * i + 1
          BY <1>2, <2>1, <5>3 DEF GoesOn
        <5>5. LowerEnd(i)'
          BY <3>1, <3>2, <4>2, <5>3, <5>4, GrinderStays DEF LowerEnd, GoesOn
        <5> QED  BY <1>1, <1>2, <3>2, <5>3, <5>5 DEF Decision, GoesOn, Turned
      <4> QED  BY <4>3, <4>4
    <3> QED  BY <3>3, <3>4
  <2>4. CASE ~grounds
    <3>1. Bad(pulse)
      BY <2>2, <2>4 DEF Bad
    <3>2. DecideOnNone /\ last' = last /\ foundLow'
      BY <2>4 DEF Decide, DecideOnGrounds, DecideOnNone
    <3>3. CASE step <= Accuracy
      <4>1. Conclude(last)
        BY <3>2, <3>3 DEF DecideOnNone, EndSearch
      <4>2. last - pulse <= Accuracy
        BY <1>2, <1>3, <2>1, <3>3, Lengths
      <4> QED  BY <1>3, <3>1, <4>1, <4>2, Found
    <3>4. CASE ~(step <= Accuracy)
      <4>1. NextTest(last, TRUE, "UP")
        BY <3>2, <3>4 DEF DecideOnNone
      <4>2. step > Accuracy /\ iteration <= 2 * i + 1
        BY <1>2, <2>1, <3>4, Lengths
      <4>3. CASE direction # "UP"
        BY <1>1, <1>2, <1>3, <2>1, <3>1, <3>2, <4>1, <4>2, <4>3, TurnUp DEF Decision
      <4>4. CASE direction = "UP"
        <5>1. step = NextStep(step, direction # "UP")
          BY <4>4 DEF NextStep
        <5>2. pulse + step = last /\ pulse + step > MinPulse
          BY <1>2, <1>3, <2>1, Lengths
        <5>3. GoesOn(pulse + step, step, "UP")
          BY <1>2, <1>3, <4>1, <5>1, <5>2, ContinuedUp DEF Good
        <5>4. iteration' <= 2 * i + 1 /\ last' - step' = pulse
          BY <1>2, <1>3, <2>1, <3>2, <5>3 DEF GoesOn
        <5>5. UpperEnd(i)'
          BY <1>3, <3>1, <3>2, <4>2, <5>2, <5>3, <5>4, GrinderStays DEF UpperEnd, GoesOn
        <5> QED  BY <1>1, <1>2, <3>2, <5>3, <5>5 DEF Decision, GoesOn, Turned
      <4> QED  BY <4>3, <4>4
    <3> QED  BY <3>3, <3>4
  <2> QED  BY <2>3, <2>4
<1>5. CASE LowerEnd(i)
  <2>1. ~grounds
    BY <1>5 DEF LowerEnd, Bad
  <2>2. DecideOnNone /\ last' = last /\ foundLow'
    BY <2>1 DEF Decide, DecideOnGrounds, DecideOnNone
  <2>3. /\ direction = "DOWN" /\ pulse = last - step /\ Bad(pulse)
        /\ iteration <= 2 * i + 1 /\ step > Accuracy
    BY <1>5, Zenon DEF LowerEnd
  <2>4. NextTest(last, TRUE, "UP")
    <3>1. ~(step <= Accuracy)
      BY <1>2, <2>3, Lengths
    <3> QED  BY <2>2, <3>1 DEF DecideOnNone
  <2> QED  BY <1>1, <1>2, <1>3, <2>2, <2>3, <2>4, TurnUp DEF Decision
<1>6. CASE UpperEnd(i)
  <2>1. grounds
    BY <1>6 DEF UpperEnd, Good
  <2>2. DecideOnGrounds /\ last' = pulse /\ foundLow'
    BY <1>2, <2>1 DEF Decide, DecideOnGrounds, DecideOnNone, Record
  <2>3. /\ direction = "UP" /\ pulse = last /\ Bad(pulse - step)
        /\ iteration <= 2 * i + 1 /\ step > Accuracy
    BY <1>6, Zenon DEF UpperEnd
  <2>4. NextTest(pulse, foundLow, "DOWN")
    <3>1. ~(step <= Accuracy)
      BY <1>2, <2>3, Lengths
    <3> QED  BY <2>2, <3>1 DEF DecideOnGrounds
  <2> QED  BY <1>1, <1>2, <1>3, <2>2, <2>3, <2>4, TurnDown DEF Decision
<1> QED  BY <1>1, <1>4, <1>5, <1>6

-----------------------------------------------------------------------------
\* The plan of a tune that finds such a grinder's length.

\* What leaves the search and the verification alone keeps their part of the plan.
LEMMA PlanStays ==
    ASSUME NEW w, NEW H, UNCHANGED <<search, grinder>>
    PROVE  /\ AtLongest(w)' <=> AtLongest(w) 
           /\ AtShortest(w)' <=> AtShortest(w)
           /\ Turned(w, H)' <=> Turned(w, H)
           /\ Answers(pulse \div Unit)' <=> Answers(pulse \div Unit)
<1>1. UNCHANGED <<pulse, step, last, direction, foundLow, iteration>>
  BY DEF search
<1>2. \A i : /\ Middle(i)' <=> Middle(i)
             /\ LowerEnd(i)' <=> LowerEnd(i)
             /\ UpperEnd(i)' <=> UpperEnd(i)
  BY <1>1, GrinderStays DEF Middle, LowerEnd, UpperEnd, Good, Bad, InSearch, Answers
<1> QED  BY <1>1, <1>2 DEF AtLongest, AtShortest, Turned, Answers

\* The step of the plan, apart from NotCancelled, which UpdateTune keeps.
Kept(w, H) == PrimingPlan(w)' /\ SearchPlan(w, H)' /\ VerifyPlan' /\ Outcome'

LEMMA FailedToSettle ==
    ASSUME NEW w, NEW H, Fail("settling") PROVE Kept(w, H)
BY DEF Fail, Kept, PrimingPlan, SearchPlan, VerifyPlan, Outcome

LEMMA AwaitKeeps ==
    ASSUME NEW w, NEW H, Plan(w, H), AwaitPulse, UNCHANGED grinder PROVE Kept(w, H)
<1>1. UNCHANGED <<search, verify, active, grounds>> /\ sub # "IDLE"
  BY DEF AwaitPulse, PulseExecuted, DelayOver, ScaleSettled
<1>2. CASE Fail("settling")
  BY <1>2, FailedToSettle
<1>3. CASE EnterSub("MOTOR_SETTLING") \/ EnterSub("COLLECTION_DELAY") \/ EnterSub("SCALE_SETTLING")
           \/ EnterSub("MEASURE_COMPLETE")
  <2>1. UNCHANGED <<phase, reason>> /\ sub' \notin {"IDLE", "RESULT_LOGGED"}
    BY <1>3 DEF EnterSub
  <2>2. UNCHANGED <<pulse, candidate, count, hits>>
    BY <1>1 DEF search, verify
  <2>3. PrimingPlan(w)' /\ SearchPlan(w, H)'
    BY <1>1, <2>1, <2>2, PlanStays DEF Plan, PrimingPlan, SearchPlan
  <2>4. VerifyPlan' /\ Outcome'
    BY <2>1, <2>2, GrinderStays DEF Plan, VerifyPlan, Outcome, Good, Close, InSearch, Answers
  <2> QED  BY <2>3, <2>4 DEF Kept
<1> QED  BY <1>2, <1>3 DEF AwaitPulse, PulseExecuted, DelayOver, ScaleSettled

LEMMA PrimeKeeps ==
    ASSUME NEW w, NEW H, LongerIsEnough, Plan(w, H), Prime, UNCHANGED grinder PROVE Kept(w, H)
<1>1. phase = "PRIMING" /\ UNCHANGED <<search, grounds>> /\ AtLongest(w)
  BY DEF Prime, Plan, PrimingPlan
<1>2. AtLongest(w)'
  BY <1>1, PlanStays
<1>3. CASE Idle /\ StartPulse(Priming)
  <2>1. phase' = "PRIMING" /\ active' = Priming
    BY <1>1, <1>3 DEF StartPulse, EnterSub
  <2> QED  BY <1>2, <2>1 DEF Kept, PrimingPlan, SearchPlan, VerifyPlan, Outcome
<1>4. CASE sub = "MEASURE_COMPLETE" /\ UNCHANGED active /\ EnterSub("TARING")
  <2>1. phase' = "PRIMING" /\ active' = Priming
    BY <1>1, <1>4 DEF EnterSub, Plan, PrimingPlan
  <2> QED  BY <1>2, <2>1 DEF Kept, PrimingPlan, SearchPlan, VerifyPlan, Outcome
<1>5. CASE sub = "MEASURE_COMPLETE" /\ FALSE \in Measured
  <2>1. active = Priming
    BY <1>1, <1>5 DEF Plan, PrimingPlan
  <2>2. Results(grinder, Priming \div Unit) = {TRUE}
    BY DEF LongerIsEnough, Answers
  <2>3. FALSE \in {TRUE}
    BY <1>5, <2>1, <2>2 DEF Measured
  <2> QED  BY <2>3
<1>6. CASE EnterPhase("BINARY_SEARCH")
  <2>1. phase' = "BINARY_SEARCH" /\ sub' = "IDLE"
    BY <1>6 DEF EnterPhase
  <2> QED  BY <1>2, <2>1 DEF Kept, PrimingPlan, SearchPlan, VerifyPlan, Outcome
<1> QED  BY <1>3, <1>4, <1>5, <1>6 DEF Prime

\* An iteration is left for every pulse of the plan.
LEMMA IterationsLeft ==
    ASSUME NEW w, NEW H, Halving(w, H), iteration \in Int,
           AtLongest(w) \/ AtShortest(w) \/ Turned(w, H)
    PROVE  iteration < MaxIterations
<1>1. H \in Nat \ {0} /\ 2 * H < MaxIterations /\ MaxIterations \in Nat
  BY CountsAssumption DEF Halving
<1>2. CASE AtLongest(w) \/ AtShortest(w)
  <2>1. iteration \in {0, 1}
    BY <1>2 DEF AtLongest, AtShortest
  <2> QED  BY <1>1, <2>1
<1>3. CASE Turned(w, H)
  <2>1. PICK i \in 1..H : step = w[i] /\ (Middle(i) \/ LowerEnd(i) \/ UpperEnd(i))
    BY <1>3 DEF Turned
  <2>2. CASE Middle(i)
    <3>1. iteration <= 2 * i
      BY <2>2 DEF Middle
    <3> QED  BY <1>1, <3>1
  <2>3. CASE LowerEnd(i) \/ UpperEnd(i)
    <3>1. iteration <= 2 * i + 1 /\ step > Accuracy
      BY <2>3, Zenon DEF LowerEnd, UpperEnd
    <3>2. i + 1 \in 1..H
      BY <1>1, <2>1, <3>1, HalfStep
    <3> QED  BY <1>1, <3>1, <3>2
  <2> QED  BY <2>1, <2>2, <2>3
<1> QED  BY <1>2, <1>3

LEMMA SearchKeeps ==
    ASSUME NEW w, NEW H, Halving(w, H), LongerIsEnough, All, iteration \in Int, Plan(w, H),
           Search, UNCHANGED grinder
    PROVE  Kept(w, H)
<1>1. phase = "BINARY_SEARCH" /\ (AtLongest(w) \/ AtShortest(w) \/ Turned(w, H))
  BY DEF Search, Plan, SearchPlan
<1>2. CASE TestPulse
  <2>1. iteration < MaxIterations
    BY <1>1, IterationsLeft
  <2>2. ~(iteration >= MaxIterations)
    BY <2>1, CountsAssumption
  <2>3. UNCHANGED search /\ StartPulse(pulse)
    BY <1>2, <2>2 DEF TestPulse
  <2>4. UNCHANGED pulse /\ phase' = "BINARY_SEARCH" /\ active' = pulse /\ sub' = "PULSE_EXECUTE"
    BY <1>1, <2>3 DEF StartPulse, EnterSub, search
  <2> QED  BY <1>1, <2>3, <2>4, PlanStays
           DEF Kept, PrimingPlan, SearchPlan, VerifyPlan, Outcome
<1>3. CASE MeasureTest
  <2>1. /\ UNCHANGED <<search, active>> /\ phase' = "BINARY_SEARCH" /\ sub = "MEASURE_COMPLETE"
        /\ grounds' \in Results(grinder, active \div Unit)
    BY <1>1, <1>3 DEF MeasureTest, EnterSub, Measured
  <2>2. active = pulse /\ UNCHANGED pulse
    BY <1>1, <2>1 DEF Plan, SearchPlan, search
  <2>3. InSearch(pulse)
    <3>1. CASE AtLongest(w) \/ AtShortest(w)
      BY <3>1, Lengths DEF AtLongest, AtShortest, InSearch
    <3>2. CASE Turned(w, H)
      <4>1. PICK i \in 1..H : step = w[i] /\ (Middle(i) \/ LowerEnd(i) \/ UpperEnd(i))
        BY <3>2 DEF Turned
      <4>2. step \in Nat /\ step > 0
        BY <3>2, <4>1 DEF Turned, Halving
      <4>3. CASE Middle(i)
        <5>1. InSearch(last) /\ InSearch(last - 2 * step) /\ pulse = last - step
          BY <4>3, Zenon DEF Middle, Good, Bad
        <5>2. last \in Nat
          BY <5>1, Lengths DEF InSearch
        <5> QED  BY <4>2, <5>1, <5>2, Lengths DEF InSearch
      <4>4. CASE LowerEnd(i) \/ UpperEnd(i)
        BY <4>4 DEF LowerEnd, UpperEnd, Good, Bad
      <4> QED  BY <4>1, <4>3, <4>4
    <3> QED  BY <1>1, <3>1, <3>2
  <2>4. Results(grinder, pulse \div Unit) = {Answers(pulse \div Unit)}
    BY <2>3, IsTried, Steady
  <2>5. grounds' = Answers(pulse \div Unit)
    BY <2>1, <2>2, <2>4
  <2>6. (grounds = Answers(pulse \div Unit))'
    <3>1. Answers(pulse \div Unit)' <=> Answers(pulse \div Unit)
      BY <2>1, PlanStays
    <3> QED  BY <2>5, <3>1 DEF Answers
  <2>7. (AtLongest(w) \/ AtShortest(w) \/ Turned(w, H))'
    BY <1>1, <2>1, PlanStays
  <2> QED  BY <2>1, <2>2, <2>6, <2>7 DEF Kept, PrimingPlan, SearchPlan, VerifyPlan, Outcome
<1>4. CASE Decide
  <2>1. grounds = Answers(pulse \div Unit)
    BY <1>1, <1>4 DEF Decide, Plan, SearchPlan
  <2>2. Decision(w, H)
    BY <1>1, <1>4, <2>1, FromLongest, FromShortest, FromTurned
  <2>3. hits' = count'
    BY <1>1, <1>4 DEF Decide, All, NoTrialsInv
  <2>4. CASE phase' = phase /\ sub' = "IDLE" /\ (AtShortest(w)' \/ Turned(w, H)')
    BY <1>1, <2>4 DEF Kept, PrimingPlan, SearchPlan, VerifyPlan, Outcome
  <2>5. CASE phase' = "VERIFICATION" /\ Good(candidate') /\ Close(candidate')
    <3>1. Good(candidate)' /\ Close(candidate)'
      BY <2>5 DEF Good, Close, InSearch, Answers, Tried
    <3> QED  BY <2>3, <2>5, <3>1 DEF Kept, PrimingPlan, SearchPlan, VerifyPlan, Outcome
  <2> QED  BY <2>2, <2>4, <2>5 DEF Decision
<1> QED  BY <1>2, <1>3, <1>4 DEF Search

LEMMA VerifyKeeps ==
    ASSUME NEW w, NEW H, LongerIsEnough, All, Plan(w, H), Verify, UNCHANGED grinder
    PROVE  Kept(w, H)
<1>1. phase = "VERIFICATION" /\ Good(candidate) /\ Close(candidate) /\ hits = count
  BY DEF Verify, Plan, VerifyPlan
<1>2. CASE VerificationPulse
  <2>1. phase' = phase /\ UNCHANGED <<candidate, count, hits>>
    BY <1>2 DEF VerificationPulse, StartPulse, EnterSub, verify
  <2>2. Good(candidate)' /\ Close(candidate)'
    BY <1>1, <2>1 DEF Good, Close, InSearch, Answers, Tried
  <2> QED  BY <1>1, <2>1, <2>2 DEF Kept, PrimingPlan, SearchPlan, VerifyPlan, Outcome
<1>3. CASE EvaluateRound
  <2>1. count = Pulses /\ EnoughHits
    <3>1. count >= Pulses /\ count <= Pulses /\ count \in Nat /\ Pulses \in Nat
      BY <1>1, <1>3, CountsAssumption DEF EvaluateRound, Idle, All, RoundInv, NumbersInv
    <3>2. Needed <= Pulses /\ Needed \in Nat
      BY GridAssumption, CountsAssumption
    <3>3. hits >= Needed
      BY <1>1, <3>1, <3>2
    <3> QED  BY <3>1, <3>3 DEF EnoughHits
  <2>2. phase' = "COMPLETE_SUCCESS" /\ UNCHANGED candidate
    BY <1>3, <2>1 DEF EvaluateRound, Succeed, verify
  <2>3. Close(candidate)'
    BY <1>1, <2>2 DEF Close, Answers, Tried
  <2> QED  BY <2>2, <2>3 DEF Kept, PrimingPlan, SearchPlan, VerifyPlan, Outcome
<1>4. CASE MeasureVerification
  <2>1. /\ phase' = phase /\ UNCHANGED candidate /\ count' = count + 1
        /\ hits' = (IF grounds' THEN hits + 1 ELSE hits) /\ active = candidate
        /\ grounds' \in Results(grinder, active \div Unit)
    BY <1>1, <1>4 DEF MeasureVerification, EnterSub, All, RoundInv, Measured
  <2>2. Answers(candidate \div Unit)
    BY <1>1 DEF Good
  <2>3. grounds'
    BY <2>1, <2>2 DEF Answers
  <2>4. hits' = count'
    BY <1>1, <2>1, <2>3
  <2>5. Good(candidate)' /\ Close(candidate)'
    BY <1>1, <2>1 DEF Good, Close, InSearch, Answers, Tried
  <2> QED  BY <1>1, <2>1, <2>4, <2>5 DEF Kept, PrimingPlan, SearchPlan, VerifyPlan, Outcome
<1> QED  BY <1>2, <1>3, <1>4 DEF Verify

-----------------------------------------------------------------------------
PlanInv(w, H) == All /\ iteration \in Int /\ (LongerIsEnough => Plan(w, H))

LEMMA PlanInit == ASSUME NEW w, NEW H, Init PROVE PlanInv(w, H)
<1>1. All
  BY TuneInit
<1>2. Plan(w, H)
  BY DEF Init, Plan, NotCancelled, PrimingPlan, SearchPlan, VerifyPlan, Outcome
<1> QED  BY <1>1, <1>2 DEF Init, PlanInv

LEMMA IterationIsNumber == ASSUME iteration \in Int, [Next]_vars PROVE iteration' \in Int
<1>1. CASE UNCHANGED iteration
  BY <1>1
<1>2. CASE UpdateTune
  <2>1. CASE Decide
    BY <2>1 DEF Decide, DecideOnGrounds, DecideOnNone, EndSearch, NextTest, NextIteration
  <2> QED
    BY <1>1, <1>2, <2>1
    DEF UpdateTune, Advance, AwaitPulse, PulseExecuted, DelayOver, ScaleSettled, Prime, Search,
        TestPulse, MeasureTest, Verify, search
<1>3. CASE BeginTune \/ Restart
  BY <1>3 DEF BeginTune, Restart, ClearTune, search
<1>4. CASE PressCancel \/ PressOk \/ LoseScreen \/ PulseEnds \/ TareEnds \/ UNCHANGED vars
  BY <1>4 DEF PressCancel, PressOk, LoseScreen, PulseEnds, TareEnds, vars, search
<1> QED  BY <1>2, <1>3, <1>4 DEF Next, Press

\* What only concerns the screen, the motor or the scale keeps the plan.
LEMMA TuneStays ==
    ASSUME NEW w, NEW H, Plan(w, H),
           UNCHANGED <<search, phase, sub, active, grounds, candidate, count, hits, reason>>,
           UNCHANGED grinder
    PROVE  Kept(w, H)
<1>1. (grounds = Answers(pulse \div Unit))' <=> grounds = Answers(pulse \div Unit)
  BY DEF Answers, search
<1>2. PrimingPlan(w)'
  BY PlanStays DEF Plan, PrimingPlan
<1>3. SearchPlan(w, H)'
  <2>1. (AtLongest(w) \/ AtShortest(w) \/ Turned(w, H))'
            <=> AtLongest(w) \/ AtShortest(w) \/ Turned(w, H)
    BY PlanStays
  <2>2. pulse' = pulse
    BY DEF search
  <2> QED  BY <1>1, <2>1, <2>2 DEF Plan, SearchPlan
<1>4. VerifyPlan' /\ Outcome'
  BY GrinderStays DEF Plan, VerifyPlan, Outcome, Good, Close, InSearch, Answers
<1> QED  BY <1>2, <1>3, <1>4 DEF Kept

LEMMA PlanStep ==
    ASSUME NEW w, NEW H, Halving(w, H), PlanInv(w, H), [Next]_vars
    PROVE  PlanInv(w, H)'
<1>1. All' /\ iteration' \in Int
  BY TuneStep, IterationIsNumber DEF PlanInv
<1>2. UNCHANGED grinder
  BY DEF Next, Press, BeginTune, PressCancel, PressOk, LoseScreen, UpdateTune, PulseEnds,
         TareEnds, Restart, vars
<1> SUFFICES ASSUME LongerIsEnough, Plan(w, H) PROVE Plan(w, H)'
  BY <1>1, <1>2, GrinderStays DEF PlanInv
<1>3. CASE UpdateTune
  <2>1. ~cancelled /\ NotCancelled'
    BY <1>3 DEF UpdateTune, Plan, NotCancelled
  <2>2. AwaitPulse \/ Prime \/ Search \/ Verify
    BY <1>3, <2>1 DEF UpdateTune, Advance
  <2>3. Kept(w, H)
    BY <1>2, <2>2, AwaitKeeps, PrimeKeeps, SearchKeeps, VerifyKeeps DEF PlanInv
  <2> QED  BY <2>1, <2>3 DEF Plan, Kept
<1>4. CASE BeginTune
  <2>1. CASE running
    <3>1. UNCHANGED <<search, phase, sub, active, grounds, candidate, count, hits, reason>>
      BY <1>4, <2>1 DEF BeginTune, verify
    <3>2. screen' # "AUTOTUNING"
      BY <1>4, <2>1 DEF BeginTune
    <3>3. Kept(w, H)
      BY <1>2, <3>1, TuneStays
    <3> QED  BY <3>2, <3>3 DEF Plan, Kept, NotCancelled
  <2>2. CASE ~running
    <3>1. ClearTune(MaxPulse, MaxPulse - MinPulse) /\ phase' = "PRIMING"
      BY <1>4, <2>2 DEF BeginTune
    <3>2. AtLongest(w)' /\ sub' = "IDLE" /\ cancelled' = FALSE
      BY <3>1 DEF ClearTune, AtLongest, Halving
    <3> QED  BY <3>1, <3>2
             DEF Plan, NotCancelled, PrimingPlan, SearchPlan, VerifyPlan, Outcome
  <2> QED  BY <2>1, <2>2
<1>5. CASE Restart
  <2>1. phase' = "IDLE" /\ screen' # "AUTOTUNING"
    BY <1>5 DEF Restart
  <2> QED  BY <2>1 DEF Plan, NotCancelled, PrimingPlan, SearchPlan, VerifyPlan, Outcome
<1>6. CASE PressCancel \/ PressOk \/ LoseScreen \/ PulseEnds \/ TareEnds \/ UNCHANGED vars
  <2>1. UNCHANGED <<search, phase, sub, active, grounds, candidate, count, hits, reason>>
    BY <1>6 DEF PressCancel, PressOk, LoseScreen, PulseEnds, TareEnds, vars, verify
  <2>2. NotCancelled'
    BY <1>6 DEF PressCancel, PressOk, LoseScreen, PulseEnds, TareEnds, vars, ui, Plan, NotCancelled
  <2>3. Kept(w, H)
    BY <1>2, <2>1, TuneStays
  <2> QED  BY <2>2, <2>3 DEF Plan, Kept
<1> QED  BY <1>3, <1>4, <1>5, <1>6 DEF Next, Press

\* A grinder that answers every pulse that is long enough, and none that is not,
\* is tuned unless the scale does not settle: the search has an iteration for
\* every pulse it needs, no verification fails, and a cancelled tune is not on
\* the screen (run_binary_search(), run_verification(), complete_with_failure()).
THEOREM SteadyGrinderIsAlwaysTuned ==
    ASSUME NEW w, NEW H, Halving(w, H) PROVE Spec => []SteadyGrinderIsTuned
<1>1. Init => PlanInv(w, H)
  BY PlanInit
<1>2. PlanInv(w, H) /\ [Next]_vars => PlanInv(w, H)'
  BY PlanStep
<1>3. PlanInv(w, H) => SteadyGrinderIsTuned
  BY DEF PlanInv, Plan, Outcome, SteadyGrinderIsTuned
<1> QED  BY <1>1, <1>2, <1>3, PTL DEF Spec

\* And the length it is tuned to is the shortest it answers, but for the
\* resolution of the search and the rounding to the grid (run_binary_search()).
THEOREM FoundPulseIsAlwaysShortest ==
    ASSUME NEW w, NEW H, Halving(w, H) PROVE Spec => []FoundPulseIsShortest
<1>1. Init => PlanInv(w, H)
  BY PlanInit
<1>2. PlanInv(w, H) /\ [Next]_vars => PlanInv(w, H)'
  BY PlanStep
<1>3. PlanInv(w, H) => FoundPulseIsShortest
  BY DEF PlanInv, Plan, Outcome, Close, FoundPulseIsShortest
<1> QED  BY <1>1, <1>2, <1>3, PTL DEF Spec

=============================================================================
