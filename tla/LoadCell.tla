------------------------------- MODULE LoadCell -------------------------------
(***************************************************************************)
(* The load cell: hardware/WeightSensor.cpp, with the task of Core 0 that  *)
(* starts the converter and feeds it samples                               *)
(* (tasks/weight_sampling_task.cpp).                                       *)
(*                                                                         *)
(* Core 0 samples while the user interface, on Core 1, asks for a tare;    *)
(* they share doTare and tareTimes without a lock.  So a sample is two     *)
(* steps here: Core 0 reads these (Sample), and then writes what follows   *)
(* from it (Finish).                                                       *)
(*                                                                         *)
(* Weights are raw readings; the weight of a calibration counts as one, so *)
(* that a factor is the reading it adds.  A factor lasts until the device  *)
(* restarts: save_calibration() and get_saved_calibration_factor() use     *)
(* preferences that were closed during setup (see SharedSettings), so they *)
(* store nothing and find nothing.                                         *)
(***************************************************************************)
EXTENDS Integers

CONSTANTS
    Loads,     \* what the converter may read; a filter without samples reads 0
    Shakes,    \* bound: whether a reading may be unsettled
    DataSet,   \* DATA_SET: the samples a tare waits for
    Default,   \* USER_DEFAULT_CALIBRATION_FACTOR
    Grace      \* how long a reading is unsettled before it counts as noisy

ASSUME LoadsAssumption  == Loads \subseteq Nat \ {0} /\ Shakes \subseteq BOOLEAN
ASSUME TareAssumption   == DataSet \in Nat /\ Grace \in Nat
ASSUME FactorAssumption == Default \in Int \ {0}

VARIABLES
    load,         \* what stands on the scale
    shaky,        \* whether it is unsettled
    sampler,      \* the task of Core 0: "off", "starting", "sampling", "failed"
    fault,        \* hardware_fault_
    reading,      \* the latest sample in the filter
    wanted,       \* doTare
    times,        \* tareTimes
    due,          \* what Core 0 is about to write
    offset,       \* tare_offset
    factor,       \* cal_factor
    unsettled,    \* time since not_settled_start_time, or Never
    noisy         \* display_noisy_state

scale   == <<load, shaky>>
task    == <<sampler, fault>>
tare    == <<wanted, times, due, offset>>
noise   == <<unsettled, noisy>>
cell    == <<scale, task, reading, tare, factor, noise>>

Never == -1
Ages(n) == Never..n
\* A time that is running, one unit later; beyond n they are all alike.
Later(age, n) == IF age = Never THEN Never ELSE IF age < n THEN age + 1 ELSE n

Nothing == [what |-> "nothing"]
Counted(n) == [what |-> "times", times |-> n]
Tared(raw) == [what |-> "offset", offset |-> raw]

Raws    == Loads \cup {0}
Factors == {a - b : a, b \in Raws}
Faults  == {"NONE", "NOT_CONNECTED", "NO_DATA", "INVALID_SAMPLE_RATE"}

CellTypeOK ==
    /\ load \in Loads /\ shaky \in BOOLEAN
    /\ sampler \in {"off", "starting", "sampling", "failed"} /\ fault \in Faults
    /\ reading \in Raws /\ offset \in Raws
    /\ wanted \in BOOLEAN /\ times \in 0..DataSet
    /\ due \in {Nothing} \cup {Counted(n) : n \in 1..DataSet} \cup {Tared(raw) : raw \in Loads}
    /\ factor \in Factors \cup {Default}
    /\ unsettled \in Ages(Grace) /\ noisy \in BOOLEAN

\* A start: the constructor and init().
Started(s, sh) ==
    /\ load = s /\ shaky = sh
    /\ sampler = "off" /\ fault = "NONE" /\ reading = 0
    /\ wanted = FALSE /\ times = 0 /\ due = Nothing /\ offset = 0
    /\ factor = Default
    /\ unsettled = Never /\ noisy = FALSE

CellInit == \E s \in Loads, sh \in Shakes : Started(s, sh)

\* The device starts again.
CellRestart ==
    /\ UNCHANGED <<load, shaky>>
    /\ sampler' = "off" /\ fault' = "NONE" /\ reading' = 0
    /\ wanted' = FALSE /\ times' = 0 /\ due' = Nothing /\ offset' = 0
    /\ factor' = Default
    /\ unsettled' = Never /\ noisy' = FALSE

-----------------------------------------------------------------------------
\* Core 0: initialize_hx711_hardware() ...

BeginFails ==
    /\ sampler = "off"
    /\ sampler' = "failed" /\ fault' = "NOT_CONNECTED"
    /\ UNCHANGED <<scale, reading, tare, factor, noise>>

\* get_saved_calibration_factor().
SavedFactor == Default
Begins ==
    /\ sampler = "off"
    /\ sampler' = "starting" /\ fault' = "NONE"
    /\ factor' = SavedFactor
    /\ UNCHANGED <<scale, reading, tare, noise>>

\* validate_hardware() has its own verdict on the sample rate.
Validated ==
    /\ sampler = "starting"
    /\ \/ sampler' = "sampling" /\ fault' = "NONE"
       \/ sampler' = "failed" /\ fault' \in {"NO_DATA", "INVALID_SAMPLE_RATE"}
    /\ UNCHANGED <<scale, reading, tare, factor, noise>>

\* ... and sample_and_feed_filter(), up to the writes of the tare ...
TareSteps == IF times < DataSet THEN Counted(times + 1) ELSE Tared(load)
Sample ==
    /\ sampler = "sampling" /\ due = Nothing
    /\ reading' = load
    /\ due' = IF wanted THEN TareSteps ELSE Nothing
    /\ UNCHANGED <<scale, task, wanted, times, offset, factor, noise>>

\* ... and these.
Finish ==
    /\ due # Nothing /\ due' = Nothing
    /\ \/ /\ due.what = "times"
          /\ times' = due.times
          /\ UNCHANGED <<wanted, offset>>
       \/ /\ due.what = "offset"
          /\ offset' = due.offset /\ times' = 0 /\ wanted' = FALSE
    /\ UNCHANGED <<scale, task, reading, factor, noise>>

CoreZero == BeginFails \/ Begins \/ Validated \/ Sample \/ Finish

-----------------------------------------------------------------------------
\* What the user interface calls.

\* tareNoDelay(); tareStatus, which AutoTune has, is left out.
RequestTare ==
    /\ wanted' = TRUE /\ times' = 0
    /\ UNCHANGED <<scale, task, reading, due, offset, factor, noise>>

\* The end of calibrate(): the factor of what is read now.
Calibrate ==
    /\ factor' = reading - offset
    /\ reading' = 0
    /\ UNCHANGED <<scale, task, tare, noise>>

\* The standard deviation in grams is divided by the factor.
Settled(still) == still /\ factor # 0

\* Time passes, and the reading is settled or not.
Shake ==
    /\ shaky' \in Shakes
    /\ UNCHANGED <<load, task, reading, tare, factor>>

\* noise_level_diagnostic(), one unit of time after the last step ...
GraceOver(age) == age >= Grace
Judge ==
    IF Settled(~shaky')
    THEN unsettled' = Never /\ noisy' = FALSE
    ELSE /\ unsettled' = IF unsettled = Never THEN 0 ELSE Later(unsettled, Grace)
         /\ noisy' = (noisy \/ GraceOver(unsettled'))

\* ... and a unit of time in which nobody asks.
NobodyJudges ==
    /\ unsettled' = Later(unsettled, Grace)
    /\ UNCHANGED noisy

\* Somebody puts something on the scale, or takes it off.
MoveLoad ==
    /\ load' \in Loads \ {load}
    /\ UNCHANGED <<shaky, task, reading, tare, factor, noise>>
=============================================================================
