----------------------------- MODULE GrindSession -----------------------------
(***************************************************************************)
(* What a grind promises its user, without phases, strategies, clocks or   *)
(* logs.  A session is prepared, doses, may be held for the user to empty  *)
(* the cup, and ends done or failed; the user may abandon it at any time.  *)
(* The motor turns only while the session doses.  GrindController          *)
(* implements this specification.                                          *)
(***************************************************************************)
VARIABLES
    session,  \* where the grind stands
    motorOn   \* whether the grinder is driven

State == {"idle", "preparing", "dosing", "held", "done", "failed"}

Init == session = "idle" /\ motorOn = FALSE

Begin ==
    /\ session = "idle"
    /\ session' = "preparing"
    /\ UNCHANGED motorOn

\* The tare is done: dosing starts, with the motor if it starts.
Dose ==
    /\ session = "preparing"
    /\ session' = "dosing"
    /\ motorOn' \in BOOLEAN

\* The motor is switched, or a pulse ends, while the session doses.
SwitchMotor ==
    /\ session = "dosing"
    /\ motorOn' \in BOOLEAN
    /\ UNCHANGED session

Hold ==
    /\ session = "dosing"
    /\ session' = "held"
    /\ motorOn' = FALSE

Resume ==
    /\ session = "held"
    /\ session' = "dosing"
    /\ motorOn' \in BOOLEAN

Finish ==
    /\ session = "dosing"
    /\ session' = "done"
    /\ motorOn' = FALSE

\* After a timed grind the user may ask for a little more.
Extend ==
    /\ session = "done"
    /\ session' = "dosing"
    /\ motorOn' \in BOOLEAN

Fail ==
    /\ session \in {"preparing", "dosing", "held"}
    /\ session' = "failed"
    /\ motorOn' = FALSE

Leave ==
    /\ session # "idle"
    /\ session' = "idle"
    /\ motorOn' = FALSE

Next == Begin \/ Dose \/ SwitchMotor \/ Hold \/ Resume \/ Finish \/ Extend \/ Fail \/ Leave

Spec == Init /\ [][Next]_<<session, motorOn>>
=============================================================================
