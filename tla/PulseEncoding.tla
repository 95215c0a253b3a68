---------------------------- MODULE PulseEncoding ----------------------------
(***************************************************************************)
(* How long a pulse of the grinder's motor really is: the RMT symbols that *)
(* Grinder::start_pulse_rmt() builds for a requested length.               *)
(*                                                                         *)
(* A symbol holds the motor on for at most 32.767 ms.  A longer pulse is   *)
(* one symbol of that length and the remainder, sent several times; the    *)
(* remainder is sent again with every repetition.                          *)
(***************************************************************************)
EXTENDS Naturals

CONSTANT ExtraLoop  \* whether the peripheral sends loop_count repetitions after
                    \* the first transmission (the comment in the code) or in all

ASSUME ExtraLoopAssumption == ExtraLoop \in BOOLEAN

SymbolMax == 32767  \* microseconds: 15 bits

Transmissions(loops) ==
    IF loops = 0 THEN 1 ELSE IF ExtraLoop THEN loops + 1 ELSE loops

\* Microseconds the motor is on for a request of some milliseconds.
HighTime(ms) ==
    LET us == 1000 * ms IN
    IF us <= SymbolMax THEN us
    ELSE Transmissions(us \div SymbolMax - 1)
             * (SymbolMax + (IF us % SymbolMax > 0 THEN us % SymbolMax ELSE 1))
=============================================================================
