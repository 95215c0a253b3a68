------------------------------ MODULE MCAutoTune ------------------------------
(* The constants of AutoTune as they are in the code, and grinders to tune.  *)
EXTENDS AutoTune, PulseEncoding

\* Grinders that answer a pulse that is long enough: of the length that was asked
\* for ("exact"; no pulse of the search is 301 ms), or of the length the symbols
\* make of it ("encoded").  A "weak" grinder answers some of these pulses only.
Exact   == [kind : {"exact"}, threshold : {1, 164, 301}]
Encoded == [kind : {"encoded"}, threshold : {98}]
Weak    == [kind : {"weak"}, threshold : {300}]
MCGrinders == Exact \cup Encoded \cup Weak

MCResults(g, ms) ==
    CASE g.kind = "exact"   -> {ms >= g.threshold}
      [] g.kind = "encoded" -> {HighTime(ms) >= 1000 * g.threshold}
      [] g.kind = "weak"    -> {FALSE, ms >= g.threshold}

\* The steps of the search in the range of the code: six turns, within the thirteen
\* iterations allowed here, and the fifty of the code.
Steps == [turns \in 0..6 |-> (MaxPulse - MinPulse) \div 2^turns]
ASSUME StepsHalve == Halving(Steps, 6)
=============================================================================
