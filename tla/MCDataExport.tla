----------------------------- MODULE MCDataExport -----------------------------
\* Two session files of two chunks, so that one could be taken for the other, and
\* an empty one.
EXTENDS DataExport, TLC

LengthDef == (1 :> 2) @@ (2 :> 2) @@ (3 :> 0)
=============================================================================
