------------------------- MODULE MCCompanionSync --------------------------
\* Two grinders, one in use; a session is on the one in use at first.
EXTENDS CompanionSync

CONSTANTS h1, h2

TwoHosts  == {h1, h2}
OneBusy   == {h1}
KeptByOne == (h1 :> {1}) @@ (h2 :> {})
TwoCalls  == {1, 2}
TwoSlots  == {1, 2}
===========================================================================
