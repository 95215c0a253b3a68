--------------------------- MODULE MCSharedSettings ---------------------------
(* A small instance of SharedSettings: new devices, and devices on which an  *)
(* earlier firmware has saved settings, with the network in the preferences, *)
(* compiled in, both or nowhere.                                             *)
EXTENDS SharedSettings

CONSTANTS home, built

New == [profile |-> Unsaved, mode |-> Unsaved, purge |-> Unsaved, targets |-> Unsaved]
Used == [profile |-> 2, mode |-> "TIME", purge |-> "PRIME",
         targets |-> [m \in Modes |-> [p \in Profiles |-> p]]]

NoKeys == [made |-> FALSE, ssid |-> Unsaved, enabled |-> Unsaved, others |-> FALSE]
Home == [NoKeys EXCEPT !.made = TRUE, !.ssid = home]
Off  == [NoKeys EXCEPT !.made = TRUE, !.enabled = FALSE]

SomeDevices ==
    {[stored |-> New, wifi |-> NoKeys, compiled |-> NoNetwork],
     [stored |-> New, wifi |-> Off, compiled |-> built],
     [stored |-> New, wifi |-> Home, compiled |-> built],
     [stored |-> Used, wifi |-> Home, compiled |-> NoNetwork]}
=============================================================================
