---------------------------- MODULE SharedSettings ----------------------------
(***************************************************************************)
(* The settings that go through the one Preferences object of the          *)
(* firmware, and who has it.  HardwareManager opens it on the namespace    *)
(* "grinder" and lends it to everybody (main.cpp): to the profiles         *)
(* (controllers/profile_controller.cpp with the screens that edit them),   *)
(* to the purge mode of the menu and the grind controller, and to the      *)
(* network (network/wifi_manager.cpp), which opens and closes it on the    *)
(* namespace "wifi" for its credentials.                                   *)
(*                                                                         *)
(* The task of the network runs beside the user interface, so the time in  *)
(* which it has the object open is a state here.  The object itself is the *)
(* library's: a second begin() does nothing, what is not open reads as the *)
(* default and takes no writes, and neither does what is open read-only.   *)
(***************************************************************************)
EXTENDS Integers

CONSTANTS
    Profiles,       \* USER_PROFILE_COUNT of them
    FirstProfile,   \* the one a new device has selected
    Highest,        \* USER_MAX_TARGET_WEIGHT_G and ..._TIME_S; the lowest is 1
    Default,        \* USER_..._WEIGHT_G and ..._TIME_S
    Devices,        \* what a device has in its preferences, and compiled in
    Networks,       \* network names
    NoNetwork,      \* an empty name
    Unsaved,        \* no such key
    Retry,          \* WIFI_RECONNECT_INTERVAL_MS
    Timeout         \* WIFI_CONNECT_TIMEOUT_MS

ASSUME ProfilesAssumption == FirstProfile \in Profiles
ASSUME TargetsAssumption  == Highest \in Nat \ {0} /\ Default \in 1..Highest
ASSUME NetworksAssumption == {NoNetwork, Unsaved} \cap Networks = {} /\ NoNetwork # Unsaved
ASSUME PaceAssumption     == Retry \in Nat \ {0} /\ Timeout \in Nat /\ Retry <= Timeout

VARIABLES
    stored,     \* namespace "grinder"
    wifi,       \* namespace "wifi": its keys, and whether others were put there
    compiled,   \* WIFI_COMPILE_SSID
    handle,     \* the shared object: what it is open on, and whether to write
    profile,    \* current_profile
    mode,       \* current_grind_mode, and current_mode of the user interface
    targets,    \* weight and time_seconds of the profiles
    screen,     \* the state of the user interface
    edit,       \* edit_target
    original,   \* original_target
    applied,    \* the purge mode of the last grind
    picked,     \* history: the purge mode the user has chosen last
    enabled,    \* WifiManager::enabled_
    connecting, \* connect_in_progress_
    since,      \* time since last_reconnect_attempt_ms_
    loading,    \* load_credentials() is between its begin() and its end()
    tried,      \* the network of the last attempt_connect()
    status,     \* WiFi.status(): "TRYING", "CONNECTED", "FAILED"
    inRange     \* whether the network is there

saved   == <<stored, wifi, compiled>>
choices == <<profile, mode, targets>>
display == <<screen, edit, original>>
purge   == <<applied, picked>>
station == <<enabled, connecting, since, loading, tried, status>>
vars    == <<saved, handle, choices, display, purge, station, inRange>>

Modes      == {"WEIGHT", "TIME"}
PurgeModes == {"PURGE", "PRIME"}
Targets    == [Modes -> [Profiles -> 1..Highest]]
Saved      == [profile : Profiles \cup {Unsaved}, mode : Modes \cup {Unsaved},
               purge : PurgeModes \cup {Unsaved}, targets : Targets \cup {Unsaved}]
Keys       == [made : BOOLEAN, ssid : Networks \cup {Unsaved}, enabled : BOOLEAN \cup {Unsaved},
               others : BOOLEAN]

ASSUME DevicesAssumption ==
    \A device \in Devices :
        /\ device \in [stored : Saved, wifi : Keys, compiled : Networks \cup {NoNetwork}]
        /\ ~device.wifi.others
        /\ ~device.wifi.made => device.wifi.ssid = Unsaved /\ device.wifi.enabled = Unsaved

-----------------------------------------------------------------------------
\* The object.

Shut == [on |-> "nothing", readOnly |-> FALSE]

\* Preferences::begin(): a namespace that is not there can only be made to write.
Began(h, namespace, readOnly) ==
    CASE h.on # "nothing" -> h
      [] namespace = "wifi" /\ readOnly /\ ~wifi.made -> Shut
      [] OTHER -> [on |-> namespace, readOnly |-> readOnly]

Get(h, namespace, value, default) ==
    IF h.on = namespace /\ value # Unsaved THEN value ELSE default

\* Preferences::put...() of keys of the namespace "grinder".
Put(now) ==
    /\ stored' = IF handle.on = "grinder" /\ ~handle.readOnly THEN now ELSE stored
    /\ wifi' = IF handle.on = "wifi" /\ ~handle.readOnly THEN [wifi EXCEPT !.others = TRUE] ELSE wifi
    /\ UNCHANGED compiled

-----------------------------------------------------------------------------
\* Who uses it while the device starts: setup() in main.cpp, with these three.

\* HardwareManager::init().
AfterHardware == Began(Shut, "grinder", FALSE)

\* ProfileController::load_profiles().
Loaded(keys) ==
    [profile |-> Get(AfterHardware, "grinder", keys.profile, FirstProfile),
     mode    |-> Get(AfterHardware, "grinder", keys.mode, "WEIGHT"),
     targets |-> Get(AfterHardware, "grinder", keys.targets,
                     [m \in Modes |-> [p \in Profiles |-> Default]])]

\* WifiManager::init(): its begin() comes second, and its end() ends the first.
InitBegan == Began(AfterHardware, "wifi", TRUE)
InitEnabled == Get(InitBegan, "wifi", wifi.enabled, TRUE)
AfterInit == Shut

\* WifiManager::load_credentials(), between its begin() and its end().
NameRead(h) == Get(h, "wifi", wifi.ssid, NoNetwork)
Wanted(h) == IF NameRead(h) = NoNetwork THEN compiled ELSE NameRead(h)

\* WifiManager::begin().
FirstWanted == IF InitEnabled THEN Wanted(Began(AfterInit, "wifi", TRUE)) ELSE NoNetwork
AfterBegin == IF InitEnabled THEN Shut ELSE AfterInit

Started ==
    /\ handle' = AfterBegin
    /\ LET settings == Loaded(stored)
       IN  /\ profile' = settings.profile /\ mode' = settings.mode /\ targets' = settings.targets
    /\ screen' = "READY" /\ edit' = Default /\ original' = Default
    /\ enabled' = InitEnabled /\ loading' = FALSE
    /\ tried' = FirstWanted /\ connecting' = (FirstWanted # NoNetwork)
    /\ since' = 0 /\ status' = IF FirstWanted = NoNetwork THEN "FAILED" ELSE "TRYING"

\* The first start of this firmware.
Init ==
    /\ \E device \in Devices :
        /\ stored = device.stored /\ wifi = device.wifi /\ compiled = device.compiled
        /\ applied = "PURGE" /\ picked = Get(AfterHardware, "grinder", stored.purge, "PURGE")
    /\ handle = AfterBegin
    /\ profile = Loaded(stored).profile /\ mode = Loaded(stored).mode
    /\ targets = Loaded(stored).targets
    /\ screen = "READY" /\ edit = Default /\ original = Default
    /\ enabled = InitEnabled /\ loading = FALSE
    /\ tried = FirstWanted /\ connecting = (FirstWanted # NoNetwork)
    /\ since = 0 /\ status = (IF FirstWanted = NoNetwork THEN "FAILED" ELSE "TRYING")
    /\ inRange \in BOOLEAN

Restart ==
    /\ Started
    /\ UNCHANGED <<saved, purge, inRange>>

-----------------------------------------------------------------------------
\* The user interface.

Limited(n) == IF n < 1 THEN 1 ELSE IF n > Highest THEN Highest ELSE n

\* The keys that save_profiles() writes.
WithTargets(keys) == [keys EXCEPT !.targets = targets']

\* ReadyUIController::handle_tab_change(), set_current_profile().
ChangeTab(p) ==
    /\ screen = "READY" /\ p # profile
    /\ profile' = p /\ UNCHANGED <<mode, targets>>
    /\ Put(WithTargets([stored EXCEPT !.profile = p]))
    /\ UNCHANGED <<handle, display, purge, station, inRange>>

\* set_grind_mode(), and what the two callers do after it: toggle_mode() and
\* handle_grind_mode_radio_button().
Change(m) ==
    /\ mode' = m /\ UNCHANGED <<profile, targets>>
    /\ Put([stored EXCEPT !.mode = m])
    /\ edit' = targets[m][profile]
    /\ UNCHANGED <<handle, screen, original, purge, station, inRange>>

AnyScreen == TRUE  \* mutant: the gesture works everywhere
SwipeAllowed == screen = "READY"
ToggleMode == SwipeAllowed /\ \E m \in Modes \ {mode} : Change(m)
PickMode(m) == screen = "MENU" /\ Change(m)

\* handle_profile_long_press().
LongPress ==
    /\ screen = "READY" /\ screen' = "EDIT"
    /\ original' = targets[mode][profile] /\ edit' = original'
    /\ UNCHANGED <<saved, handle, choices, purge, station, inRange>>

\* EditUIController::handle_plus(), handle_minus() and the timer of a long press.
Adjust(by) ==
    /\ screen = "EDIT"
    /\ edit' = Limited(edit + by)
    /\ UNCHANGED <<saved, handle, choices, screen, original, purge, station, inRange>>

\* EditUIController::handle_save(), update_current_weight(), update_current_time().
SaveEdit ==
    /\ screen = "EDIT" /\ screen' = "READY"
    /\ targets' = IF edit \in 1..Highest THEN [targets EXCEPT ![mode][profile] = edit] ELSE targets
    /\ Put(WithTargets(stored))
    /\ UNCHANGED <<handle, profile, mode, edit, original, purge, station, inRange>>

\* EditUIController::handle_cancel().
CancelEdit ==
    /\ screen = "EDIT" /\ screen' = "READY"
    /\ edit' = original
    /\ UNCHANGED <<saved, handle, choices, original, purge, station, inRange>>

SwitchScreen ==
    /\ \/ screen = "READY" /\ screen' = "MENU"
       \/ screen \in {"MENU", "GRINDING"} /\ screen' = "READY"
    /\ UNCHANGED <<saved, handle, choices, edit, original, purge, station, inRange>>

\* handle_grinder_purge_mode_radio_button(), and the box of the confirmation,
\* handle_purge_confirm_continue().
PickPurge(m) ==
    /\ screen = "MENU" \/ (screen = "GRINDING" /\ applied = "PURGE" /\ m = "PRIME")
    /\ picked' = m
    /\ Put([stored EXCEPT !.purge = m])
    /\ UNCHANGED <<handle, choices, display, applied, station, inRange>>

\* start_grind().
StartGrind ==
    /\ screen = "READY" /\ screen' = "GRINDING"
    /\ applied' = Get(handle, "grinder", stored.purge, "PURGE")
    /\ UNCHANGED <<saved, handle, choices, edit, original, picked, station, inRange>>

User ==
    \/ \E p \in Profiles : ChangeTab(p)
    \/ ToggleMode \/ LongPress \/ SaveEdit \/ CancelEdit \/ SwitchScreen \/ StartGrind
    \/ \E m \in Modes : PickMode(m)
    \/ \E by \in {-1, 1} : Adjust(by)
    \/ \E m \in PurgeModes : PickPurge(m)

-----------------------------------------------------------------------------
\* The task of the network: WifiManager::handle().

\* update_connection_state().
NeverGivenUp == connecting /\ status # "CONNECTED"  \* mutant: an attempt has no end
InProgress == status = "TRYING" /\ since < Timeout

\* One unit of time after the last call; up to the begin() of load_credentials().
ForWriting == Began(handle, "wifi", FALSE)  \* mutant
ForReading == Began(handle, "wifi", TRUE)
Handle ==
    /\ enabled /\ ~loading
    /\ connecting' = InProgress
    /\ since' = IF since < Timeout THEN since + 1 ELSE since
    /\ IF status = "CONNECTED" \/ connecting' \/ since < Retry
       THEN UNCHANGED <<loading, handle>>
       ELSE loading' = TRUE /\ handle' = ForReading
    /\ UNCHANGED <<saved, choices, display, purge, enabled, tried, status, inRange>>

\* The rest of it, with attempt_connect().
Connect ==
    /\ loading /\ loading' = FALSE
    /\ handle' = Shut
    /\ IF Wanted(handle) = NoNetwork
       THEN UNCHANGED <<connecting, since, tried, status>>
       ELSE /\ tried' = Wanted(handle)
            /\ connecting' = TRUE /\ since' = 0 /\ status' = "TRYING"
    /\ UNCHANGED <<saved, choices, display, purge, enabled, inRange>>

Network == Handle \/ Connect

\* The station of the chip: an access point in range may answer, what is out of
\* range is lost or not found, and any attempt may fail.
Associate ==
    /\ status = "TRYING" /\ inRange
    /\ status' = "CONNECTED"
    /\ UNCHANGED <<saved, handle, choices, display, purge, enabled, connecting, since,
                   loading, tried, inRange>>

LoseOrFail ==
    /\ status = "TRYING" \/ (status = "CONNECTED" /\ ~inRange)
    /\ status' \in {"TRYING", "FAILED"}
    /\ UNCHANGED <<saved, handle, choices, display, purge, enabled, connecting, since,
                   loading, tried, inRange>>

Roam ==
    /\ inRange' = ~inRange
    /\ UNCHANGED <<saved, handle, choices, display, purge, station>>

Next == User \/ Network \/ Associate \/ LoseOrFail \/ Roam \/ Restart

Spec == Init /\ [][Next]_vars

\* The task runs every SYS_TASK_NETWORK_INTERVAL_MS, and of attempts without end
\* that could be answered one is.
FairSpec == Spec /\ WF_vars(Network) /\ SF_vars(Associate)

-----------------------------------------------------------------------------
SettingsTypeOK ==
    /\ stored \in Saved
    /\ wifi \in Keys /\ compiled \in Networks \cup {NoNetwork}
    /\ handle \in [on : {"nothing", "grinder", "wifi"}, readOnly : BOOLEAN]
    /\ profile \in Profiles /\ mode \in Modes /\ targets \in Targets
    /\ screen \in {"READY", "EDIT", "MENU", "GRINDING"}
    /\ edit \in 1..Highest /\ original \in 1..Highest
    /\ {applied, picked} \subseteq PurgeModes
    /\ {enabled, connecting, loading, inRange} \subseteq BOOLEAN
    /\ since \in 0..Timeout
    /\ tried \in Networks \cup {NoNetwork}
    /\ status \in {"TRYING", "CONNECTED", "FAILED"}

\* What is edited, and what is saved, is the target that was shown when the edit
\* began: neither the profile nor the mode changes under an open edit screen.
EditIsOfWhatIsShown == screen = "EDIT" => original = targets[mode][profile]

\* The credentials in the namespace "wifi" override those that were compiled in,
\* although it is another's object they are read through: every attempt is for
\* the network that is configured.
StoredNetworkWins ==
    tried = IF wifi.ssid # Unsaved THEN wifi.ssid ELSE compiled

\* The user interface saves settings at any time, also while the task of the
\* network has the object open on "wifi": none of them ends up there.
NetworkKeysAreKept == ~wifi.others

\* A device with a network that stays in range joins it, after any number of
\* losses, failed attempts and attempts that ran into their timeout.
NetworkIsJoined == <>[](inRange /\ tried # NoNetwork) => []<>(status = "CONNECTED")

\* A purge mode that was chosen in the menu, or with the box of the confirmation,
\* is the purge mode of the grinds that follow.
PurgeModeIsApplied ==
    [][screen = "READY" /\ screen' = "GRINDING" => applied' = picked]_vars
=============================================================================
