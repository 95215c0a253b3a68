------------------------- MODULE SharedSettingsProofs -------------------------
(***************************************************************************)
(* Proofs about SharedSettings, for any profiles, networks, times and      *)
(* devices: the network is configured by what is stored for it, and after  *)
(* a start nobody saves anything.                                          *)
(***************************************************************************)
EXTENDS SharedSettings, TLAPS

\* The object is open while credentials are read, if there are any, and then
\* only to read.
HandleInv ==
    /\ loading \in BOOLEAN
    /\ handle = IF loading /\ wifi.made THEN [on |-> "wifi", readOnly |-> TRUE] ELSE Shut
    /\ ~wifi.others
    /\ ~wifi.made => wifi.ssid = Unsaved

NothingPut == UNCHANGED saved

-----------------------------------------------------------------------------
\* What begin() and end() come to at the start: the network's begin() finds the
\* object open on "grinder" and its end() closes it.
LEMMA StartFacts ==
    /\ AfterHardware = [on |-> "grinder", readOnly |-> FALSE]
    /\ InitEnabled = TRUE
    /\ AfterBegin = Shut
<1> QED
  BY DEF AfterHardware, InitEnabled, InitBegan, AfterBegin, Began, Get, Shut

\* What load_credentials() reads, in the start or later.
Open == IF wifi.made THEN [on |-> "wifi", readOnly |-> TRUE] ELSE Shut
Configured == IF wifi.ssid # Unsaved THEN wifi.ssid ELSE compiled

LEMMA CredentialsFact ==
    ASSUME wifi.ssid \in Networks \cup {Unsaved}, ~wifi.made => wifi.ssid = Unsaved
    PROVE  Wanted(Open) = Configured
<1>1. CASE wifi.ssid = Unsaved
  BY <1>1 DEF Wanted, NameRead, Get, Configured
<1>2. CASE wifi.ssid # Unsaved
  <2>1. Open.on = "wifi" /\ wifi.ssid # NoNetwork
    BY <1>2, NetworksAssumption DEF Open
  <2> QED
    BY <2>1, <1>2 DEF Wanted, NameRead, Get, Configured
<1> QED
  BY <1>1, <1>2

LEMMA FirstWantedFact ==
    ASSUME wifi.ssid \in Networks \cup {Unsaved}, ~wifi.made => wifi.ssid = Unsaved
    PROVE  FirstWanted = Configured
<1>1. Began(AfterInit, "wifi", TRUE) = Open
  BY DEF Began, AfterInit, Shut, Open
<1> QED
  BY <1>1, StartFacts, CredentialsFact DEF FirstWanted

-----------------------------------------------------------------------------
\* Nobody can put anything.
LEMMA PutFact ==
    ASSUME HandleInv, NEW now, Put(now)
    PROVE  NothingPut
<1>1. ~(handle.on = "grinder") /\ (handle.on = "wifi" => handle.readOnly = TRUE)
  BY DEF HandleInv, Shut
<1> QED
  BY <1>1 DEF Put, NothingPut, saved


\* Every action of the user leaves the object to the network.
LEMMA UserStep ==
    ASSUME HandleInv, User
    PROVE  NothingPut /\ UNCHANGED <<handle, station>>
<1>1. ASSUME NEW p \in Profiles, ChangeTab(p) PROVE NothingPut /\ UNCHANGED <<handle, station>>
  BY <1>1, PutFact DEF ChangeTab
<1>2. ASSUME NEW m \in Modes, Change(m) PROVE NothingPut /\ UNCHANGED <<handle, station>>
  BY <1>2, PutFact DEF Change
<1>3. CASE ToggleMode
  BY <1>2, <1>3 DEF ToggleMode
<1>4. ASSUME NEW m \in Modes, PickMode(m) PROVE NothingPut /\ UNCHANGED <<handle, station>>
  BY <1>2, <1>4 DEF PickMode
<1>5. CASE SaveEdit
  BY <1>5, PutFact DEF SaveEdit
<1>6. ASSUME NEW m \in PurgeModes, PickPurge(m) PROVE NothingPut /\ UNCHANGED <<handle, station>>
  BY <1>6, PutFact DEF PickPurge
<1>7. CASE LongPress \/ CancelEdit \/ SwitchScreen \/ StartGrind
  BY <1>7 DEF LongPress, CancelEdit, SwitchScreen, StartGrind, NothingPut
<1>8. ASSUME NEW by \in {-1, 1}, Adjust(by) PROVE NothingPut /\ UNCHANGED <<handle, station>>
  BY <1>8 DEF Adjust, NothingPut
<1> QED
  BY <1>1, <1>3, <1>4, <1>5, <1>6, <1>7, <1>8 DEF User

LEMMA ForReadingFact ==
    ASSUME handle = Shut
    PROVE  ForReading = Open
BY DEF ForReading, Began, Shut, Open

\* Nothing is saved in a step, and the object is as it should be after it.
LEMMA HandleStep ==
    ASSUME HandleInv, [Next]_vars
    PROVE  HandleInv' /\ NothingPut
<1>1. CASE NothingPut /\ UNCHANGED <<handle, loading>>
  <2>1. UNCHANGED wifi  BY <1>1 DEF NothingPut, saved
  <2> QED  BY <1>1, <2>1 DEF HandleInv
<1>2. CASE User
  BY <1>1, <1>2, UserStep DEF station
<1>3. CASE Handle
  <2>1. NothingPut /\ UNCHANGED wifi  BY <1>3 DEF Handle, NothingPut, saved
  <2>2. ~loading /\ handle = Shut  BY <1>3 DEF Handle, HandleInv
  <2>3. \/ UNCHANGED <<loading, handle>>
        \/ loading' = TRUE /\ handle' = Open
    BY <1>3, <2>2, ForReadingFact DEF Handle
  <2>4. CASE UNCHANGED <<loading, handle>>  BY <1>1, <2>1, <2>4
  <2>5. CASE loading' = TRUE /\ handle' = Open  BY <2>1, <2>5 DEF HandleInv, Open
  <2> QED  BY <2>3, <2>4, <2>5
<1>4. CASE Connect
  <2>1. NothingPut /\ UNCHANGED wifi  BY <1>4 DEF Connect, NothingPut, saved
  <2>2. loading' = FALSE /\ handle' = Shut  BY <1>4 DEF Connect
  <2> QED  BY <2>1, <2>2 DEF HandleInv
<1>5. CASE Associate \/ LoseOrFail \/ Roam
  BY <1>1, <1>5 DEF Associate, LoseOrFail, Roam, NothingPut, station
<1>6. CASE Restart
  <2>1. NothingPut /\ UNCHANGED wifi  BY <1>6 DEF Restart, NothingPut, saved
  <2>2. loading' = FALSE /\ handle' = Shut  BY <1>6, StartFacts DEF Restart, Started
  <2> QED  BY <2>1, <2>2 DEF HandleInv
<1>7. CASE UNCHANGED vars
  BY <1>1, <1>7 DEF vars, NothingPut, station
<1> QED
  BY <1>2, <1>3, <1>4, <1>5, <1>6, <1>7 DEF Next, Network

LEMMA HandleInit == Init => HandleInv
<1> SUFFICES ASSUME Init PROVE HandleInv
  OBVIOUS
<1>1. loading = FALSE /\ handle = Shut  BY StartFacts DEF Init
<1>2. PICK device \in Devices : wifi = device.wifi  BY DEF Init
<1>3. ~wifi.others /\ (~wifi.made => wifi.ssid = Unsaved)  BY <1>2, DevicesAssumption
<1> QED  BY <1>1, <1>3 DEF HandleInv

\* Whatever anybody does after the start of the device: nothing is saved.  The
\* profiles, the modes, and all else that goes through the object, are lost with
\* the next start, and what only the preferences hold is lost at once.
THEOREM NothingIsSaved == Spec => [][stored' = stored]_vars
<1>1. HandleInv /\ [Next]_vars => [stored' = stored]_vars
  BY HandleStep DEF NothingPut, saved
<1>2. HandleInv /\ [Next]_vars => HandleInv'
  BY HandleStep
<1> QED
  BY <1>1, <1>2, HandleInit, PTL DEF Spec

\* The keys of the network are never mixed with those of the user interface.
THEOREM KeysAreKept == Spec => []NetworkKeysAreKept
<1>1. HandleInv => NetworkKeysAreKept
  BY DEF HandleInv, NetworkKeysAreKept
<1>2. HandleInv /\ [Next]_vars => HandleInv'
  BY HandleStep
<1> QED
  BY <1>1, <1>2, HandleInit, PTL DEF Spec


-----------------------------------------------------------------------------
\* What is stored, of the right kind; by the above it never changes.
StoredInv == stored \in Saved /\ wifi \in Keys /\ compiled \in Networks \cup {NoNetwork}

LEMMA StoredInit == Init => StoredInv
<1> SUFFICES ASSUME Init PROVE StoredInv
  OBVIOUS
<1>1. PICK device \in Devices :
        stored = device.stored /\ wifi = device.wifi /\ compiled = device.compiled
  BY DEF Init
<1> QED  BY <1>1, DevicesAssumption DEF StoredInv

LEMMA StoredStep ==
    ASSUME StoredInv, NothingPut
    PROVE  StoredInv'
BY DEF StoredInv, NothingPut, saved

LEMMA LoadedFact ==
    ASSUME stored \in Saved
    PROVE  /\ Loaded(stored).profile \in Profiles
           /\ Loaded(stored).mode \in Modes
           /\ Loaded(stored).targets \in Targets
<1>1. stored.profile # Unsaved => stored.profile \in Profiles  BY DEF Saved
<1>2. stored.mode # Unsaved => stored.mode \in Modes  BY DEF Saved
<1>3. stored.targets # Unsaved => stored.targets \in Targets  BY DEF Saved
<1>4. [m \in Modes |-> [p \in Profiles |-> Default]] \in Targets
  BY TargetsAssumption DEF Targets
<1>5. Loaded(stored).profile = (IF stored.profile # Unsaved THEN stored.profile ELSE FirstProfile)
  BY StartFacts DEF Loaded, Get
<1>6. Loaded(stored).mode = (IF stored.mode # Unsaved THEN stored.mode ELSE "WEIGHT")
  BY StartFacts DEF Loaded, Get
<1>7. Loaded(stored).targets =
        (IF stored.targets # Unsaved THEN stored.targets
         ELSE [m \in Modes |-> [p \in Profiles |-> Default]])
  BY StartFacts DEF Loaded, Get
<1>8. FirstProfile \in Profiles /\ "WEIGHT" \in Modes  BY ProfilesAssumption DEF Modes
<1> QED  BY <1>1, <1>2, <1>3, <1>4, <1>5, <1>6, <1>7, <1>8

\* The profiles and the screens, with the target that an open edit began with.
ScreenInv ==
    /\ profile \in Profiles /\ mode \in Modes /\ targets \in Targets
    /\ screen \in {"READY", "EDIT", "MENU", "GRINDING"}
    /\ edit \in 1..Highest /\ original \in 1..Highest
    /\ EditIsOfWhatIsShown

LEMMA TargetFact ==
    ASSUME targets \in Targets, NEW m \in Modes, NEW p \in Profiles
    PROVE  targets[m][p] \in 1..Highest
BY DEF Targets

LEMMA ScreenInit == Init => ScreenInv
<1> SUFFICES ASSUME Init PROVE ScreenInv
  OBVIOUS
<1>1. profile \in Profiles /\ mode \in Modes /\ targets \in Targets
  BY StoredInit, LoadedFact DEF Init, StoredInv
<1>2. screen = "READY" /\ edit = Default /\ original = Default  BY DEF Init
<1> QED  BY <1>1, <1>2, TargetsAssumption DEF ScreenInv, EditIsOfWhatIsShown

LEMMA ScreenStep ==
    ASSUME ScreenInv, stored \in Saved, [Next]_vars
    PROVE  ScreenInv'
<1> USE DEF ScreenInv, EditIsOfWhatIsShown
<1>1. CASE UNCHANGED <<choices, display>>
  BY <1>1 DEF choices, display
<1>2. ASSUME NEW p \in Profiles, ChangeTab(p) PROVE ScreenInv'
  BY <1>2 DEF ChangeTab, display
<1>3. ASSUME NEW m \in Modes, Change(m), screen # "EDIT" PROVE ScreenInv'
  BY <1>3, TargetFact DEF Change
<1>4. CASE ToggleMode
  BY <1>3, <1>4 DEF ToggleMode, SwipeAllowed
<1>5. ASSUME NEW m \in Modes, PickMode(m) PROVE ScreenInv'
  BY <1>3, <1>5 DEF PickMode
<1>6. CASE LongPress
  BY <1>6, TargetFact DEF LongPress, choices
<1>7. ASSUME NEW by \in {-1, 1}, Adjust(by) PROVE ScreenInv'
  <2>1. Limited(edit + by) \in 1..Highest  BY TargetsAssumption DEF Limited
  <2> QED  BY <1>7, <2>1 DEF Adjust, choices
<1>8. CASE SaveEdit
  <2>1. targets' \in Targets
    <3>1. CASE edit \in 1..Highest
      <4>1. targets' = [targets EXCEPT ![mode][profile] = edit]  BY <1>8, <3>1 DEF SaveEdit
      <4> QED  BY <4>1, <3>1 DEF Targets
    <3> QED  BY <3>1
  <2> QED  BY <1>8, <2>1 DEF SaveEdit
<1>9. CASE CancelEdit  BY <1>9 DEF CancelEdit, choices
<1>10. CASE SwitchScreen  BY <1>10 DEF SwitchScreen, choices
<1>11. ASSUME NEW m \in PurgeModes, PickPurge(m) PROVE ScreenInv'
  BY <1>1, <1>11 DEF PickPurge
<1>12. CASE StartGrind  BY <1>12 DEF StartGrind, choices
<1>13. CASE Network \/ Associate \/ LoseOrFail \/ Roam
  BY <1>1, <1>13 DEF Network, Handle, Connect, Associate, LoseOrFail, Roam
<1>14. CASE Restart
  <2>1. profile' \in Profiles /\ mode' \in Modes /\ targets' \in Targets
    BY <1>14, LoadedFact DEF Restart, Started
  <2>2. screen' = "READY" /\ edit' = Default /\ original' = Default
    BY <1>14 DEF Restart, Started
  <2> QED  BY <2>1, <2>2, TargetsAssumption
<1>15. CASE UNCHANGED vars  BY <1>1, <1>15 DEF vars
<1> QED
  BY <1>2, <1>4, <1>5, <1>6, <1>7, <1>8, <1>9, <1>10, <1>11, <1>12, <1>13, <1>14, <1>15
  DEF Next, User

-----------------------------------------------------------------------------
\* The station, and the network it was told to join last.
StationInv ==
    /\ enabled = TRUE /\ connecting \in BOOLEAN /\ inRange \in BOOLEAN
    /\ since \in 0..Timeout
    /\ status \in {"TRYING", "CONNECTED", "FAILED"}
    /\ StoredNetworkWins

LEMMA ConfiguredFact ==
    /\ StoredNetworkWins <=> tried = Configured
    /\ StoredInv => Configured \in Networks \cup {NoNetwork}
<1>1. StoredInv => wifi.ssid \in Networks \cup {Unsaved}  BY DEF StoredInv, Keys
<1> QED  BY <1>1 DEF StoredNetworkWins, Configured, StoredInv

LEMMA StationInit == Init => StationInv
<1> SUFFICES ASSUME Init PROVE StationInv
  OBVIOUS
<1>1. wifi.ssid \in Networks \cup {Unsaved} /\ (~wifi.made => wifi.ssid = Unsaved)
  BY StoredInit, HandleInit DEF StoredInv, Keys, HandleInv
<1>2. tried = Configured  BY <1>1, FirstWantedFact DEF Init
<1>3. enabled = TRUE  BY StartFacts DEF Init
<1>4. since \in 0..Timeout  BY PaceAssumption DEF Init
<1>5. connecting \in BOOLEAN /\ inRange \in BOOLEAN /\ status \in {"TRYING", "CONNECTED", "FAILED"}
  BY DEF Init
<1> QED  BY <1>2, <1>3, <1>4, <1>5, ConfiguredFact DEF StationInv

LEMMA StationStep ==
    ASSUME StationInv, StoredInv, HandleInv, [Next]_vars
    PROVE  StationInv'
<1>1. UNCHANGED <<wifi, compiled>>  BY HandleStep DEF NothingPut, saved
<1>2. wifi.ssid \in Networks \cup {Unsaved} /\ (~wifi.made => wifi.ssid = Unsaved)
  BY DEF StoredInv, Keys, HandleInv
<1>3. ASSUME UNCHANGED tried PROVE StoredNetworkWins'
  BY <1>1, <1>3 DEF StoredNetworkWins, StationInv
<1>4. ASSUME tried' = Configured PROVE StoredNetworkWins'
  BY <1>1, <1>4 DEF StoredNetworkWins, Configured
<1>5. CASE UNCHANGED <<station, inRange>>
  BY <1>3, <1>5 DEF station, StationInv
<1>6. CASE User
  <2>1. UNCHANGED inRange
    BY <1>6 DEF User, ChangeTab, ToggleMode, Change, PickMode, LongPress, SaveEdit, CancelEdit,
       SwitchScreen, StartGrind, Adjust, PickPurge
  <2> QED  BY <1>5, <1>6, <2>1, UserStep
<1>7. CASE Handle
  <2>1. connecting' \in BOOLEAN /\ UNCHANGED <<enabled, tried, status, inRange>>
    BY <1>7 DEF Handle, InProgress
  <2>2. since' \in 0..Timeout  BY <1>7, PaceAssumption DEF Handle, StationInv
  <2> QED  BY <1>3, <2>1, <2>2 DEF StationInv
<1>8. CASE Connect
  <2>1. UNCHANGED <<enabled, inRange>>  BY <1>8 DEF Connect
  <2>2. CASE Wanted(handle) = NoNetwork
    BY <1>3, <1>8, <2>1, <2>2 DEF Connect, StationInv
  <2>3. CASE Wanted(handle) # NoNetwork
    <3>1. handle = Open  BY <1>8 DEF Connect, HandleInv, Open
    <3>2. tried' = Configured  BY <1>2, <1>8, <2>3, <3>1, CredentialsFact DEF Connect
    <3>3. connecting' = TRUE /\ since' = 0 /\ status' = "TRYING"  BY <1>8, <2>3 DEF Connect
    <3>4. 0 \in 0..Timeout  BY PaceAssumption
    <3> QED  BY <1>4, <2>1, <3>2, <3>3, <3>4 DEF StationInv
  <2> QED  BY <2>2, <2>3
<1>9. CASE Associate \/ LoseOrFail
  <2>1. UNCHANGED <<enabled, connecting, since, tried, inRange>>
        /\ status' \in {"TRYING", "CONNECTED", "FAILED"}
    BY <1>9 DEF Associate, LoseOrFail
  <2> QED  BY <1>3, <2>1 DEF StationInv
<1>10. CASE Roam
  <2>1. UNCHANGED station /\ inRange' \in BOOLEAN  BY <1>10 DEF Roam, StationInv
  <2> QED  BY <1>3, <2>1 DEF StationInv, station
<1>11. CASE Restart
  <2>1. tried' = Configured  BY <1>2, <1>11, FirstWantedFact DEF Restart, Started
  <2>2. enabled' = TRUE /\ UNCHANGED inRange  BY <1>11, StartFacts DEF Restart, Started
  <2>3. connecting' \in BOOLEAN /\ since' = 0 /\ status' \in {"TRYING", "CONNECTED", "FAILED"}
    BY <1>11 DEF Restart, Started
  <2>4. 0 \in 0..Timeout  BY PaceAssumption
  <2> QED  BY <1>4, <2>1, <2>2, <2>3, <2>4 DEF StationInv
<1>12. CASE UNCHANGED vars  BY <1>5, <1>12 DEF vars
<1> QED
  BY <1>6, <1>7, <1>8, <1>9, <1>10, <1>11, <1>12 DEF Next, Network

-----------------------------------------------------------------------------
\* Everything together, but for the purge modes.
PurgeInv == applied \in PurgeModes /\ picked \in PurgeModes
IInv == HandleInv /\ StoredInv /\ ScreenInv /\ StationInv /\ PurgeInv

LEMMA PurgeInit == Init => PurgeInv
<1> SUFFICES ASSUME Init PROVE PurgeInv
  OBVIOUS
<1>1. stored.purge # Unsaved => stored.purge \in PurgeModes  BY StoredInit DEF StoredInv, Saved
<1>2. picked = Get(AfterHardware, "grinder", stored.purge, "PURGE") /\ applied = "PURGE"  BY DEF Init
<1> QED  BY <1>1, <1>2 DEF Get, PurgeInv, PurgeModes

LEMMA PurgeStep ==
    ASSUME PurgeInv, StoredInv, [Next]_vars
    PROVE  PurgeInv'
<1>1. CASE UNCHANGED purge  BY <1>1 DEF purge, PurgeInv
<1>2. ASSUME NEW m \in PurgeModes, PickPurge(m) PROVE PurgeInv'
  BY <1>2 DEF PickPurge, PurgeInv
<1>3. CASE StartGrind
  <2>1. stored.purge # Unsaved => stored.purge \in PurgeModes  BY DEF StoredInv, Saved
  <2> QED  BY <1>3, <2>1 DEF StartGrind, Get, PurgeInv, PurgeModes
<1>4. ASSUME NEW p \in Profiles, ChangeTab(p) PROVE PurgeInv'
  BY <1>1, <1>4 DEF ChangeTab
<1>5. ASSUME NEW by \in {-1, 1}, Adjust(by) PROVE PurgeInv'
  BY <1>1, <1>5 DEF Adjust
<1>6. CASE ToggleMode \/ (\E m \in Modes : PickMode(m)) \/ LongPress \/ SaveEdit \/ CancelEdit
             \/ SwitchScreen
  BY <1>1, <1>6 DEF ToggleMode, PickMode, Change, LongPress, SaveEdit, CancelEdit, SwitchScreen
<1>7. CASE Network \/ Associate \/ LoseOrFail \/ Roam \/ Restart
  BY <1>1, <1>7 DEF Network, Handle, Connect, Associate, LoseOrFail, Roam, Restart
<1>8. CASE UNCHANGED vars  BY <1>1, <1>8 DEF vars
<1> QED
  BY <1>2, <1>3, <1>4, <1>5, <1>6, <1>7, <1>8 DEF Next, User

LEMMA Invariance == Spec => []IInv
<1>1. Init => IInv
  BY HandleInit, StoredInit, ScreenInit, StationInit, PurgeInit DEF IInv
<1>2. IInv /\ [Next]_vars => IInv'
  BY HandleStep, StoredStep, ScreenStep, StationStep, PurgeStep DEF IInv, StoredInv
<1> QED
  BY <1>1, <1>2, PTL DEF Spec

\* Every variable keeps its type: what is edited, jogged or saved stays within the
\* limits of a target.
THEOREM TypeCorrectness == Spec => []SettingsTypeOK
<1>1. IInv => SettingsTypeOK
  <2> SUFFICES ASSUME IInv PROVE SettingsTypeOK
    OBVIOUS
  <2>1. handle \in [on : {"nothing", "grinder", "wifi"}, readOnly : BOOLEAN] /\ loading \in BOOLEAN
    BY DEF IInv, HandleInv, Shut
  <2>2. tried \in Networks \cup {NoNetwork}
    BY ConfiguredFact DEF IInv, StationInv
  <2> QED
    BY <2>1, <2>2 DEF IInv, StoredInv, ScreenInv, StationInv, PurgeInv, SettingsTypeOK
<1> QED
  BY <1>1, Invariance, PTL

\* Neither the profile nor the mode changes under an open edit.
THEOREM EditIsUndisturbed == Spec => []EditIsOfWhatIsShown
<1>1. IInv => EditIsOfWhatIsShown
  BY DEF IInv, ScreenInv
<1> QED
  BY <1>1, Invariance, PTL

\* Every attempt is for the network that is configured.
THEOREM ConfiguredNetwork == Spec => []StoredNetworkWins
<1>1. IInv => StoredNetworkWins
  BY DEF IInv, StationInv
<1> QED
  BY <1>1, Invariance, PTL

\* The network is on, whatever is stored under "enabled" in its namespace.
THEOREM AlwaysEnabled == Spec => [](enabled = TRUE)
<1>1. IInv => enabled = TRUE
  BY DEF IInv, StationInv
<1> QED
  BY <1>1, Invariance, PTL

=============================================================================
