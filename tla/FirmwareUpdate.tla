---------------------------- MODULE FirmwareUpdate ----------------------------
(***************************************************************************)
(* A firmware update over Bluetooth: bluetooth/ota_handler.cpp with the    *)
(* commands and callbacks of bluetooth/manager.cpp that drive it, and what *)
(* it does to the rest of the device.                                      *)
(*                                                                         *)
(* The Bluetooth stack runs one callback at a time.  Two of them are long: *)
(* START erases the patch partition before ota_in_progress is set, END     *)
(* applies the patch.  Meanwhile the main loop (main.cpp) suspends and     *)
(* resumes the same tasks on its own account, the user interface looks at  *)
(* is_updating(), the user grinds, Bluetooth is switched off by the user   *)
(* interface or by its own task, and power may fail.                       *)
(*                                                                         *)
(* What a START announces, for the boot after the update to compare, is    *)
(* not here: it is stored and looked up through preferences that           *)
(* WifiManager::init() has closed by then (see SharedSettings), so nothing *)
(* is stored and every boot finds nothing.                                 *)
(***************************************************************************)
EXTENDS Naturals, Sequences

CONSTANTS
    Firmware,  \* the builds that exist
    MaxChunks  \* bound: chunks in a patch

ASSUME UpdateAssumption == Firmware # {} /\ MaxChunks \in Nat

VARIABLES
    running,        \* the firmware the device runs
    enabled,        \* ble_enabled
    connected,      \* device_connected
    leaving,        \* the tasks that are in disable(): "user" interface, "timeout"
    callback,       \* the callback the stack is in: "none", "erasing" or "applying"
    updating,       \* ota_in_progress
    target,         \* the firmware whose patch is transferred
    size,           \* patch_size, in chunks
    received,       \* received_size
    patch,          \* chunks in the patch partition, in order
    sent,           \* the client: chunks it has sent
    suspended,      \* TaskManager::ota_suspended
    mainSuspended,  \* hardware_suspended in loop()
    mainSaw,        \* ota_active in loop(), read and not acted upon; "none" between
    motor,          \* a grind is running and drives the motor
    touch,          \* TouchDriver is enabled
    screen,         \* StateMachine::current_state
    unseen          \* history: a disable() was or came too early to see the last START

link     == <<enabled, connected, leaving>>
transfer == <<updating, target, size, received, patch, sent>>
tasks    == <<suspended, mainSuspended, mainSaw>>
device   == <<motor, touch, screen>>
vars == <<running, link, callback, transfer, tasks, device, unseen>>

Screen == {"READY", "GRINDING", "OTA_UPDATE"}

UpdateTypeOK ==
    /\ running \in Firmware
    /\ enabled \in BOOLEAN /\ connected \in BOOLEAN /\ leaving \subseteq {"user", "timeout"}
    /\ callback \in {"none", "erasing", "applying"}
    /\ updating \in BOOLEAN /\ target \in Firmware
    /\ size \in 0..MaxChunks /\ received \in 0..size /\ sent \in 0..size
    /\ patch \in Seq(1..MaxChunks) /\ Len(patch) <= MaxChunks
    /\ suspended \in BOOLEAN /\ mainSuspended \in BOOLEAN /\ mainSaw \in {"none", "idle", "active"}
    /\ motor \in BOOLEAN /\ touch \in BOOLEAN /\ screen \in Screen
    /\ unseen \in BOOLEAN

Init ==
    /\ running \in Firmware
    /\ enabled \in BOOLEAN /\ connected = FALSE /\ leaving = {} /\ callback = "none"
    /\ updating = FALSE /\ target = running /\ size = 0 /\ received = 0 /\ patch = <<>> /\ sent = 0
    /\ suspended = FALSE /\ mainSuspended = FALSE /\ mainSaw = "none"
    /\ motor = FALSE /\ touch = TRUE /\ screen = "READY"
    /\ unseen = FALSE

-----------------------------------------------------------------------------
\* Booting: whether Bluetooth comes up is a setting.

Boot(f) ==
    /\ running' = f
    /\ screen' = "READY"
    /\ enabled' \in BOOLEAN /\ connected' = FALSE /\ leaving' = {} /\ callback' = "none"
    /\ updating' = FALSE /\ size' = 0 /\ received' = 0 /\ sent' = 0
    /\ suspended' = FALSE /\ mainSuspended' = FALSE /\ mainSaw' = "none"
    /\ motor' = FALSE /\ touch' = TRUE
    /\ target' = f /\ patch' = <<>>
    /\ unseen' = FALSE

PowerFails == Boot(running)

-----------------------------------------------------------------------------
\* The callbacks of the Bluetooth stack.

Listening == connected /\ callback = "none"

Connect ==
    /\ enabled /\ ~connected
    /\ connected' = TRUE
    /\ UNCHANGED <<running, enabled, leaving, callback, transfer, tasks, device, unseen>>

ResetReceived == received' = 0

\* start_ota() up to the erasing of the partition; refused during an update.
\* A finished or an aborted update leaves its patch where it is.
BeginStart ==
    /\ Listening /\ ~updating
    /\ target' \in Firmware /\ size' \in 0..MaxChunks
    /\ ResetReceived
    /\ sent' = 0
    /\ suspended' = TRUE
    /\ callback' = "erasing"
    /\ unseen' = (leaving # {})
    /\ UNCHANGED <<running, link, updating, patch, mainSuspended, mainSaw, device>>

\* The partition is erased, or cannot be.
StartSucceeds ==
    /\ callback = "erasing"
    /\ callback' = "none"
    /\ updating' = TRUE
    /\ patch' = <<>>
    /\ UNCHANGED <<running, link, target, size, received, sent, tasks, device, unseen>>

StartFails ==
    /\ callback = "erasing"
    /\ callback' = "none"
    /\ suspended' = FALSE
    /\ UNCHANGED <<running, link, transfer, mainSuspended, mainSaw, device, unseen>>

\* process_data_chunk().  The clients send chunk after chunk and do not look at
\* the status: a chunk that could not be written leaves no gap in the patch.
ReceiveChunk ==
    /\ Listening /\ updating /\ sent < size
    /\ sent' = sent + 1
    /\ \/ patch' = Append(patch, sent') /\ received' = received + 1
       \/ UNCHANGED <<patch, received>>
    /\ UNCHANGED <<running, link, callback, updating, target, size, tasks, device, unseen>>

\* complete_ota() switches the touch panel off for good ...
BeginComplete ==
    /\ Listening /\ updating
    /\ callback' = "applying"
    /\ touch' = FALSE
    /\ UNCHANGED <<running, link, transfer, tasks, motor, screen, unseen>>

\* ... and restarts into the new firmware, into the old one when the patch is
\* empty, or gives up.
SizeUnchecked == TRUE  \* mutant
SizeMatches == received = size
ApplyPatch ==
    /\ callback = "applying" /\ SizeMatches
    /\ Boot(IF size = 0 THEN running ELSE target)

GiveUp ==
    /\ callback = "applying"
    /\ callback' = "none"
    /\ updating' = FALSE
    /\ suspended' = FALSE
    /\ UNCHANGED <<running, link, target, size, received, patch, sent, mainSuspended,
                   mainSaw, device, unseen>>

\* abort_ota()
AbortForgetsTasks == updating' = FALSE /\ UNCHANGED suspended  \* mutant
AbortNever == UNCHANGED <<updating, suspended>>  \* mutant
Abort ==
    /\ updating' = FALSE
    /\ suspended' = IF updating THEN FALSE ELSE suspended

ReceiveAbort ==
    /\ Listening
    /\ Abort
    /\ UNCHANGED <<running, link, callback, target, size, received, patch, sent,
                   mainSuspended, mainSaw, device, unseen>>

Disconnect ==
    /\ Listening
    /\ connected' = FALSE
    /\ Abort
    /\ UNCHANGED <<running, enabled, leaving, callback, target, size, received, patch, sent,
                   mainSuspended, mainSaw, device, unseen>>

-----------------------------------------------------------------------------
\* disable(): called by the user interface for the menu and, while nobody is
\* connected, by the task of Bluetooth for its timeout, maybe both at once.  It
\* looks for an update once ...

BeginDisable(task) ==
    /\ enabled /\ task \notin leaving
    /\ leaving' = leaving \cup {task}
    /\ Abort
    /\ unseen' = (unseen \/ callback = "erasing")
    /\ UNCHANGED <<running, enabled, connected, callback, target, size, received, patch, sent,
                   mainSuspended, mainSaw, device>>

\* ... and takes the stack down after a pause, whatever has come since.  The
\* stack may still report the disconnection before (Disconnect), or not.
EndDisable(task) ==
    /\ task \in leaving
    /\ leaving' = leaving \ {task}
    /\ enabled' = FALSE /\ connected' = FALSE
    /\ UNCHANGED <<running, callback, transfer, tasks, device, unseen>>

\* It blocks the task that calls it.
DisplayRuns == "user" \notin leaving

DisableByTimeout == ~connected /\ BeginDisable("timeout")

Enable ==
    /\ ~enabled
    /\ enabled' = TRUE
    /\ UNCHANGED <<running, connected, leaving, callback, transfer, tasks, device, unseen>>

ToggleBluetooth == DisplayRuns /\ touch /\ screen = "READY" /\ (BeginDisable("user") \/ Enable)

-----------------------------------------------------------------------------
\* The main loop keeps its own idea of whether it has suspended the tasks.

MainLooks ==
    /\ mainSaw = "none"
    /\ mainSaw' = IF updating THEN "active" ELSE "idle"
    /\ UNCHANGED <<running, link, callback, transfer, suspended, mainSuspended, device,
                   unseen>>

MainActs ==
    /\ mainSaw # "none"
    /\ mainSaw' = "none"
    /\ mainSuspended' = (mainSaw = "active")
    /\ suspended' = IF mainSuspended' # mainSuspended THEN mainSuspended' ELSE suspended
    /\ UNCHANGED <<running, link, callback, transfer, device, unseen>>

-----------------------------------------------------------------------------
\* The display: OtaDataExportController::update() takes the screen for an
\* update; nothing gives it back but a grind that goes on, or a restart.

ShowUpdate ==
    /\ DisplayRuns /\ updating /\ screen # "OTA_UPDATE"
    /\ screen' = "OTA_UPDATE"
    /\ UNCHANGED <<running, link, callback, transfer, tasks, motor, touch, unseen>>

\* A grind needs the control task to start; the control task ends it or holds
\* it for the user to empty the cup.  The user stops it or goes on, with the
\* grinding screen, whether or not the control task runs.
StartGrind ==
    /\ DisplayRuns /\ touch /\ screen = "READY" /\ ~suspended
    /\ motor' = TRUE /\ screen' = "GRINDING"
    /\ UNCHANGED <<running, link, callback, transfer, tasks, touch, unseen>>

ControlEndsGrind ==
    /\ motor /\ ~suspended
    /\ motor' = FALSE /\ screen' = "READY"
    /\ UNCHANGED <<running, link, callback, transfer, tasks, touch, unseen>>

ControlHoldsGrind ==
    /\ motor /\ ~suspended /\ screen = "GRINDING"
    /\ motor' = FALSE
    /\ UNCHANGED <<running, link, callback, transfer, tasks, touch, screen, unseen>>

UserGoesOn ==
    /\ DisplayRuns /\ touch /\ screen = "GRINDING" /\ ~motor
    /\ motor' = TRUE
    /\ UNCHANGED <<running, link, callback, transfer, tasks, touch, screen, unseen>>

UserStopsGrind ==
    /\ DisplayRuns /\ touch /\ screen = "GRINDING"
    /\ motor' = FALSE /\ screen' = "READY"
    /\ UNCHANGED <<running, link, callback, transfer, tasks, touch, unseen>>

-----------------------------------------------------------------------------
Stack == Connect \/ BeginStart \/ StartSucceeds \/ StartFails \/ ReceiveChunk \/ BeginComplete
            \/ ApplyPatch \/ GiveUp \/ ReceiveAbort \/ Disconnect
Main  == MainLooks \/ MainActs
User  == ToggleBluetooth \/ StartGrind \/ UserGoesOn \/ UserStopsGrind
Control == ControlEndsGrind \/ ControlHoldsGrind
Leaves  == \E task \in {"user", "timeout"} : EndDisable(task)

Next == Stack \/ DisableByTimeout \/ Leaves \/ Main \/ ShowUpdate \/ Control \/ User \/ PowerFails

Spec == Init /\ [][Next]_vars

\* The stack ends its callbacks and notices when a client has gone, the main
\* loop runs, and the control task, a hundred times faster than a client,
\* ends a grind between two updates.  That no client stays for ever is an
\* assumption about the surroundings: the firmware does not limit an update.
Fairness ==
    /\ WF_vars(StartSucceeds \/ StartFails) /\ WF_vars(ApplyPatch \/ GiveUp)
    /\ WF_vars(Leaves) /\ WF_vars(Main) /\ SF_vars(Disconnect) /\ SF_vars(Control)
FairSpec == Spec /\ Fairness

-----------------------------------------------------------------------------
\* Properties.

\* An update never outlives the connection it came over, with one exception: a
\* disable() that looked for updates before this one was under way.  Then no
\* client is left to end it, and the control task stays suspended.
UpdateHasClient == updating /\ ~unseen => enabled /\ connected

\* Once the main loop has caught up, the tasks are suspended exactly while an
\* update is under way, however the main loop and the callbacks, which both
\* suspend and resume them, have interleaved.
SuspensionFollowsUpdate ==
    callback = "none" /\ mainSaw = "none" /\ mainSuspended = updating => suspended = updating

\* A firmware is installed only from a patch that is whole: no chunk missing
\* because it could not be written, none left from an earlier transfer.
OnlyWholePatchIsApplied ==
    [][running' # running => updating /\ patch = [i \in 1..size |-> i]]_vars

\* A motor that is running when an update begins is stopped in the end: the
\* control task comes back, however the update ends, or the device restarts.
\* Only an update without a client, which disable() overlooked, may hold it.
MotorStopsInTheEnd == motor ~> ~motor \/ (updating /\ ~connected)
=============================================================================
