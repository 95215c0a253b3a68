# A verification development of the grinder

The repository holds two programs. **The firmware** (`smart-grind-by-weight/src/`, C++ on a
dual-core ESP32 with FreeRTOS) turns a coffee grinder into one that grinds by weight or by time.
**The companion** (`grind-companion-webapp/src/`, TypeScript and React) fetches the sessions of
the firmware and keeps a journal of beans and grinds in the browser.

The modules here model the parts in which several tasks, the user, the network and the power supply
meet: the grind state machine and the motor, the screen that follows it, the log on its way to flash,
the update and the export over Bluetooth, the tune of the motor's latency, the calibration of the load
cell with the warnings, the settings and the preferences object they share with the network, and the
companion's synchronisation. TLC checks them on small instances, and TLAPS proves every safety and
action property of the runs for every value of the constants.

- [The system](#the-system): tasks, components, what is hard in each
- [The modules](#the-modules): how state and actions correspond to the code
- [The runs](#the-runs): what each checks, its bounds, its fairness
- [What the runs refute](#what-the-runs-refute): where the code and its comments disagree
- [The proofs](#the-proofs)
- [What is only model-checked, what is not modelled](#what-is-only-model-checked)
- [The plan](#the-plan)

Paths in this file without a prefix are under `smart-grind-by-weight/src/`.

## The system

### Tasks and what they share

| Core | Task (priority, period) | What it runs |
|---|---|---|
| 0 | WeightSampling (4, 20 ms) | samples the load cell, feeds the filter, completes a tare |
| 0 | GrindControl (3, 20 ms) | `GrindController::update()`: one pass of the state machine and its failsafes |
| 1 | Bluetooth (3) | connection timeouts, exports, status; the callbacks of the stack run in a task of the stack |
| 1 | UI (2, 16 ms) | drains the event queue, then the remote commands, updates the screen controllers, then LVGL runs buttons and timers |
| 1 | Network (2, 20 ms) | WiFi, live telemetry; the web server calls its handlers in a task of its own |
| 1 | FileIO (1, 100 ms) | drains `flash_op_queue` and the log queue, writes session files |
| 1 | `loop()` of `main.cpp` | suspends and resumes the hardware tasks around an update |

There is no mutex between the cores. The tasks meet in

- the members of `GrindController`, which Core 0 changes in `update()` and the UI task changes in
  the handlers it calls (`start_grind`, `stop_grind`, `return_to_idle`, `continue_from_purge`,
  `start_additional_pulse`);
- the flags of `Grinder` and the RMT channel behind them, from the same two sides;
- `GrindLogger`'s buffers and current session, opened by Core 0, discarded by the UI task, ended
  by the file task;
- three bounded queues: controller events to the screen (10), remote commands (4), flash
  operations (5). All three drop what does not fit;
- `ota_in_progress`, `data_export_in_progress`, the suspended tasks;
- NVS and LittleFS, which survive a power failure, each write on its own.

### Components

**Grind controller** (`controllers/grind_controller.cpp`, `weight_grind_strategy.cpp`,
`time_grind_strategy.cpp`). *State*: the phase, the session's mode and strategy, counters of
pulses, result, the session clock with its pauses, the flag that the end was queued. *Operations*:
one pass of `update()`, five handlers. *Hard*: the handlers overlap a pass; a failsafe runs in the
same pass as the case before it; the 60 s limit is computed with an unsigned subtraction over
pauses and restarts of the clock; a fixed array holds the pulses. *Correct* when the motor runs
in the dispensing phases only and always stops, every grind ends or waits for the user, the clock
measures the active time of this session, the result agrees with the ending.

**Motor driver** (`hardware/grinder.cpp`). *State*: two flags and what the RMT channel plays.
*Hard*: a pulse ends in hardware and is acknowledged by whoever asks next; a stale flag makes the
next start a no-op. *Correct* when the flags agree with the pin wherever somebody relies on them.

**Screen of a grind** (`ui/controllers/grinding_controller.cpp`, `ui/ui_manager.cpp`,
`system/state_machine.cpp`). *State*: the current screen, one of two 60 s timers. *Hard*: the
screen learns of a phase later, from a queue; what a button does depends on the screen, what the
controller does with it on the phase. *Correct* when the screen catches up, a grind in
INITIALIZING gets the acknowledgment it waits for, and a finished grind can be dismissed.

**Remote commands** (`network/remote_grind_queue.cpp`, `http_server.cpp`, `bluetooth/manager.cpp`).
*State*: a queue of four. *Hard*: accepted and executed are two things; a command that does not
fit the screen is dropped after the client was told ok. *Correct* when a command never does
what a button on that screen could not do.

**Grind log** (`logging/grind_logging.cpp`, the flash queue of the controller). *State*: the
session and its buffers in RAM, the id counter in RAM and NVS, one file per session.
*Hard*: ending a session takes several flash writes in the lowest task while the next grind may
begin; power fails between any two; the counter is never stored, so names begin again with a restart. *Correct* when
every finished grind has a file of its own, holding its own settings, result and entries, and later ones or those of before
a restart make the room for it.

**Firmware update** (`bluetooth/ota_handler.cpp`, `bluetooth/manager.cpp`, `main.cpp`, the clients
`tools/ble` and `tools/web-flasher`). *State*: the flags and counters of a transfer, the patch
partition, the suspended tasks. *Hard*: clients that vanish, chunks that cannot be written, two parties who suspend the same
tasks, two who switch Bluetooth off, a restart in every state. *Correct* when an update ends with its client, the tasks come
back, and only a whole patch is installed.

**Data export** (`bluetooth/data_stream.cpp`, `bluetooth/manager.cpp`, `tools/ble/grinder-ble.py`).
*State*: the session that is sent, an open file with its position, the chunks under way, what the client has of
the file. *Hard*: the Bluetooth task sends while callbacks disconnect and request, without a lock; the client
gets ready after it has asked, and gives up without telling. *Correct* when what is stored is one whole
session, the export ends with its client, and neither side waits for ever.

**Motor latency autotune** (`controllers/autotune_controller.cpp`, `ui/controllers/autotune_controller.cpp`).
*State*: a search over pulse lengths, a verification in rounds, the latency in use and the stored one. *Hard*:
two bounds end the search, the driver makes other pulses than those it is asked for, the tune may be cancelled
or lose its screen in every step. *Correct* when a tune only leaves a verified latency in use, and a grinder
that answers is tuned.

**Load cell, calibration, warnings** (`hardware/WeightSensor.cpp`, `tasks/weight_sampling_task.cpp`,
`ui/controllers/calibration_controller.cpp`, `ui/components/blocking_overlay.cpp`,
`system/diagnostics_controller.cpp`). *State*: the converter and its fault, the tare both cores write, the
factor and the flag in RAM and NVS, the step of the calibration, the timers of noise. *Hard*: operations that block
the user interface and time out, weights that go away in between, faults, restarts at any moment. *Correct* when a load cell
that failed is not calibrated, warnings are about what they say, and the user is never held.

**Profiles and preferences** (`controllers/profile_controller.cpp`, `hardware/hardware_manager.cpp`, the
ready, edit and menu screens) and **WiFi** (`network/wifi_manager.cpp`). *State*: the profiles, modes and
switches; the credentials and the attempt to connect; one `Preferences` object that is lent to all. *Hard*: the
object is open on one namespace at a time, and the task of the network opens and closes it beside the user
interface. *Correct* when a choice is applied, an edit is of what was shown, the configured network is tried
and joined, and no setting lands among the network's keys.

**The companion** (`grind-companion-webapp/src/store/grinderStore.ts`, `network/`, `db/database.ts`, two
pages). *State*: the status of the connection, the socket and its timer, calls of `sync()` that are under way, the
sessions in IndexedDB. *Hard*: everything between two awaits may be overtaken; synchronisations overlap and share a
flag; the grinder writes and rotates its files meanwhile. *Correct* when a synchronisation that succeeds is
complete, only whole sessions are stored, and what was disconnected stays so.

Statistics, drivers, layout, the journal of the companion and the host's scripts are in `PROJECT.json` with the
reason why they are not modelled.

### How they interact

```
 buttons, LVGL timers      web server, BLE callbacks            BLE callbacks     loop()
        |                          |                                  |              |
        |                  remote queue (4)                     OTAHandler <----- suspends
        v                          v                                  |          the tasks
  +-------------- UI task (Core 1) ---------------+ <- is_updating() -+
  |  screen, timers                               |
  +--+----------------------------------^---------+
     | handlers                         | event queue (10)
     v                                  |
  GrindController.update() (Core 0) ----+----> Grinder ---> RMT
     |                       |
     | session, entries      | flash queue (5)
     v                       v
  GrindLogger <------- file task (Core 1) ---> LittleFS, NVS <--- one Preferences object:
        |                                                          profiles, controller, load
        +---> session files ---> Bluetooth task ---> grinder-ble.py   cell, logger, updates, WiFi
        +---> web server ------> companion: sync(), live telemetry
```

## The modules

| Module | Code | Depends on |
|---|---|---|
| `GrindSession` | what a grind promises its user (abstract) | |
| `GrindController` | `grind_controller.cpp`, both strategies, `grinder.cpp` | instantiates `GrindSession` |
| `GrindCores` | the same on two cores | extends `GrindController`, reuses its actions |
| `GrindControllerProofs` | | extends `GrindCores`, `TLAPS` |
| `GrindScreen` | `grinding_controller.cpp`, `ui_manager.cpp`, `remote_grind_queue.cpp`, export screen | |
| `SessionLog` | `grind_logging.cpp`, flash queue, purge, factory reset | |
| `FirmwareUpdate` | `ota_handler.cpp`, callbacks of `manager.cpp`, `loop()`, boot | |
| `FirmwareUpdateProofs` | | extends `FirmwareUpdate`, `TLAPS` |
| `SessionLogProofs` | | extends `SessionLog`, `TLAPS` |
| `PulseEncoding` | the symbols of `grinder.cpp` for a pulse | |
| `AutoTune` | `autotune_controller.cpp`, its screen, the stored latency | |
| `AutoTuneProofs` | | extends `AutoTune`, `TLAPS` |
| `DataExport` | transfer in `manager.cpp`, `data_stream.cpp`, `grinder-ble.py` | |
| `ScreenAndExportProofs` | | extends `DataExport` and `GrindScreen`, `TLAPS` |
| `LoadCell` | `WeightSensor.cpp`, `weight_sampling_task.cpp` | |
| `Diagnostics` | `diagnostics_controller.cpp`, the calibrated flag | extends `LoadCell` |
| `Calibration` | `calibration_controller.cpp`, `blocking_overlay.cpp` | extends `Diagnostics`, composes the three |
| `CalibrationProofs` | | extends `Calibration`, `TLAPS` |
| `SharedSettings` | `profile_controller.cpp`, ready, edit and menu screens, `wifi_manager.cpp`, boot | |
| `SharedSettingsProofs` | | extends `SharedSettings`, `TLAPS` |
| `CompanionSync` | `grinderStore.ts`, both clients, `database.ts`, two pages | |
| `CompanionSyncProofs` | | extends `CompanionSync`, `TLAPS` |
| `MC...` | instances for TLC | |

`PROJECT.json` ("map") gives the source lines of each definition. A definition whose comment says
*mutant* is never used by a specification: it is a plausible bug in the definition after it, with
which the named property must fail, and shows that the property can.

### GrindSession and GrindController

`GrindSession` has two variables: a stage (idle, preparing, dosing, held, done, failed) and
whether the motor is driven. The motor turns in the dosing stage only, a hold is left for more dosing, by a failure or by the
user who gives up, and what is done or failed is over until the user leaves it or extends a timed grind.

`GrindController` is the code. `update()` is two actions, `UpdateCase` (the switch over the
phase) and `UpdateGuards` (negative weight, then the time limit), because only between them can
the clock tick or a tare end; each case is an operator of its own that takes the phase the switch
was dispatched on. The public handlers are actions of their own. Weights are data: where the code
compares a weight, the model chooses the outcome, so every sequence of readings is covered.
The result of a grind is computed from the comparison of the final weight and the number of attempts
as in `switch_phase()`. The clock counts ticks from the start (`elapsed`), with the offset and the
start of a pause the code keeps; `active` is a history variable: the true active time that
`elapsed - offset` is compared with. The unsigned wrap of that subtraction is in `TimedOut`.
The motor is Grinder's two flags and what the channel plays; `StartOutcomes` says whether creating
the RMT encoder may fail.

`GrindController` runs no handler inside a pass. This is the design the code is written for, and
the one of which all its properties hold.

### GrindCores

The same actions without that assumption. A pass is `Dispatch`, `RunCase`, `RunGuards`, and works on
the phase it was dispatched on (`snap`); `stop_grind()`, `continue_from_purge()` and
`start_additional_pulse()` are split where they touch the motor, the log and the phase. Handlers
run one after the other, since only the UI task calls them. A handler takes microseconds, so no tick
falls inside it. `continue_from_purge()` is assumed to come after the pass that asked for it, since the
user answers a dialog; the model would otherwise contain an interleaving that cannot happen in 20 ms.
The module ends with `CoresInv`, what the proof needs to know of a pass whose phase the user has left.

### GrindScreen

Phases between INITIALIZING and the end are one, ACTIVE, since the screen treats them alike.
`switch_phase()` on Core 0 is two actions (`ChangePhase`, `EmitEvent`) because the phase is visible
to Core 1 before the event is in the queue, and the handlers of Core 1 may land in between: their event is then queued
first. The UI task's loop is `turn`: events, remote commands, controllers, input. The queue in the model is the one of the
events that change the screen; the events that only redraw may fill the real one, too, so `Send` may drop an event at any time.

Two history variables. `displaced`: an export has taken the screen and no event of the controller has set it since. `amiss`: an event was
dropped, or one of Core 1 overtook one of Core 0, since screen and phase last agreed. They agree (`Agreed`) when a turn's events are all
handled, nobody displaces the screen, it fits the phase, INITIALIZING is acknowledged and a finished grind has its timer.

Two assumptions are stated at their actions: Core 0 is not held up between the halves of `switch_phase()` for as long as a turn of
the UI task (`NextTurn`), and a motor pulse is much shorter than 60 s (`TimerFires`). The names have the prefix `Screen` where
those of `DataExport` would be the same: the two are proved about in one module. The module ends with `ScreenInv`, the invariant of that proof.

### SessionLog

Three tasks share the logger. The controller opens a session in two steps (up to the NVS write of the
id counter, and from it), the file task takes an end request and goes through open, write,
clean up, clear; the UI task discards. `PowerFails` is possible between any two steps; a file that
was being written stays, empty, under its name. The write of the counter goes nowhere (see
[below](#the-preferences-object)), so every restart begins with what an earlier firmware has left (`OldIds`), or with 1 after a factory reset.
`FailToWrite` is a full flash. Not in it: a stop between the two steps that open a session, which take less than a control period.

A grind has a number (`grind`), a history variable that tells whose data is in which file. Nothing keeps the user from leaving a
finished grind before the file task has ended its session (usually 100 ms), and the next grind from meeting what is left of it:
`WriteFile` takes the session and the entries that are there by then. Two more history variables: `hurried`, the grinds that were left while the file task had
something to do, and each time the next one, and `booted`, the last grind before the restart.

### FirmwareUpdate

The stack runs one callback at a time; START and END are long and take two actions. The main loop
reads `is_updating()` and acts on it in two actions (`MainLooks`, `MainActs`). `disable()` is two as well: it looks for an
update and aborts it (`BeginDisable`), and takes the stack down after a pause (`EndDisable`); the user interface calls it for the menu, the
task of Bluetooth for its timeout, maybe both at once, and neither waits for a callback. Chunks are numbers; a chunk that cannot be
written is skipped, since the clients do not read the status. The grind is only as detailed as the update needs: the motor, the
control task that ends or holds a grind, and the user. `unseen` is a history variable: the last START came when a `disable()` had
already looked, or was still erasing when it looked.

Assumptions: a press of the menu's button and the look it leads to are one step; a patch of the right size may apply or be refused. What a
START announces, for the boot after the update to compare, is not here: it is stored and looked up through the closed object.

### The preferences object

`HardwareManager` opens one `Preferences` object on the namespace "grinder" and everybody is lent it. Then
`WifiManager::init()` calls `begin("wifi")` on the same object, which is refused because it is open, and
`end()`, which closes it for all (`network/wifi_manager.cpp:22`). From then on what is put through it is lost,
and what is read through it is the default; only in the moments in which the network has it open it is open at
all, on "wifi" and read-only. `SharedSettings` is the module about this, and `purge_mode` the run that shows it.

The other components that use the object have what follows from it built in, for the device as it is:

- what is read in `setup()` before that line is what earlier firmware may have left: the session counter (`SessionLog`), the motor
  latency (`AutoTune`), profiles and switches (`SharedSettings`);
- what is read after it is the default: the calibration factor (`LoadCell`, `SavedFactor`), the names an update has announced, the purge mode;
- no write arrives, so a restart forgets what was tuned, calibrated and counted. A factory reset, which erases NVS itself, works.

The calibrated flag and the switch of the log have objects of their own and are stored.

### PulseEncoding and AutoTune

`PulseEncoding` has the loop of `start_pulse_rmt()` that cuts a pulse into RMT symbols, as a recursive function of the
length, and what the pin does with them (`HighTime`). It is not the identity, and not monotone: 65 ms become 65 ms, 66 ms
become 33.

`AutoTune` is one step per turn of `UIManager::update()`, that is one call of `update()` of the tune, since everything runs
in that task; the motor, the tare, the user and restarts come between. Lengths are in 1/64 ms, so that the
halved steps of the search are whole. What a pulse does is `Results(grinder, ms)`, the set of things that may
happen: exact grinders, grinders that see the encoded pulse, and weak ones that answer only some of the pulses. A latency that is
accepted is in use until the restart, and not stored. `trials` is a history variable: the verification pulses of the current candidate. Assumption: the RMT encoder
can be created.

### DataExport

`send_next_data_chunk()` is split where a callback of the stack may come between (`task`), down to single assignments
where the transfer is cleared, closed and reported. Notifications are a bounded channel, delivered in order and
lost with the connection. The client is `export_data()` between its awaits, with the two notification handlers and
the parser of a file: a header that names the session, numbered records, whatever follows ignored. A chunk is a file
and a number. The list comes the same way: the client gets ready, asks, and waits for 10 s; without a report, or with one of an earlier export before the list,
it gives up, and with a late chunk beside the list it makes any list of it (`ReceiveList`).

### LoadCell, Diagnostics, Calibration

`LoadCell` has the task of Core 0 (start, validation, samples) and what the user interface calls. A tare is two
fields, `doTare` and `tareTimes`, that both cores write without a lock, so a sample is two steps: reading
them, and writing what follows. A reading is the latest sample, or 0 without any; a factor is the reading the
reference weight adds, so it may be zero or negative; a restart loads the default, since the factor is neither saved nor loaded.

`Diagnostics` adds the five warnings with their timers and the cached flag; `quiet` and `loud` are history variables. `misread` remembers
that the cached value is of a read that failed. `Calibration` adds the screen and the overlay. While an operation blocks the user interface there is
no turn; `Block` lets time pass unwatched. Not combined with it: updates and exports that take the screen during a calibration.

### SharedSettings

The object is `handle`: what it is open on and whether to write. `Began`, `Get` and `Put` are the library's behaviour as the code
uses it: a second `begin()` does nothing, a namespace that is not there can only be made to write, what is not
open reads as the default. The task of the network has the object between two actions (`Handle`, `Connect`), so the user interface may save a setting
in between. A device starts with what an earlier firmware has saved, or nothing. `picked` is a history variable.

### CompanionSync

JavaScript runs one callback at a time, so an action is a callback or an async function from one await to the next.
A call of `sync()` is a record: what it waits for, the grinder, the ids it was given, those still to do, and
what it has read. The live client may fail to open its socket after the status has arrived (`ConnectThrows`). Sockets exist until their close event,
which may be late; `disconnect()` takes the handler
off first. Grinders are as detailed as the application can see: a phase, and files that come into being empty, are
closed, rotated out, and stay empty after a power failure.

## The runs

| Run | Configuration | Distinct states | Question |
|---|---|---|---|
| `controller` | `MCGrindController.cfg` | 22 943 | Does every grind behave and end? |
| `cores` | `MCGrindCores.cfg` | 246 145 | What survives when the two cores interleave? |
| `screen` | `MCGrindScreen.cfg` | 474 296 | Does the screen follow the controller? |
| `session_log` | `MCSessionLog.cfg` | 6 190 679 | Which grinds have a file of their own, and which files make room? |
| `update` | `MCFirmwareUpdate.cfg` | 122 124 | Does an update end well, however it ends? |
| `autotune` | `MCAutoTune.cfg` | 505 335 | Does a tune find a latency that works? |
| `companion_sync` | `MCCompanionSync.cfg` | 304 680 | Is a synchronisation complete, and a connection where the user left it? |
| `export` | `MCDataExport.cfg` | 365 728 | Is what an export stores whole? |
| `calibration` | `MCCalibration.cfg` | 260 142 | Does the user get out, and nobody past the weighing with a cell that failed? |
| `warnings` | `MCWarnings.cfg` | 1 365 182 | Is the warning about noise earned? |
| `settings` | `MCSharedSettings.cfg` | 163 328 | Do the settings and the network get along with one object? |
| `purge_mode` | `MCPurgeModeIsApplied.cfg` | violation | Is a purge mode applied that was chosen? |

The longest passing runs (`calibration`, `session_log`) take about two minutes on two workers. Deadlock is checked in all of them but `export`, where the
user may have no more exports to start and the device really stops.

### `controller`: one grind after another

*Bounds.* Two pulses in the history, a limit of two ticks, a pause of up to two ticks, one additional
pulse, a flash queue of two. Two pulses are enough to have a pulse after a pulse and to run into the limit;
two ticks let the limit expire in every phase, with and without active time behind it; a pause can be
shorter than, equal to and as long as the limit. A pause of the length of the limit is what a forgotten
`timeout_offset_ms` would need to be seen. A queue of two can be full with end requests of grinds dismissed
before the file task came. Sessions repeat without a bound, so whatever one grind leaves behind (flags, offset,
result, pending ends) meets the next one. The driver may fail at every start.

*Shows.* `MotorOffWhenNotDispensing`: whichever way leads out of a dispensing phase, the pin and both flags
are clear. `PulseHistoryInBounds`: no write past `pulse_history`. `TimeoutCountsActiveTime`: the unsigned subtraction
behind the 60 s limit never wraps and measures this session only. `ResultMatchesEnding`,
`RequestedEndArrives` (a log whose end was requested has a request in the queue, also when its own was
dropped). `ImplementsSession`: refinement of `GrindSession`. `GrindEnds`: liveness; with
`MotorOffWhenNotDispensing` it says that a motor does not run for ever.

*Fairness.* The control task is periodic with a priority above everything on Core 0 but sampling: weak
fairness of both halves of a pass, and of time. Nothing is assumed of the user, of the tare (a cell
without samples never completes one) or of the file task; the 60 s limit has to do without them.

### `cores`: the two cores interleave

*Bounds.* One pulse, limit of two, pause of one, queue of one, and a driver that may fail. Each handler
that is split overlaps every step of every pass; nothing else has to be large for that. Grinds repeat.

*Shows.* What does not depend on the absence of overlap (proved for all constants, too): a motor that does not run freely in any phase that settles,
holds or has ended (`MotorOffAfterDosing`), and that a running motor stops or has been forgotten in IDLE
(`MotorStopsUnlessForgotten`). The last is the strongest that holds: see the two races under
[what the runs refute](#what-the-runs-refute).

*Fairness.* Weak fairness of both tasks: a pass is dispatched and finished, a handler that was begun is
finished (the UI task is not suspended in the middle), time passes.

### `screen`: the screen follows

*Bounds.* An event queue of four and a remote queue of two, all four commands. A full queue and one from which an event is dropped while there is
room are both there, so the size is no restriction (the proofs are for any); two remote commands can meet in one turn, and a third one a full queue.

*Shows.* `ScreenFollowsPhase`: with all events handled the screen is the one for the phase, unless an
export displaced it or an event was dropped or overtaken since the two last agreed. `InitializingIsAcknowledged`: `update()` waits in INITIALIZING for
an acknowledgment that
comes with the event of the screen; it is not lost, with the same exception. `TimerBelongsToScreen`: no 60 s timer survives its screen
and dismisses a later result, whatever goes amiss. `FinishedGrindIsDismissed`: a finished grind goes to IDLE, or is extended,
unless an export took the screen or an event was dropped; it does also when its event was overtaken.

*Fairness.* The event half of `switch_phase()` follows (the control task is not preempted for good), the
loop of the UI task goes on, and a timer that stays due fires: strong fairness, since LVGL looks at timers in
one of the four stages of a turn only.

### `session_log`: from RAM to flash

*Bounds.* Two stored sessions, a queue of one, four grinds: two more than are kept, so that rotation
happens twice, also with an aborted file among them. A queue of one loses the request of the grind that follows a hurried one, as five do after five.
The counter starts at 2, a factory reset at 1, so that names repeat in both ways. Power may fail at every step and any number of times, and a grind be
left at any time.

*Shows.* Whatever the user is in a hurry for, and however often names begin again, the damage stays with the grinds concerned. `FinishedGrindIsSaved` (also
when others have to make room; `full` remembers a file that did not fit): a finished grind whose end was worked off has its file, unless it met what was left of
a hurried one, or as many files as are kept have higher names from before the restart. `FileHoldsOneGrind`: settings, result and entries of a file belong to one
grind; only those of hurried grinds may be mixtures. `RotationKeepsNewest`: a whole file goes by purge, or to the next session of its name, which then
is of another power
cycle or a hurried grind's, or for `MaxStored` files with higher names, which are of later grinds or from before the restart.

### `update`: a firmware update

*Bounds.* Two firmwares, patches of up to two chunks, so that one can be missing before and after a written one. Updates, disconnections,
grinds, power failures and both ways to switch Bluetooth off repeat without a bound.

*Shows.* `UpdateHasClient`: every way to lose the connection aborts the update, but one: a `disable()` that looked too early
(`unseen`). `SuspensionFollowsUpdate`: both the callbacks and `loop()` suspend and resume the hardware tasks, without a lock; once `loop()` has
caught up the tasks are suspended exactly during an update. `OnlyWholePatchIsApplied`: a chunk that could not be
written is not skipped over silently. `MotorStopsInTheEnd`: a motor that runs when the tasks are suspended stops once
they are back; only an update that has lost its client to such a `disable()` may hold it.

*Fairness.* The stack ends its callbacks, `disable()` and `loop()` go on, and two strong assumptions: a client goes away
sooner or later (`SF Disconnect`; nothing in the firmware limits an update, so this is about the surroundings), and
the control task, whose period is 20 ms, gets to end a grind between two updates (`SF Control`).

### `autotune`: a tune of a grinder

*Bounds.* The lengths, counts and rounds of the code, not smaller ones: 30 to 300 ms, 5 ms accuracy, five pulses of which four must succeed,
five rounds. Only `MaxIterations` is 13 instead of 50: a search over this range takes fewer, so the limit is met in
neither, which is what `SteadyGrinderIsTuned` says. Exact grinders that answer from 1 ms, from 164 ms and never
(301); one that sees encoded pulses; a weak one at the end of the range. Earlier firmware has left a latency of 70 ms, or one of 400 ms, which is out of range.

`MCAutoTune` also has `Steps`, the lengths of the code halved turn by turn, and lets TLC evaluate that they are what the proofs ask for
(`StepsHalve`: six turns in the range of the code).

*Shows.* `LatencyIsVerified`: the latency only changes to a length of which the last five pulses were made and four
succeeded, or back to what a restart loads. `SteadyGrinderIsTuned`, `FoundPulseIsShortest`: a grinder that answers every pulse that is long enough is tuned, or
refused because the scale does not settle, to the shortest of the grid. `TuneEnds`: a tune that keeps its screen ends.

*Fairness.* The task of the user interface runs, a pulse ends, and the sensor samples (`WF TareEnds`: the tune waits for a tare without a limit of its own).

### `companion_sync`: two grinders and a page

*Bounds.* Two addresses, one of them of a grinder in use, which keeps one file; ids up to two; two calls and two sockets at a time. Two
calls are what overlaps: one by the button, one by a grind that ends; a second socket is what a late close needs. With one file kept, a
file is rotated out while a call has it on its list.

*Shows.* `FinishedSyncIsComplete`: a call that ends without an error has every id it had listed; an id the grinder has given a second time
counts as known, as it does in the code (`store/grinderStore.ts:180`). `DisconnectedIsSilent`,
`LiveIsFromTheSyncedGrinder`: no late socket or timer reconnects, there is one connection, and it belongs to the grinder `sync()` reads
from, although the address may be edited while the answer is awaited. `SyncEnds`.

*Fairness.* Weak fairness of each call: `fetch` and IndexedDB answer or fail.

### `export`: session files over Bluetooth

*Bounds.* Three files of two, two and no chunks: an empty file ends in its first pass, two chunks have an order, and with two such files a session could be put
together from both. Two notifications under way. Two runs of the script, so that a second client meets what a first one left.

*Shows.* `StoredAreWhole`: no interleaving of a stream that is exchanged under its reader, reports of an export that was given up and chunks that were
missed passes the parser. `TransferEnds`: an export, which blocks the screen and remote commands, ends, also without its client.
`ScriptEnds`: the client comes to the end of its list.

*Fairness.* The Bluetooth task runs, notifications arrive, and the script goes on, after 30 s if need be.

### `calibration` and `warnings`

The same specification twice, because both together are too large. *Bounds of `calibration`*: an empty scale reads 2, the reference weight 4; no shaking, no
anomalies; times in units of the shortest; one sample per tare is enough for a request to come between two of them. *Bounds of `warnings`*: one load,
readings settled or not, two anomalies of which
two are required, noise for three units. Power cuts and factory resets at any time in both.

*Shows.* `FaultyIsNotCalibrated`: steps are entered whether the operation before succeeded or not, but a load cell that gives no samples stops in the
one that weighs, and
the flag is not set on its account. `OverlayGoes`, `NoiseCheckCanBeLeft`: a blocking operation ends, and the noise check shows OK in the end, although
a factor of zero keeps it from ever being quiet. `NoiseWarningIsEarned`: the warning comes and goes by time, and by nothing else.

*Fairness.* Turns go on, and an operation that blocks them ends, by its timeout if need be. Nothing is assumed of Core 0.

### `settings` and `purge_mode`: one preferences object

*Bounds.* Two profiles, targets of one or two, four devices: new ones without a network, with one compiled in that is switched off, with one of each,
and one that has
been used. A retry interval of one and a timeout of two, so that an attempt may fail before, and be answered
until, its timeout. Restarts and losses of the network without a bound.

*Shows.* `EditIsOfWhatIsShown`: neither profile nor mode changes under an open edit. `NetworkKeysAreKept`: no setting lands in the namespace "wifi"
while it is open. `NetworkIsJoined`: a device
whose network stays in range joins it. `PurgeModeIsApplied` is refuted.

*Fairness.* Weak fairness of the network's task; strong fairness of an answer to an attempt in range (`SF Associate`), without which no number of retries helps.

## What the runs refute

**A purge mode chosen on the device is not applied** (`purge_mode`, `network/wifi_manager.cpp:22`). As described
[above](#the-preferences-object), the shared object is closed when the device has started. `start_grind()` reads the purge mode through it
and gets the default.

The same object explains more, which the modules contain (`SharedSettings` has the settings; its theorem `NothingIsSaved` says that nothing is ever
stored). Properties that need a write to arrive are not stated, since their first restart refutes them:

- Profiles, targets, the mode and the switches of the menu are back to what they were after a restart; so is the
  calibration factor (`hx_cal`), while the flag that says "calibrated" stays, and the motor latency, of which `docs/DOC.md:266` says that auto-tune
  "saves it automatically".
- The session counter starts again after every restart: ids and file names repeat, a new session overwrites an
  old file of its name, and may be the first to be rotated out (`booted` in `SessionLog`).
- The names of an update do not survive the restart: the screen about a failed update never appears (`main.cpp:84`).
- `enabled = false` in the namespace "wifi" is ignored (`InitEnabled`), although `docs/WIFI_API.md:16` offers it
  (`SharedSettingsProofs`, `AlwaysEnabled`).

### Things met while reading

The models contain the following, but no run is spent on them.

*Two cores.*
- A stop can leave the motor running (`controllers/grind_controller.cpp:243`): `stop_grind()` stops the motor and switches to
  IDLE some statements later; a pass on Core 0 that was dispatched on TARE_CONFIRM or PRIME starts it in between, and in IDLE nothing
  looks at it again (`GrindCores`; hence "unless forgotten" in `MotorStopsUnlessForgotten`).
- A timed grind can run without the motor (line 1069): `start_additional_pulse()` switches the phase before it starts the pulse; a
  pass in between ends the phase, nobody acknowledges the pulse, and the stale flag makes the next start a no-op.
- The condition of the time limit does not exclude IDLE: a grind that is dismissed during a pass may be set to TIMEOUT by the failsafes of that pass (line 573).

*Screens.*
- A data export over a finished grind deletes its 60 s timer and ends in READY, while the controller stays COMPLETED and refuses every start
  (`ui/controllers/ota_data_export_controller.cpp:166`; `displaced`). An export during a grind covers its STOP button.
- A stop in the gap between the halves of `switch_phase()` overtakes COMPLETED, and the completion screen stays over an idle
  controller (`grind_controller.cpp:798`): its button and its timer call `return_to_idle()`, which does nothing in IDLE (`amiss`, "overtaken").
- A full event queue drops without a word (line 888): a lost INITIALIZING leaves the grind to the 60 s limit, a lost COMPLETED a grind without its timer ("dropped").
- A remote command that the screen does not fit, or the full queue drops, was answered with ok (`ui/ui_manager.cpp:484`, `Fits`).

*The log.*
- A next grind that starts while an end request is pending gets the result of the one before (`logging/grind_logging.cpp:245`), and loses its own
  entries when that request clears the buffers (`hurried`). A finished grind that is dismissed before its end is queued has no file.
- A factory reset lists "Grind history" (`ui/controllers/menu_controller.cpp:101`), but erases NVS only: the files stay (line 569).
- `StatisticsManager::migrate()` clears the old keys before it has written all new ones (`system/statistics_manager.cpp:296-347`).

*Updates.*
- `disable()` looks for an update once (`bluetooth/manager.cpp:336`), pauses and takes the stack down. A START that is still erasing the partition, or comes in the
  pause, sets `ota_in_progress` with no client left: the tasks stay suspended until the power is cut (`unseen`).
- A running motor is not stopped when an update suspends the control task (line 145); a failed update leaves the touch panel off and its screen on (line 211).

*Tuning.*
- A cancelled tune, or one that lost its screen, stays running, and `start()` refuses every other until a restart
  (`controllers/autotune_controller.cpp:57`), although
  `docs/TROUBLESHOOTING.md:211` says to re-run it.
- A candidate that a retry has pushed over 300 ms may pass its verification and is refused by `save_motor_latency()`, while the screen shows
  success (`TROUBLESHOOTING.md:208`). A failed tune keeps the previous latency, not 50 ms (`:213`). A retry adds 5 ms, its comment says 10 (line 395).
- The branches "No successful pulse found" and "Hit lower bound" of the search are dead; priming takes 1000 ms, the documentation says 500.

*Exports.*
- A request while a transfer is under way, as after a client's timeout, is refused without an answer (`RequestFile`); the files after it are off by
  one, which the parser notices.
- The error about a missing file may come before the client is ready for it, which then waits for 30 s (`tools/ble/grinder-ble.py:584`).
- A read that fails is reported complete, like the end of a file. The list has at most 100 sessions; for an empty one
  `list_count - 1` wraps (`bluetooth/data_stream.cpp:79`).

*Calibration.*
- Every step is entered whether the operation before it succeeded or not; a weight that is gone when `calibrate()` reads it stores the factor 0, the
  noise check can then only be forced, and the flag is set (`FinishCalibrate`). `calibration_controller.cpp:78` says the reading is checked; it only
  enables the button.
- A tare that timed out leaves a baseline of 0, or ends late in the next step. A write of the flag that fails still shows "Calibration complete!"; a
  read that fails is cached until a restart.

*The companion.*
- A page whose last telemetry is of a grind cannot start the idle grinder (`store/grinderStore.ts:38`): nothing is sent while it is idle.
- The automatic synchronisation after a grind may list before the file exists; one empty file, or one that is rotated out, aborts every
  synchronisation until it is gone (`FileFails`).
- Ids of another grinder, after a restart of the grinder or a factory reset, are taken for known sessions and skipped (line 180). Overlapping calls
  clear the shared flag for each other.
- `nextJournalId` is read and written in separate transactions: two saves at once take the same id, and a save that overlaps a delete restores the entry.

*Numbers.* `docs/DOC.md:580` gives the time limit as 30 s, `config/grind_control.h:33` as 60 s. The documentation has the session routes answer 503
during an update or export; they do not.

## The proofs

All eight proof modules are checked by `tlapm` to the last leaf. They assume the named assumptions of the
modules they extend, which TLC evaluates in every run: types and ranges of the constants. One thing is assumed by theorems themselves,
`Halving` (about the steps of a binary search, evaluated by TLC). Nothing is assumed about what the user, the network or the cores do beyond what the actions say.

Every invariant and every action property of a passing run is a theorem. TLC has checked the inductive invariants on the instances of
the runs, too; `CoresInv` and `ScreenInv` are stated in the modules themselves, so that they can be added to a configuration.

### GrindControllerProofs

For every size of the pulse history, time limit, pause, number of additional pulses, size of the flash queue and
behaviour of the driver; the last three are about `CoresSpec`, the others about `Spec`:

| Theorem | Property |
|---|---|
| `Invariance` | `IInv` |
| `TypeCorrectness` | `TypeOK` |
| `MotorSafety` | `MotorOffWhenNotDispensing` |
| `MotorProgress` | `MotorRunsTowardsTarget` |
| `PulseBound` | `PulseHistoryInBounds` |
| `TimeoutClock` | `TimeoutCountsActiveTime` |
| `ResultCorrectness` | `ResultMatchesEnding` |
| `EndArrives` | `RequestedEndArrives` |
| `NoTimeoutWhileHeld` | `ConfirmationNotTimedOut` |
| `Refinement` | `ImplementsSession` |
| `CoresInvariance` | `CoresInv` |
| `OverlappedMotorSafety` | `MotorOffAfterDosing` |
| `OverlappedSessions` | `PulseHistoryInBounds`, `TimeoutCountsActiveTime`, `ResultMatchesEnding` |

*The inductive invariant* `IInv` adds to the properties what they silently rest on:

- `SessionInv`: which phases belong to which mode, and that the strategy is there. Without it a step of the
  weight strategy in a timed session would be possible, and `ResultMatchesEnding` would break on the additional pulse.
- `MotorInv`: between the start of a pulse and its acknowledgment the flags are equal and the channel does not
  loop; while the motor runs freely, no pulse is flagged. `MotorOffWhenNotDispensing` alone is not inductive: acknowledging a
  pulse clears the flags only if they are as `MotorInv` says.
- `ClockInv`: during a confirmation the pause began at the active time, and a timed session has no offset. The
  first makes the difference right again when the user goes on, the second keeps it from wrapping when an additional
  pulse restarts the clock, where the code resets `start_time` but not `timeout_offset_ms`.
- `JournalInv`: while a grind is prepared, no end was queued for it, so a session that is opened is not taken for
  one whose end was requested.

The proof of each part is a lemma with one step per action that can disturb it; `StepInv` puts them together. The
refinement rests on `PhaseMoves`, which lists what a step may do to the phase, and on the motor's part of `IInv`.

*On two cores* `IInv` is not an invariant: a pass goes on with a phase (`snap`) the user has left. `PassInv` says how far the two can
be apart: the phase is the one of the pass, IDLE, the first of the next grind, or an additional pulse that overtook the pass of a
completed one. `QuietInv` and `OverlappedClockInv` are the motor's and the clock's part for the phase *and* for `snap`. The clock has
a case that a reader of the code would hardly expect: a pass that was dispatched while the primed grounds settled can send the *timed* session that was started
meanwhile to the purge confirmation, and then there is an offset in time mode. It does no harm, because such a session is never `COMPLETED`, and so
gets no additional pulse. What `IInv` has and `CoresInv` cannot have (the motor stands in IDLE, a waiting phase has its motor) is what
the two races under [things met while reading](#what-the-runs-refute) break. The lemmas about a case of `update()` are stated for
any phase it was dispatched on, and serve both specifications.

### FirmwareUpdateProofs

For every set of firmwares and number of chunks:

| Theorem | Property |
|---|---|
| `UpdateInvariance` | `LinkInv`, `TasksInv` |
| `UpdatesHaveClients` | `UpdateHasClient` |
| `TasksFollowUpdates` | `SuspensionFollowsUpdate` |
| `WholePatches` | `OnlyWholePatchIsApplied` |

`LinkInv` says which flags go with which callback and that an update, like a callback that is under way, has its connection, unless it is `unseen`;
while it is not, no
`disable()` is half through, because one that came before the START would have made it unseen, and one that came after would have aborted it. `TasksInv` says what
the suspended flag is in each state of `loop()`, including those between looking and acting; `PatchInv` says that the patch
has as many chunks as were written, and that it has no gap if all that were sent were written. `WholePatches` then follows:
a patch whose written chunks add up to the announced size has had all of them written, since no more than that are sent.

### SessionLogProofs

For every capacity, size of the queue, number of sessions and counter that earlier firmware has left, without a further assumption:

| Theorem | Property |
|---|---|
| `TypeCorrectness` | `LogTypeOK` |
| `FilesHoldOneGrind` | `FileHoldsOneGrind` |
| `FinishedGrindsAreSaved` | `FinishedGrindIsSaved` |
| `RotationIsInOrder` | `RotationKeepsNewest` |

The grinds fall into those that meet what is left of another one and the rest (`Calm`: the grind that is there, or comes next, is not hurried). `QueueInv`
is the heart: when the file task has something to do, either the grind is calm, still there and asked for it, or the session it works on is of a hurried grind. So a
late request can only spoil what the properties except. `SessionInv` and `WriterInv` then follow the data of a calm grind from the session to the file.

`FinishedGrindsAreSaved` follows one request from the queue to the file: `RequestInv` (there is never a second one, so a queue of one loses none),
`LoggedInv` (until it is
taken, the session is open). Its last step is the clean-up, which must not remove the file that was just written. `CycleInv` and
`OrderInv` say that names and grinds are in the same order within a power cycle, so nothing of this cycle is above the newest file, and what may be
above it is from before the restart (`Ousted`). The clean-up removes files with at least `MaxStored` above them, so whatever it removes, `MaxStored`
files stay above
(`CleanUpLeavesEnough`, by well-founded induction: take the removed file with the fewest above it). `RotationIsInOrder` follows from `OrderInv` too.

### AutoTuneProofs

For every range, step, number of pulses and rounds, and for every grinder. `SavedIsVerified` (`LatencyIsVerified`): `RoundInv` says that in a
round all trials since its first pulse were of the candidate and that the hits are theirs; a retry changes
the candidate and forgets them.

`SteadyGrinderIsAlwaysTuned` (`SteadyGrinderIsTuned`) and `FoundPulseIsAlwaysShortest` (`FoundPulseIsShortest`) are about the search, for a grinder
that answers every pulse that is long enough. They take the steps of the search as a function `w` with `Halving(w, H)`: whole, halved at
each of `H` turns, fine enough after the last, and with more than `2 * H` iterations allowed. The code has six turns and fifty iterations, and TLC
evaluates that its lengths are such (`StepsHalve`); induction on a power of two
is out of the prover's reach, the rest is not. `Plan` is the course of the search: first the longest, then the shortest pulse, and
after turn `i` the pulse is in the middle between a bad and a good length (`Middle`), or at one end of the half that is left
(`LowerEnd`, `UpperEnd`). At the end the good length and the bad one are one step apart, hence the accuracy; rounding to the grid adds less than one grid step.
Every candidate is good, so no verification fails and a round is never repeated. Therefore the failures that remain are those of the scale.

### CalibrationProofs

For all loads, times and counts: `FaultStopsCalibration` (`FaultyIsNotCalibrated`), `WarningsTrue` (`WarningsAreTrue`), `NoiseIsEarned`
(`NoiseWarningIsEarned`). `Blind` carries the first: without samples the filter
reads 0, so the baseline of a tare is 0, and OK never appears in the step that weighs. `Verdict` says that a
converter that gives samples has no fault until a restart, so `calibrate()` reads a working one, and that a warning about the converter cannot outlive its cause.

`NoiseIsEarned` compares the two timers of the warning with the time the noise was really seen, or not seen, at every look. `Timed` says
that a timer that runs is never ahead of that history. The difficulty is in the steps that touch one and not the other: time that passes while nobody
looks, a calibration screen that stops the timers of a warning that is on, the grind and the button that reset them, a restart.

### SharedSettingsProofs

For any number of profiles, any range, intervals and preferences a device starts with: `TypeCorrectness` (`SettingsTypeOK`),
`EditIsUndisturbed`, `ConfiguredNetwork` (`StoredNetworkWins`), `KeysAreKept` (`NetworkKeysAreKept`), and two that say how far the flaw goes: `NothingIsSaved`
and `AlwaysEnabled`. All rest on `HandleInv`: the object is shut, or, while the network loads its credentials, open on "wifi" for reading.

### ScreenAndExportProofs

*The export*, for all session files, any room for notifications and any number of exports: `WholeFiles` (`StoredAreWhole`). A chunk goes from the stream
through the task's buffer and the air to the client. `PipeInv` says of every two neighbours on this way that the second is of the same file if
its number follows; whatever comes between them (a request, a disconnection, a report) starts the numbers again. The client only compares
numbers and the name in the first chunk, so `PlaceInv` says that chunks that are in their places are of the file of the first one.

*The screen*, for queues of any size and any set of remote commands:

| Theorem | Property |
|---|---|
| `ScreenInvariance` | `ScreenInv` |
| `ScreenFollows` | `ScreenFollowsPhase` |
| `SetupIsAcknowledged` | `InitializingIsAcknowledged` |
| `TimersBelong` | `TimerBelongsToScreen` |
| `ScreenTypes` | `ScreenTypeOK` |

The properties are about the moments with no event under way, so an invariant has to say what the events under way will do. The trail is what is
queued, followed by what Core 0 has not sent yet. Most events set the screen whatever it shows, so it would be enough that the last one tells the
phase (`Told`), but for two: INITIALIZING is acknowledged only by a screen that was not grinding already, and an additional pulse keeps the
screen there is. `Chained` says what these follow on the trail, `Begun` which screen they meet at its head, and `Caught` is the property itself once the
trail is empty. `Placed` is the meeting of both sides of a turn: a button works on the screen of the events *before* it, so a purge can only be
confirmed while the controller still asks for it, or is idle.

`Told` breaks when an event is dropped, or queued before that of the phase it has left, and nobody repairs it: the code does not notice. So `ScreenInv` claims the
five parts (`Orderly`) only while nothing is `amiss`. They hold again, and this is the second half of the proof, as soon as a turn has handled its
events and what the
screen shows agrees with the phase (`Recovery`), however they came together; and nothing else ends what is amiss (`AmissStep`). The types and
`TimerBelongsToScreen` hold
throughout.

The many actions come in few shapes, by what they do to the trail, the phase and the screen (`Shapes`); each part of `ScreenInv` is proved for the
shapes.

### CompanionSyncProofs

For all sets of grinders and sessions and any number of calls and sockets. `CallsInv` says of each call that what it had listed and
no longer has to do is in the table; hence `CompleteSync` (`FinishedSyncIsComplete`), without a word about the other calls, since the table only
grows. `WholeSessions`,
`BusyButtons`. `LiveInv` says that sockets the client has left are not heard, and that it has one that is open or a
timer that will open it exactly if it is connected; hence `SilentWhenDisconnected` and `LiveFromSynced`.

## What is only model-checked

Liveness (`GrindEnds`, `MotorStopsUnlessForgotten`, `FinishedGrindIsDismissed`, `MotorStopsInTheEnd`, `TuneEnds`, `SyncEnds`,
`TransferEnds`, `ScriptEnds`, `OverlayGoes`, `NoiseCheckCanBeLeft`, `NetworkIsJoined`) is beyond the prover, like ENABLED and what a recursive
definition computes for every
input (`HighTime` of `PulseEncoding`; that the steps of the tune's search halve to less than its accuracy). Nothing else that the passing runs check
is without a theorem.

The runs list the properties that could really fail. What is proved and not listed by a run (`TypeOK`, `MotorRunsTowardsTarget`,
`ConfirmationNotTimedOut`, `IInv`, `CoresInv`, `ScreenInv`, `BusyIsTrue`, `OnlyWholeSessionsAreStored`, `WarningsAreTrue`, `StoredNetworkWins`) is
checked by adding it to the configuration of its module, which is the cheap thing
to do before changing a proof; so are the type invariants (`...TypeOK`), one in each module, which tell a reader what the variables range over.

## What is not modelled

- **Weights, flow, prediction, the filter's statistics.** Floating-point arithmetic; the models contain the comparisons it decides, all of them possible.
- **Layout, wording, charts, logging, the JSON of the status, the decoding of records.** No state. The fonts and images (most of the lines of the
  repository) are generated data.
- **The patch algorithm** (`components/detools`) is third-party; the model lets a patch of the right size apply or be refused.
- **Statistics** (`system/statistics_manager.cpp`): counters that are added up one by one; a power cut loses the last grind at most, `migrate()` aside.
- **The journal of the companion**, with its export and import: `nextJournalId` is described above.
- **The confirmation dialog, the acceleration of the jog, the dimming of the display**: one timer or counter each, which decides nothing else.
- **Memory ordering** of the two cores below the grain of the steps described.
- **What a boot after an update shows** (`main.cpp:84`): the names it compares are never stored, so it never shows anything.
- **A stop between the two steps that open a session** (`SessionLog`), and an update or an export that takes the screen during a calibration or a tune.

## The plan

The runs are kept to twelve so that the whole development can be checked again after every change of the firmware. Done, in this order:
`GrindSession`, `GrindController` with
proofs, `GrindCores`, `GrindScreen`, `SessionLog`, `FirmwareUpdate` with proofs, `PulseEncoding`, `AutoTune`, `CompanionSync`, `DataExport`, the load cell with its
warnings and calibration, `SharedSettings`, and the proofs of these. To come:

1. `CompanionJournal`: two saves and a delete of journal entries, transaction by transaction.
2. `Statistics`: the snapshot and `migrate()` key by key, with power cuts.
3. Two components on one screen: a calibration, or a tune, that an update or an export takes the screen from.
