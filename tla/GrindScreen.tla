------------------------------ MODULE GrindScreen ------------------------------
(***************************************************************************)
(* The screen the user sees during a grind and the controller behind it:   *)
(* ui/controllers/grinding_controller.cpp, ui/ui_manager.cpp, the remote   *)
(* command queue and the data export screen, against the phases of         *)
(* controllers/grind_controller.cpp.                                       *)
(*                                                                         *)
(* The controller runs on Core 0 and tells the screen about its phases in  *)
(* a queue.  The task of the user interface, on Core 1, loops: it drains   *)
(* that queue, then the remote commands, then updates its controllers,     *)
(* then lets LVGL run buttons and timers.  The phases between INITIALIZING *)
(* and the end are one, ACTIVE: the screen treats them alike.              *)
(***************************************************************************)
EXTENDS Sequences, Naturals

CONSTANTS
    EventQueueSize,   \* UI_EVENT_QUEUE_SIZE
    RemoteQueueSize,  \* capacity of RemoteGrindQueue
    Commands          \* remote commands that arrive over the network

ASSUME ScreenQueuesAssumption ==
    EventQueueSize \in Nat /\ RemoteQueueSize \in Nat
ASSUME CommandsAssumption == Commands \subseteq {"START", "STOP", "CONTINUE", "IDLE"}

VARIABLES
    phase,        \* GrindController::phase, dosing and preparing phases as ACTIVE
    acknowledged, \* ui_ready_for_setup
    unsent,       \* events of a switch_phase() on Core 0 that has set the phase
    events,       \* ui_event_queue, without the events that only redraw
    turn,         \* where the loop of the user interface task is
    screen,       \* StateMachine::current_state
    timer,        \* the pending 60 s timer: grind_complete_timer_ or grind_timeout_timer_
    remote,       \* RemoteGrindQueue
    inExport,     \* BluetoothManager::data_export_in_progress
    exportShown,  \* OtaDataExportController::data_export_active_
    displaced,    \* history: an export has taken the screen, no event has set it since
    amiss         \* history: what has become of an event since screen and phase last
                  \* agreed: one was dropped, or one of Core 1 overtook one of Core 0

grinder   == <<phase, acknowledged, unsent>>
display   == <<screen, timer>>
transfers == <<inExport, exportShown, displaced>>
queue     == <<events, amiss>>
screenVars == <<grinder, queue, turn, display, remote, transfers>>

Finished == {"COMPLETED", "TIMEOUT"}
Phase    == {"IDLE", "INITIALIZING", "ACTIVE", "PURGE_CONFIRM", "TIME_ADDITIONAL_PULSE"}
                \cup Finished
Event    == (Phase \ {"IDLE"}) \cup {"STOPPED"}
Screen   == {"READY", "MENU", "GRINDING", "PURGE_CONFIRM", "GRIND_COMPLETE", "GRIND_TIMEOUT",
             "OTA_UPDATE"}
NoTimer  == "none"

ScreenTypeOK ==
    /\ phase \in Phase /\ acknowledged \in BOOLEAN
    /\ unsent \in Seq(Event) /\ events \in Seq(Event) /\ Len(events) <= EventQueueSize
    /\ turn \in {"events", "remote", "update", "input"}
    /\ screen \in Screen /\ timer \in {NoTimer, "GRIND_COMPLETE", "GRIND_TIMEOUT"}
    /\ remote \in Seq(Commands) /\ Len(remote) <= RemoteQueueSize
    /\ inExport \in BOOLEAN /\ exportShown \in BOOLEAN /\ displaced \in BOOLEAN
    /\ amiss \subseteq {"dropped", "overtaken"}

ScreenInit ==
    /\ phase = "IDLE" /\ acknowledged = FALSE /\ unsent = <<>> /\ events = <<>>
    /\ turn = "events" /\ screen = "READY" /\ timer = NoTimer
    /\ remote = <<>> /\ inExport = FALSE /\ exportShown = FALSE /\ displaced = FALSE
    /\ amiss = {}

\* The screens that fit a phase, once all that is to come has been handled.
ScreensOf(p) ==
    CASE p = "IDLE" -> {"READY", "MENU"}
      [] p \in {"INITIALIZING", "ACTIVE"} -> {"GRINDING"}
      [] p = "PURGE_CONFIRM" -> {"PURGE_CONFIRM"}
      [] p \in {"COMPLETED", "TIME_ADDITIONAL_PULSE"} -> {"GRIND_COMPLETE"}
      [] p = "TIMEOUT" -> {"GRIND_TIMEOUT"}

Settled == events = <<>> /\ unsent = <<>>

Agreed ==
    /\ Settled /\ ~displaced
    /\ screen \in ScreensOf(phase)
    /\ phase = "INITIALIZING" => acknowledged
    /\ phase \in Finished => timer # NoTimer

-----------------------------------------------------------------------------
\* Core 0.

EventOf(p) == IF p = "IDLE" THEN "STOPPED" ELSE p

\* The phases a pass of update() leads to from p: one, or two when the weight
\* is negative in the pass that asks for the purge confirmation.
Passes(p) ==
    CASE p = "INITIALIZING" -> {<<"TIMEOUT">>} \cup (IF acknowledged THEN {<<"ACTIVE">>} ELSE {})
      [] p = "ACTIVE" -> {<<"ACTIVE">>, <<"PURGE_CONFIRM">>, <<"PURGE_CONFIRM", "TIMEOUT">>,
                          <<"COMPLETED">>, <<"TIMEOUT">>}
      [] p = "TIME_ADDITIONAL_PULSE" -> {<<"COMPLETED">>, <<"TIMEOUT">>}
      [] OTHER -> {}

\* The first half of switch_phase(): the phase.
ChangePhase ==
    /\ unsent = <<>>
    /\ \E path \in Passes(phase) : phase' = path[Len(path)] /\ unsent' = path
    /\ UNCHANGED <<acknowledged, queue, turn, display, remote, transfers>>

\* emit_ui_event(): a full queue drops the event.  The events that only redraw
\* may fill it too, when the user interface is held up.
Send(e) ==
    \/ Len(events) < EventQueueSize /\ events' = Append(events, e)
    \/ UNCHANGED events

Lost == IF events' = events THEN {"dropped"} ELSE {}

\* The second half of switch_phase(): the event.
EmitEvent ==
    /\ unsent # <<>>
    /\ Send(Head(unsent))
    /\ amiss' = amiss \cup Lost
    /\ unsent' = Tail(unsent)
    /\ UNCHANGED <<phase, acknowledged, turn, display, remote, transfers>>

-----------------------------------------------------------------------------
\* The handlers of the controller that Core 1 calls; each ends in switch_phase(),
\* which does nothing when the phase does not change.  One may land between the
\* two halves of a switch_phase() on Core 0; its event is then queued first.

Overtaken == IF unsent # <<>> THEN {"overtaken"} ELSE {}

Switch(p) ==
    /\ phase' = p
    /\ IF p = phase THEN UNCHANGED queue
       ELSE Send(EventOf(p)) /\ amiss' = amiss \cup Lost \cup Overtaken
    /\ UNCHANGED unsent

StartGrindFromAnyPhase ==  \* mutant: start_grind() does not look at the phase
    /\ acknowledged' = FALSE
    /\ Switch("INITIALIZING")
StartGrind ==
    /\ acknowledged' = IF phase = "IDLE" THEN FALSE ELSE acknowledged
    /\ Switch(IF phase = "IDLE" THEN "INITIALIZING" ELSE phase)

StopGrind == Switch("IDLE") /\ UNCHANGED acknowledged

ReturnToIdle ==
    /\ Switch(IF phase \in Finished THEN "IDLE" ELSE phase)
    /\ UNCHANGED acknowledged

ContinueFromPurge ==
    /\ Switch(IF phase = "PURGE_CONFIRM" THEN "ACTIVE" ELSE phase)
    /\ UNCHANGED acknowledged

\* Time mode only; the mode is left open, so is whether the button is there.
StartAdditionalPulse ==
    /\ Switch(IF phase = "COMPLETED" THEN "TIME_ADDITIONAL_PULSE" ELSE phase)
    /\ UNCHANGED acknowledged

-----------------------------------------------------------------------------
\* The screen.

\* switch_to_state() and on_state_changed(): a timer does not outlive its screen.
SwitchToKeepsTimer(s) == screen' = s /\ UNCHANGED timer  \* mutant
SwitchTo(s) ==
    /\ screen' = s
    /\ timer' = IF timer = s THEN timer ELSE NoTimer

\* Completion and error screens start their timer.
ShowWithoutTimer(s) == screen' = s /\ timer' = NoTimer  \* mutant
ShowFinished(s) == screen' = s /\ timer' = s

Acknowledge == acknowledged' = (acknowledged \/ phase = "INITIALIZING")

\* The events that call for the grinding screen; an additional pulse keeps the
\* completion screen with its pulse button.
GrindingEventsWithPulse == {"INITIALIZING", "ACTIVE", "TIME_ADDITIONAL_PULSE"}  \* mutant
GrindingEvents == {"INITIALIZING", "ACTIVE"}

\* handle_grind_event().
Show(e) ==
    \/ /\ e = "STOPPED" /\ SwitchTo("READY") /\ UNCHANGED acknowledged
    \/ /\ e = "COMPLETED" /\ ShowFinished("GRIND_COMPLETE") /\ UNCHANGED acknowledged
    \/ /\ e = "TIMEOUT" /\ ShowFinished("GRIND_TIMEOUT") /\ UNCHANGED acknowledged
    \/ /\ e = "PURGE_CONFIRM" /\ SwitchTo("PURGE_CONFIRM") /\ UNCHANGED acknowledged
    \/ /\ e = "TIME_ADDITIONAL_PULSE" /\ e \notin GrindingEvents
       /\ UNCHANGED <<display, acknowledged>>
    \/ /\ e \in GrindingEvents /\ screen = "GRINDING"
       /\ UNCHANGED <<display, acknowledged>>
    \/ /\ e \in GrindingEvents /\ screen # "GRINDING"
       /\ SwitchTo("GRINDING")
       /\ IF e = "INITIALIZING" THEN Acknowledge ELSE UNCHANGED acknowledged

\* process_queued_ui_events() empties the queue.
HandleEvent ==
    /\ turn = "events" /\ events # <<>>
    /\ Show(Head(events))
    /\ events' = Tail(events)
    /\ displaced' = (displaced /\ Head(events) = "TIME_ADDITIONAL_PULSE")
    /\ UNCHANGED <<phase, unsent, turn, remote, inExport, exportShown, amiss>>

\* The grind button means what the screen shows; on READY it starts a grind.
PressGrindButton ==
    /\ \/ screen = "READY" /\ StartGrind
       \/ screen \in {"GRINDING", "PURGE_CONFIRM"} /\ StopGrind
       \/ screen \in {"GRIND_COMPLETE", "GRIND_TIMEOUT"} /\ ReturnToIdle
    /\ UNCHANGED display

PressContinueButton ==
    /\ screen = "PURGE_CONFIRM"
    /\ SwitchTo("GRINDING")
    /\ ContinueFromPurge

\* The pulse button restarts the completion timer, if it is still there.
PressPulseButton ==
    /\ screen = "GRIND_COMPLETE" /\ phase = "COMPLETED"
    /\ StartAdditionalPulse
    /\ UNCHANGED display

\* A remote command is a button press if the screen fits, else it is dropped.
Fits(c) ==
    \/ c = "START" /\ screen = "READY" /\ phase = "IDLE"
    \/ c = "STOP" /\ screen \in {"GRINDING", "PURGE_CONFIRM"}
    \/ c = "CONTINUE" /\ screen = "PURGE_CONFIRM"
    \/ c = "IDLE" /\ screen \in {"GRIND_COMPLETE", "GRIND_TIMEOUT"}

Obey(c) ==
    IF inExport \/ ~Fits(c)
    THEN UNCHANGED <<grinder, queue, display>>
    ELSE IF c = "CONTINUE" THEN PressContinueButton ELSE PressGrindButton

HandleRemoteCommand ==
    /\ turn = "remote" /\ remote # <<>>
    /\ Obey(Head(remote))
    /\ remote' = Tail(remote)
    /\ UNCHANGED <<turn, transfers>>

\* OtaDataExportController::update().
ShowExport ==
    /\ inExport /\ ~exportShown
    /\ exportShown' = TRUE /\ displaced' = TRUE
    /\ SwitchTo("OTA_UPDATE")
HideExport ==
    /\ ~inExport /\ exportShown
    /\ exportShown' = FALSE /\ displaced' = (phase # "IDLE")
    /\ SwitchTo("READY")
KeepScreen == inExport = exportShown /\ UNCHANGED <<display, exportShown, displaced>>

UpdateControllers ==
    /\ turn = "update"
    /\ turn' = "input"
    /\ ShowExport \/ HideExport \/ KeepScreen
    /\ UNCHANGED <<grinder, queue, remote, inExport>>

\* Buttons, and the automatic actions that press them.
PressButton ==
    /\ turn = "input"
    /\ PressGrindButton \/ PressContinueButton \/ PressPulseButton
    /\ UNCHANGED <<turn, remote, transfers>>

\* The user walks between READY and the menu, the editor and the other screens.
Navigate ==
    /\ turn = "input"
    /\ \/ screen = "READY" /\ SwitchTo("MENU")
       \/ screen = "MENU" /\ SwitchTo("READY")
    /\ UNCHANGED <<grinder, queue, turn, remote, transfers>>

TimerFires ==
    /\ turn = "input"
    /\ timer # NoTimer
    /\ phase # "TIME_ADDITIONAL_PULSE"  \* a pulse is much shorter than the timer
    /\ ReturnToIdle
    /\ timer' = NoTimer
    /\ UNCHANGED <<screen, turn, remote, transfers>>

\* The loop goes on once a queue is empty.  Core 0 is never held up between
\* the halves of switch_phase() for as long as a turn.
NextTurn ==
    /\ unsent = <<>>
    /\ amiss' = IF turn = "events" /\ Agreed THEN {} ELSE amiss
    /\ \/ turn = "events" /\ events = <<>> /\ turn' = "remote"
       \/ turn = "remote" /\ remote = <<>> /\ turn' = "update"
       \/ turn = "input" /\ turn' = "events"
    /\ UNCHANGED <<grinder, events, display, remote, transfers>>

-----------------------------------------------------------------------------
\* The surroundings: the web server and the Bluetooth stack.

\* A full queue drops the command; the client is told it was accepted.
Enqueue(c) == remote' = IF Len(remote) < RemoteQueueSize THEN Append(remote, c) ELSE remote

\* A command that arrives while the queue is drained counts as before or after.
ReceiveCommand ==
    /\ ~inExport /\ turn # "remote"
    /\ \E c \in Commands : Enqueue(c)
    /\ UNCHANGED <<grinder, queue, turn, display, transfers>>

\* send_individual_file() looks at the connection, never at the grind.
ExportBegins ==
    /\ ~inExport
    /\ inExport' = TRUE
    /\ UNCHANGED <<grinder, queue, turn, display, remote, exportShown, displaced>>

ExportEnds ==
    /\ inExport
    /\ inExport' = FALSE
    /\ UNCHANGED <<grinder, queue, turn, display, remote, exportShown, displaced>>

Core0 == ChangePhase \/ EmitEvent
Loop  == HandleEvent \/ HandleRemoteCommand \/ UpdateControllers \/ NextTurn
Input == PressButton \/ Navigate \/ TimerFires
Outside == ReceiveCommand \/ ExportBegins \/ ExportEnds

ScreenNext == Core0 \/ Loop \/ Input \/ Outside

ScreenSpec == ScreenInit /\ [][ScreenNext]_screenVars

\* Both tasks run, and a timer that is due fires in one of the LVGL turns.
ScreenFairness == WF_screenVars(EmitEvent) /\ WF_screenVars(Loop) /\ SF_screenVars(TimerFires)
ScreenFairSpec == ScreenSpec /\ ScreenFairness

-----------------------------------------------------------------------------
\* Properties.

\* Once the events are handled the screen shows the phase the controller is in,
\* whatever buttons, timers, commands and failsafes crossed on the way; all a
\* button can do depends on it.  Only a data export displaces it; an event that a
\* full queue drops, or that a handler of Core 1 overtakes, misleads it until the
\* two agree again.
ScreenFollowsPhase == Settled /\ ~displaced /\ amiss = {} => screen \in ScreensOf(phase)

\* update() waits in INITIALIZING for the screen: an acknowledgment that is not
\* there once the events are handled never comes.
InitializingIsAcknowledged ==
    Settled /\ amiss = {} /\ phase = "INITIALIZING" => acknowledged

\* A 60 s timer runs only under the screen it was started for, so it cannot
\* dismiss the result of a later grind.
TimerBelongsToScreen == timer # NoTimer => timer = screen

\* A finished grind is dismissed, by the user or by its timer, or extended,
\* unless a data export takes its screen and with it its timer, or an event was
\* dropped.
FinishedGrindIsDismissed ==
    phase \in Finished ~>
        phase \in {"IDLE", "TIME_ADDITIONAL_PULSE"} \/ displaced \/ "dropped" \in amiss

-----------------------------------------------------------------------------
\* What makes the safety of the screen inductive: while nothing is amiss, the events
\* that are still to come, in the queue or on Core 0, lead the screen from what
\* it shows to the phase there is.

Trail == events \o unsent
Last(s) == s[Len(s)]
Elsewhere == {"READY", "MENU", "OTA_UPDATE"}

\* The last of them tells the phase.
Told == Trail # <<>> => Last(Trail) = EventOf(phase)

\* A grind begins where another was stopped, an additional pulse where a grind
\* was completed.
Linked(s) ==
    \A i \in 2..Len(s) :
        /\ s[i] = "INITIALIZING" => s[i - 1] = "STOPPED"
        /\ s[i] = "TIME_ADDITIONAL_PULSE" => s[i - 1] = "COMPLETED"
Chained == Linked(Trail)

\* ... or on a screen that shows as much.
Begun ==
    Trail # <<>> =>
        /\ Trail[1] = "INITIALIZING" => screen \in Elsewhere
        /\ Trail[1] = "TIME_ADDITIONAL_PULSE" /\ Len(Trail) = 1 =>
               screen = "GRIND_COMPLETE" \/ displaced

\* With nothing to come the screen shows the phase, and has acknowledged it.
Caught ==
    Trail = <<>> =>
        /\ ~displaced => screen \in ScreensOf(phase)
        /\ phase = "INITIALIZING" => acknowledged

\* Only the screens around a grind are shown while it is displaced; and past the
\* events of a turn the purge is confirmed where it was asked for.
Placed ==
    /\ displaced => screen \in Elsewhere
    /\ turn # "events" /\ screen = "PURGE_CONFIRM" => phase \in {"PURGE_CONFIRM", "IDLE"}

Orderly == Told /\ Chained /\ Begun /\ Caught /\ Placed

ScreenInv == ScreenTypeOK /\ TimerBelongsToScreen /\ (amiss = {} => Orderly)

=============================================================================
