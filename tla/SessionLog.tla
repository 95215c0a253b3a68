------------------------------ MODULE SessionLog ------------------------------
(***************************************************************************)
(* The log of a grind, from the buffers in RAM to its file in flash:       *)
(* logging/grind_logging.cpp with the flash queue of grind_controller.cpp. *)
(*                                                                         *)
(* Three tasks share GrindLogger without a lock: Core 0 opens a session    *)
(* and records into it, the user interface discards it, and the file task, *)
(* the lowest priority of Core 1, ends it and writes the file in several   *)
(* flash operations.  Power may fail between any two of them.              *)
(*                                                                         *)
(* Grinds are numbered (grind) to tell whose data ends up in which file;   *)
(* the firmware has no such number.  Its own numbers, the names of the     *)
(* files, begin again at every restart: the counter is saved through       *)
(* preferences that were closed during setup (see SharedSettings), after   *)
(* GrindLogger::init() had read it.                                        *)
(***************************************************************************)
EXTENDS Naturals, Sequences, FiniteSets

CONSTANTS
    MaxStored,       \* MAX_STORED_SESSIONS_FLASH
    FlashQueueSize,  \* FLASH_OP_QUEUE_SIZE
    MaxGrinds,       \* bound: grinds in a run
    OldIds           \* what earlier firmware may have left of the counter in NVS

ASSUME StoreAssumption == MaxStored \in Nat \ {0} /\ FlashQueueSize \in Nat \ {0}
ASSUME RunAssumption   == MaxGrinds \in Nat /\ OldIds \subseteq Nat \ {0}

VARIABLES
    stage,      \* where the controller is: "idle", "preparing", "opening", "running", "over"
    grind,      \* number of the grind
    endQueued,  \* session_end_flash_queued
    requests,   \* flash_op_queue: for each END_GRIND_SESSION, the grind that asked
    logging,    \* logging_active
    current,    \* current_session: its id and the grind it describes
    entries,    \* grinds with entries in the event and measurement buffers
    nextId,     \* _next_session_id
    savedId,    \* "next_session_id" in NVS, which no session changes
    enabled,    \* "enabled" of the logging preferences, in NVS
    step,       \* end_grind_session() in the file task: "none", "open", "write", "clean", "clear"
    draft,      \* the file being written
    full,       \* history: the last file that was written did not fit
    files,      \* the session files
    booted,     \* history: the last grind before the restart
    hurried     \* history: the grinds that were left while the file task had something
                \* to do, and the grinds after these

control == <<stage, grind, endQueued>>
memory  == <<logging, current, entries>>
ids     == <<nextId, savedId>>
past    == <<booted, hurried>>
writer  == <<step, draft, full>>
vars    == <<control, requests, memory, ids, enabled, writer, files, past>>

\* A session file: its name, the grind its GrindSession describes, the grind
\* whose result was entered, whose entries it holds, and whether it was closed.
SessionFile == [id : Nat, of : Nat, result : Nat, data : SUBSET Nat, whole : BOOLEAN]
NoFile == [id |-> 0, of |-> 0, result |-> 0, data |-> {}, whole |-> FALSE]

LogTypeOK ==
    /\ stage \in {"idle", "preparing", "opening", "running", "over"} /\ grind \in 0..MaxGrinds
    /\ endQueued \in BOOLEAN /\ logging \in BOOLEAN /\ enabled \in BOOLEAN
    /\ requests \in Seq(0..MaxGrinds) /\ Len(requests) <= FlashQueueSize
    /\ current \in [id : Nat, of : Nat, result : Nat] /\ entries \in SUBSET Nat
    /\ savedId \in Nat \ {0} /\ nextId \in Nat /\ nextId >= savedId
    /\ step \in {"none", "open", "write", "clean", "clear"}
    /\ draft \in SessionFile /\ full \in BOOLEAN /\ files \subseteq SessionFile
    /\ booted \in 0..MaxGrinds /\ hurried \subseteq Nat

Init ==
    /\ stage = "idle" /\ grind = 0 /\ endQueued = FALSE /\ requests = <<>>
    /\ logging = FALSE /\ current = [id |-> 0, of |-> 0, result |-> 0] /\ entries = {}
    /\ savedId \in OldIds /\ nextId = savedId /\ enabled \in BOOLEAN
    /\ step = "none" /\ draft = NoFile /\ full = FALSE /\ files = {}
    /\ booted = 0 /\ hurried = {}

-----------------------------------------------------------------------------
\* Core 0 and the user: the life of a grind.

EndFlagStays == UNCHANGED endQueued  \* mutant
EndFlagReset == endQueued' = FALSE
StartGrind ==
    /\ stage = "idle" /\ grind < MaxGrinds
    /\ stage' = "preparing" /\ grind' = grind + 1
    /\ EndFlagReset
    /\ UNCHANGED <<requests, memory, ids, enabled, writer, files, past>>

\* start_grind_session(), up to the write to NVS ...
ClearEntries == entries' = {}
BeginSession ==
    /\ stage = "preparing"
    /\ stage' = "opening"
    /\ ClearEntries
    /\ current' = [id |-> nextId, of |-> grind, result |-> 0]
    /\ nextId' = nextId + 1
    /\ UNCHANGED <<grind, endQueued, requests, logging, savedId, enabled, writer, files, past>>

\* ... which goes nowhere, and from it.
OpenSession ==
    /\ stage = "opening"
    /\ stage' = "running"
    /\ logging' = TRUE
    /\ UNCHANGED <<grind, endQueued, requests, current, entries, ids, enabled, writer, files, past>>

\* A phase that ends is logged as soon as logging is active, also that of a
\* grind whose session is not open yet.
Record ==
    /\ stage \in {"preparing", "running"} /\ logging
    /\ entries' = entries \cup {grind}
    /\ UNCHANGED <<control, requests, logging, current, ids, enabled, writer, files, past>>

FinishGrind ==
    /\ stage = "running"
    /\ stage' = "over"
    /\ UNCHANGED <<grind, endQueued, requests, memory, ids, enabled, writer, files, past>>

Enqueue(g) == IF Len(requests) < FlashQueueSize THEN Append(requests, g) ELSE requests

\* A pass of update() in COMPLETED or TIMEOUT queues the end, once.
QueueEnd ==
    /\ stage = "over" /\ logging /\ ~endQueued
    /\ endQueued' = TRUE
    /\ requests' = Enqueue(grind)
    /\ UNCHANGED <<stage, grind, memory, ids, enabled, writer, files, past>>

\* start_additional_pulse(): the finished grind goes on.
ExtendGrind ==
    /\ stage = "over"
    /\ stage' = "running"
    /\ UNCHANGED <<grind, endQueued, requests, memory, ids, enabled, writer, files, past>>

\* The file task has something to do.
Busy == requests # <<>> \/ step # "none"

\* Nothing keeps the user from leaving a grind meanwhile; what the task still does
\* for it then meets the next one.
Leave ==
    /\ hurried' = IF Busy THEN hurried \cup {grind, grind + 1} ELSE hurried
    /\ UNCHANGED booted

\* return_to_idle().
DismissGrind ==
    /\ stage = "over"
    /\ stage' = "idle"
    /\ Leave
    /\ UNCHANGED <<grind, endQueued, requests, memory, ids, enabled, writer, files>>

\* stop_grind() with discard_current_session(); a screen that is behind also
\* stops a grind that is over.
StopGrind ==
    /\ stage \notin {"idle", "opening"}
    /\ stage' = "idle"
    /\ logging' = FALSE
    /\ entries' = IF logging THEN {} ELSE entries
    /\ Leave
    /\ UNCHANGED <<grind, endQueued, requests, current, ids, enabled, writer, files>>

-----------------------------------------------------------------------------
\* The file task: end_grind_session().

\* It enters the result into whatever session is current; it saves it if
\* logging to flash is enabled.
EnterResultTooLate ==  \* mutant: the session is written before its result is in it
    /\ UNCHANGED current
    /\ step' = IF enabled THEN "open" ELSE "clear"
EnterResult ==
    /\ current' = [current EXCEPT !.result = Head(requests)]
    /\ step' = IF enabled THEN "open" ELSE "clear"
TakeRequest ==
    /\ step = "none" /\ requests # <<>>
    /\ requests' = Tail(requests)
    /\ IF logging THEN EnterResult ELSE UNCHANGED <<current, step>>
    /\ UNCHANGED <<control, logging, entries, ids, enabled, draft, full, files, past>>

\* write_individual_session_file() opens the file, which empties an older one
\* of that name, and counts what it will write.
Others(id) == {f \in files : f.id # id}
OpenFile ==
    /\ step = "open"
    /\ step' = "write"
    /\ draft' = [id |-> current.id, of |-> current.of, result |-> current.result,
                 data |-> entries, whole |-> FALSE]
    /\ files' = Others(current.id)
    /\ full' = FALSE
    /\ UNCHANGED <<control, requests, memory, ids, enabled, past>>

\* The session and the buffers go out one after the other; when another grind
\* has taken them meanwhile, each is the old one, the new one or a mixture.
Written(session, data) ==
    [draft EXCEPT !.of = session.of, !.result = session.result, !.data = data, !.whole = TRUE]
WriteFile ==
    /\ step = "write"
    /\ \E session \in {draft, current}, data \in {draft.data, entries, draft.data \cup entries} :
           files' = Others(draft.id) \cup {Written(session, data)}
    /\ step' = "clean"
    /\ UNCHANGED <<control, requests, memory, ids, enabled, draft, full, past>>

\* The flash is full: the partial file is removed again.
FailToWrite ==
    /\ step = "write"
    /\ Cardinality(files) >= MaxStored
    /\ step' = "clear"
    /\ full' = TRUE
    /\ UNCHANGED <<control, requests, memory, ids, enabled, draft, files, past>>

\* cleanup_old_session_files(): the lowest ids go until MaxStored are left.
Lower(f)  == {h \in files : h.id < f.id}
Higher(f) == {h \in files : h.id > f.id}
ExcessLeavesNewestOut == {f \in files : Cardinality(Lower(f)) >= MaxStored}  \* mutant: wrong end
Excess == {f \in files : Cardinality(Higher(f)) >= MaxStored}
CleanUp ==
    /\ step = "clean"
    /\ files' = files \ Excess
    /\ step' = "clear"
    /\ UNCHANGED <<control, requests, memory, ids, enabled, draft, full, past>>

\* The end of end_grind_session() clears the buffers, whoever uses them now.
ClearSession ==
    /\ step = "clear"
    /\ step' = "none"
    /\ entries' = {} /\ logging' = FALSE
    /\ UNCHANGED <<control, requests, current, ids, enabled, draft, full, files, past>>

-----------------------------------------------------------------------------
\* The menu, reached from READY, and the power supply.

ToggleLogging ==
    /\ stage = "idle"
    /\ enabled' = ~enabled
    /\ UNCHANGED <<control, requests, memory, ids, writer, files, past>>

\* execute_purge_operation(); the file task may be writing meanwhile.
PurgeLogs ==
    /\ stage = "idle"
    /\ files' = {}
    /\ UNCHANGED <<control, requests, memory, ids, enabled, writer, past>>

\* What is in RAM is gone.  A file that was being written stays, empty.
Reboot ==
    /\ stage' = "idle" /\ endQueued' = FALSE /\ requests' = <<>>
    /\ logging' = FALSE /\ entries' = {}
    /\ current' = [id |-> 0, of |-> 0, result |-> 0]
    /\ step' = "none" /\ draft' = NoFile /\ full' = FALSE
    /\ files' = IF step = "write" THEN Others(draft.id) \cup {[draft EXCEPT !.data = {}]} ELSE files
    /\ booted' = grind
    /\ UNCHANGED <<grind, hurried>>

PowerFails ==
    /\ Reboot
    /\ nextId' = savedId
    /\ UNCHANGED <<savedId, enabled>>

\* perform_factory_reset() erases NVS and restarts.
FactoryReset ==
    /\ stage = "idle"
    /\ Reboot
    /\ nextId' = 1 /\ savedId' = 1 /\ enabled' = FALSE

-----------------------------------------------------------------------------
Controller == StartGrind \/ BeginSession \/ OpenSession \/ Record \/ FinishGrind \/ QueueEnd
                 \/ ExtendGrind \/ DismissGrind \/ StopGrind
FileTask == TakeRequest \/ OpenFile \/ WriteFile \/ FailToWrite \/ CleanUp \/ ClearSession
Menu == ToggleLogging \/ PurgeLogs \/ FactoryReset

Next == Controller \/ FileTask \/ Menu \/ PowerFails

Spec == Init /\ [][Next]_vars

-----------------------------------------------------------------------------
\* Properties.

\* The end of the session that is there was asked for, and worked off.
SessionEnded == (endQueued \/ ~logging) /\ ~Busy

\* A grind that is over and whose end was worked off has its file, when logging
\* is enabled and the file did fit; a failed grind as well as a good one, and
\* however many sessions have to make room.  There are two exceptions: the grind
\* came upon one that was left too early, or MaxStored files from before the
\* restart, when the names began again, have higher names, so that the newest file
\* is the first to go.
FinishedGrindIsSaved ==
    stage = "over" /\ SessionEnded /\ enabled /\ ~full /\ grind \notin hurried =>
        \/ \E f \in files : f.of = grind /\ f.whole
        \/ Cardinality({f \in files : f.of <= booted /\ f.id > current.id}) >= MaxStored

\* A file describes one grind: its settings, its result and its entries; that of a
\* grind that overlaps with the end of another one may be a mixture, but it spoils
\* no other.
FileHoldsOneGrind ==
    \A f \in files : f.whole /\ f.of \notin hurried => f.result = f.of /\ f.data \subseteq {f.of}

\* A whole file disappears when the user purges the log, or another session gets
\* its name, or MaxStored files with higher names need the room.  Only a file from
\* before the restart loses its name to another session, or that of a grind left too
\* early; and the files that push out another one are of later grinds or from
\* before the restart.
RotationKeepsNewest ==
    [][\A f \in files : f.whole /\ f \notin files' =>
           \/ files' = {}
           \/ f.id = current.id /\ (f.of <= booted \/ f.of \in hurried)
           \/ Cardinality({h \in Higher(f) : h.of > f.of \/ h.of <= booted \/ f.of \in hurried})
                  >= MaxStored]_vars
=============================================================================
